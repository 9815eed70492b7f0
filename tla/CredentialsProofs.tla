------------------------- MODULE CredentialsProofs -------------------------
(* Credentials for any number of accounts, tokens, links, passwords and     *)
(* requests.                                                                *)
EXTENDS Credentials, TLAPS

\* A revocation of a's sessions is still to come.
Revoking(a) == \E r \in Requests : At(r, "revoke") /\ Who(r) = a

\* A session opened by this password may stand.
MayStand(a, by) == by = password[a] \/ Revoking(a)

\* What a request will store is a session that may stand, unless a revocation
\* has passed it by.
RequestOK(q) ==
    /\ q.at \in {"isValid", "readUser", "rotate"} => subject[q.token] = q.who
    /\ q.at = "store" /\ ~q.missed => MayStand(q.who, q.by)
    /\ q.at \in {"readUser", "rotate"} /\ ~q.missed /\ q.token \notin slipped =>
          MayStand(q.who, openedBy[q.token])

RequestsOK == \A r \in Requests : RequestOK(request[r])

\* Nothing belongs to an account that does not exist yet.
AbsentOwnsNothing ==
    \A a \in Accounts : account[a] = "absent" =>
        /\ writes[a] = 0
        /\ \A t \in Tokens : subject[t] # a
        /\ \A l \in Links : linkOf[l] # a
        /\ \A r \in Requests : Who(r) = a => At(r, "create")

\* A link is used only as it goes.
LinksOK ==
    \A l \in Links :
        /\ link[l] = "absent" <=> linkOf[l] = NoAccount
        /\ linkUses[l] = 0 \/ (link[l] = "gone" /\ linkUses[l] = 1)

\* No way to a password is left of a deleted account.
NoWayBack ==
    \A a \in Accounts \ overtaken : account[a] = "deleted" =>
        /\ password[a] = 0
        /\ \A l \in Links : linkOf[l] = a => link[l] = "gone"
        /\ PasswordRequests(a) = {}

CredInv ==
    /\ TypeOK
    /\ RequestsOK
    /\ AbsentOwnsNothing
    /\ LinksOK
    /\ NoWayBack
    /\ OldSessionsEnd

LEMMA IdleIsOK == Idle \in RequestState /\ Idle.at = "idle" /\ Idle.who = NoAccount
BY BoundAssumption DEF Idle, RequestState

LEMMA InitCredInv == Init => CredInv
<1> SUFFICES ASSUME Init PROVE CredInv
  OBVIOUS
<1> USE NullAssumption DEF Init
<1>0. 0 \in 0..MaxPasswords BY BoundAssumption
<1>1. TypeOK BY <1>0, IdleIsOK DEF TypeOK, WellFormed
<1>2. RequestsOK BY IdleIsOK DEF RequestsOK, RequestOK
<1>3. AbsentOwnsNothing /\ LinksOK
  BY IdleIsOK DEF AbsentOwnsNothing, LinksOK, Who
<1>4. NoWayBack /\ OldSessionsEnd
  BY DEF NoWayBack, OldSessionsEnd
<1>5. QED BY <1>1, <1>2, <1>3, <1>4 DEF CredInv

-----------------------------------------------------------------------------
(* Steps that write no user and no link, and store no session.             *)

\* A request that comes, moves or ends.
Moved(r) ==
    LET q == request'[r] IN
    /\ q \in RequestState
    /\ WellFormed(q)
    /\ ~At(r, "revoke")
    /\ RequestOK(q)
    /\ q.who \in Accounts /\ q.at # "create" => account[q.who] # "absent"
    /\ q.who \in Accounts /\ q.at \in {"createLink", "commitPassword"} =>
          account[q.who] # "deleted" \/ q.who \in overtaken

LEMMA MovesKeep ==
    ASSUME CredInv,
           request' = [r \in Requests |-> request'[r]],
           \A r \in Requests : request'[r] = request[r] \/ Moved(r),
           rows' \subseteq rows, expired' \subseteq rows',
           UNCHANGED <<users, subject, openedBy, links, history>>
    PROVE  CredInv'
<1> USE DEF CredInv, users, links, history
<1>1. request' \in [Requests -> RequestState] /\ \A r \in Requests : WellFormed(request'[r])
  BY DEF TypeOK, Moved
<1>2. TypeOK'
  BY <1>1 DEF TypeOK, WellFormed
<1>3. \A a : Revoking(a) => Revoking(a)'
  BY DEF Revoking, At, Who, Moved
<1>4. \A a, by : MayStand(a, by) => MayStand(a, by)'
  BY <1>3 DEF MayStand
<1>5. RequestsOK'
  BY <1>4 DEF RequestsOK, RequestOK, Moved
<1>6. AbsentOwnsNothing'
  BY DEF AbsentOwnsNothing, Moved, At, Who
<1>7. LinksOK' BY DEF LinksOK
<1>8. NoWayBack'
  BY DEF NoWayBack, PasswordRequests, Moved, At, Who
<1>9. OldSessionsEnd'
  BY <1>3 DEF OldSessionsEnd, Revoking
<1>10. QED BY <1>2, <1>5, <1>6, <1>7, <1>8, <1>9

\* Request r becomes q.
Becomes(r, q) ==
    /\ request' = [request EXCEPT ![r] = q]
    /\ q \in RequestState
    /\ WellFormed(q)
    /\ RequestOK(q)
    /\ q.who \in Accounts /\ q.at # "create" => account[q.who] # "absent"
    /\ q.who \in Accounts /\ q.at \in {"createLink", "commitPassword"} =>
          account[q.who] # "deleted" \/ q.who \in overtaken

LEMMA BecomesMoved ==
    ASSUME CredInv, NEW r \in Requests, NEW q, Becomes(r, q), ~At(r, "revoke")
    PROVE  /\ request' = [p \in Requests |-> request'[p]]
           /\ \A p \in Requests : request'[p] = request[p] \/ Moved(p)
<1>1. /\ request' = [p \in Requests |-> request'[p]]
      /\ \A p \in Requests : request'[p] = IF p = r THEN q ELSE request[p]
  BY DEF CredInv, TypeOK, Becomes
<1>2. Moved(r) BY <1>1 DEF Moved, Becomes
<1>3. QED BY <1>1, <1>2

LEMMA IdleBecomes ==
    ASSUME CredInv, NEW r \in Requests, Answer(r)
    PROVE  Becomes(r, Idle)
BY IdleIsOK, NullAssumption DEF Becomes, Answer, WellFormed, RequestOK

LEMMA ReceivesKeep ==
    ASSUME CredInv, NEW r \in Requests, Receives(r)
    PROVE  CredInv'
<1> USE DEF CredInv
<1>1. request[r] = Idle /\ UNCHANGED <<users, sessions, links, history>>
  BY DEF Receives, ReceiveRegister, ReceiveLogin, ReceiveForgot, ReceiveSetPassword, ReceiveDelete,
         ReceiveLogout, ReceiveRefresh, ReceiveReset, Receive
<1>2. \E q : Becomes(r, q)
  <2>1. ASSUME NEW a \in Accounts, ReceiveRegister(r, a) PROVE \E q : Becomes(r, q)
    <3> DEFINE q == [Idle EXCEPT !.at = "create", !.who = a]
    <3>1. request' = [request EXCEPT ![r] = q]
      BY <2>1 DEF ReceiveRegister, Receive
    <3>2. q \in RequestState /\ WellFormed(q) /\ RequestOK(q) /\ q.at = "create" /\ q.who = a
      BY IdleIsOK DEF RequestState, WellFormed, RequestOK
    <3> HIDE DEF q
    <3>3. Becomes(r, q) BY <3>1, <3>2 DEF Becomes
    <3>4. QED BY <3>3
  <2>2. ASSUME NEW a \in Accounts, ReceiveLogin(r, a) PROVE \E q : Becomes(r, q)
    <3> DEFINE q == [Idle EXCEPT !.at = "store", !.who = a, !.by = password[a]]
    <3>1. request' = [request EXCEPT ![r] = q] /\ account[a] = "active"
      BY <2>2 DEF ReceiveLogin, Receive
    <3>2. password[a] \in 0..MaxPasswords BY DEF TypeOK
    <3>3. q \in RequestState /\ WellFormed(q) /\ RequestOK(q) /\ q.at = "store" /\ q.who = a
      BY IdleIsOK, <3>2 DEF RequestState, WellFormed, RequestOK, MayStand
    <3> HIDE DEF q
    <3>4. Becomes(r, q) BY <3>1, <3>3 DEF Becomes
    <3>5. QED BY <3>4
  <2>3. ASSUME NEW a \in Accounts, NEW at \in {"createLink", "commitPassword", "commitDelete"},
               account[a] = "active", Receive(r, [Idle EXCEPT !.at = at, !.who = a])
        PROVE  \E q : Becomes(r, q)
    <3> DEFINE q == [Idle EXCEPT !.at = at, !.who = a]
    <3>1. request' = [request EXCEPT ![r] = q]
      BY <2>3 DEF Receive
    <3>2. q \in RequestState /\ WellFormed(q) /\ RequestOK(q) /\ q.who = a /\ q.at = at
      BY IdleIsOK DEF RequestState, WellFormed, RequestOK
    <3> HIDE DEF q
    <3>3. Becomes(r, q) BY <2>3, <3>1, <3>2 DEF Becomes
    <3>4. QED BY <3>3
  <2>4. ASSUME NEW a \in Accounts, NEW t \in Tokens, ReceiveLogout(r, a, t)
        PROVE  \E q : Becomes(r, q)
    <3> DEFINE q == [Idle EXCEPT !.at = "remove", !.who = a, !.token = t]
    <3>1. request' = [request EXCEPT ![r] = q] /\ account[a] = "active"
      BY <2>4 DEF ReceiveLogout, Receive
    <3>2. q \in RequestState /\ WellFormed(q) /\ RequestOK(q) /\ q.at = "remove" /\ q.who = a
      BY IdleIsOK DEF RequestState, WellFormed, RequestOK
    <3> HIDE DEF q
    <3>3. Becomes(r, q) BY <3>1, <3>2 DEF Becomes
    <3>4. QED BY <3>3
  <2>5. ASSUME NEW t \in Tokens, ReceiveRefresh(r, t) PROVE \E q : Becomes(r, q)
    <3> DEFINE a == subject[t]
               q == [Idle EXCEPT !.at = "isValid", !.who = a, !.token = t]
    <3>1. request' = [request EXCEPT ![r] = q]
      BY <2>5 DEF ReceiveRefresh, Receive
    <3>2. a \in Accounts /\ account[a] # "absent"
      BY <2>5 DEF ReceiveRefresh, TypeOK, AbsentOwnsNothing
    <3>3. q \in RequestState /\ WellFormed(q) /\ RequestOK(q) /\ q.at = "isValid" /\ q.who = a
      BY IdleIsOK, <3>2 DEF RequestState, WellFormed, RequestOK
    <3> HIDE DEF q
    <3>4. Becomes(r, q) BY <3>1, <3>2, <3>3 DEF Becomes
    <3>5. QED BY <3>4
  <2>6. ASSUME NEW l \in Links, ReceiveReset(r, l) PROVE \E q : Becomes(r, q)
    <3> DEFINE a == linkOf[l]
               q == [Idle EXCEPT !.at = "commitReset", !.who = a, !.link = l]
    <3>1. request' = [request EXCEPT ![r] = q]
      BY <2>6 DEF ReceiveReset, Receive
    <3>2. a \in Accounts /\ account[a] # "absent"
      BY <2>6 DEF ReceiveReset, TypeOK, LinksOK, AbsentOwnsNothing
    <3>3. q \in RequestState /\ WellFormed(q) /\ RequestOK(q) /\ q.at = "commitReset" /\ q.who = a
      BY IdleIsOK, <3>2 DEF RequestState, WellFormed, RequestOK
    <3> HIDE DEF q
    <3>4. Becomes(r, q) BY <3>1, <3>2, <3>3 DEF Becomes
    <3>5. QED BY <3>4
  <2>7. QED
    BY <2>1, <2>2, <2>3, <2>4, <2>5, <2>6
       DEF Receives, ReceiveForgot, ReceiveSetPassword, ReceiveDelete
<1>3. PICK q : Becomes(r, q) BY <1>2
<1>4. ~At(r, "revoke") BY <1>1, IdleIsOK DEF At
<1>5. rows' \subseteq rows /\ expired' \subseteq rows'
  BY <1>1 DEF sessions, TypeOK
<1>6. QED BY <1>1, <1>3, <1>4, <1>5, BecomesMoved, MovesKeep DEF sessions

\* Steps inside a request, and the rows that go.
LEMMA MovesOnKeep ==
    ASSUME CredInv, NEW r \in Requests,
           AddressTaken(r) \/ IsValid(r) \/ ReadUser(r) \/ Rotate(r) \/ RemoveToken(r) \/ RollBackReset(r)
    PROVE  CredInv'
<1> USE DEF CredInv
<1> DEFINE q == request[r]
<1>0. q \in RequestState /\ WellFormed(q) /\ RequestOK(q) BY DEF TypeOK, RequestsOK
<1>1. /\ UNCHANGED <<users, subject, openedBy, links, history>>
      /\ rows' \subseteq rows /\ expired' \subseteq rows' /\ ~At(r, "revoke")
  BY DEF AddressTaken, IsValid, ReadUser, Rotate, RemoveToken, RollBackReset, sessions, RemoveRows, At,
         TypeOK
<1>2. CASE Answer(r)
  BY <1>1, <1>2, IdleBecomes, BecomesMoved, MovesKeep
<1>3. CASE IsValid(r) /\ ~Answer(r)
  <2> DEFINE n == [q EXCEPT !.at = "readUser"]
  <2>1. q.at = "isValid" /\ q.token \in rows /\ q.who \in Accounts /\ request' = [request EXCEPT ![r] = n]
    BY <1>0, <1>3 DEF IsValid, At, MoveTo, WellFormed
  <2>2. /\ n \in RequestState /\ n.at = "readUser" /\ n.who = q.who /\ n.token = q.token
        /\ n.missed = q.missed
    BY <1>0 DEF RequestState
  <2>3. WellFormed(n) BY <1>0, <2>1, <2>2 DEF WellFormed
  <2>4. RequestOK(n)
    <3>1. subject[q.token] = q.who BY <1>0, <2>1 DEF RequestOK
    <3>2. q.token \notin slipped => MayStand(q.who, openedBy[q.token])
      BY <2>1, <3>1 DEF OldSessionsEnd, MayStand, Revoking
    <3>3. QED BY <2>2, <3>1, <3>2 DEF RequestOK
  <2>5. account[q.who] # "absent" BY <2>1 DEF AbsentOwnsNothing, Who, At
  <2>6. Becomes(r, n)
    BY <2>1, <2>2, <2>3, <2>4, <2>5 DEF Becomes
  <2>7. QED BY <1>1, <2>6, BecomesMoved, MovesKeep
<1>4. CASE ReadUser(r) /\ ~Answer(r)
  <2> DEFINE n == [q EXCEPT !.at = "rotate"]
  <2>1. q.at = "readUser" /\ q.who \in Accounts /\ request' = [request EXCEPT ![r] = n]
    BY <1>0, <1>4 DEF ReadUser, At, MoveTo, WellFormed
  <2>2. /\ n \in RequestState /\ n.at = "rotate" /\ n.who = q.who /\ n.token = q.token
        /\ n.missed = q.missed
    BY <1>0 DEF RequestState
  <2>3. WellFormed(n) /\ RequestOK(n) BY <1>0, <2>1, <2>2 DEF WellFormed, RequestOK
  <2>5. account[q.who] # "absent" BY <2>1 DEF AbsentOwnsNothing, Who, At
  <2>6. Becomes(r, n) BY <2>1, <2>2, <2>3, <2>5 DEF Becomes
  <2>7. QED BY <1>1, <2>6, BecomesMoved, MovesKeep
<1>5. CASE Rotate(r)
  <2> DEFINE n == [q EXCEPT !.at = "store", !.by = openedBy[q.token],
                            !.missed = q.missed \/ q.token \in slipped]
  <2>1. /\ q.at = "rotate" /\ q.who \in Accounts /\ q.token \in Tokens
        /\ request' = [request EXCEPT ![r] = n]
    BY <1>0, <1>5 DEF Rotate, At, WellFormed, TypeOK
  <2>2. /\ n \in RequestState /\ n.at = "store" /\ n.who = q.who /\ n.by = openedBy[q.token]
        /\ n.missed = (q.missed \/ q.token \in slipped)
    <3>1. openedBy[q.token] \in 0..MaxPasswords BY <2>1 DEF TypeOK
    <3>2. QED BY <1>0, <3>1 DEF RequestState
  <2>3. WellFormed(n) /\ RequestOK(n) BY <1>0, <2>1, <2>2 DEF WellFormed, RequestOK
  <2>5. account[q.who] # "absent" BY <2>1 DEF AbsentOwnsNothing, Who, At
  <2>6. Becomes(r, n) BY <2>1, <2>2, <2>3, <2>5 DEF Becomes
  <2>7. QED BY <1>1, <2>6, BecomesMoved, MovesKeep
<1>6. QED BY <1>2, <1>3, <1>4, <1>5 DEF AddressTaken, RemoveToken, RollBackReset

\* The hourly cleanup, and tokens and links that run out.
LEMMA TimeKeeps ==
    ASSUME CredInv,
           RemoveExpired \/ (\E t \in Tokens : ExpireToken(t)) \/ \E l \in Links : ExpireLink(l)
    PROVE  CredInv'
<1> USE DEF CredInv
<1>1. CASE RemoveExpired \/ \E t \in Tokens : ExpireToken(t)
  <2>1. /\ UNCHANGED <<users, subject, openedBy, links, history, request>>
        /\ rows' \subseteq rows /\ expired' \subseteq rows'
    BY <1>1 DEF RemoveExpired, ExpireToken, RemoveRows, TypeOK
  <2>2. request' = [r \in Requests |-> request'[r]] BY <2>1 DEF TypeOK
  <2>3. QED BY <2>1, <2>2, MovesKeep
<1>2. ASSUME NEW l \in Links, ExpireLink(l) PROVE CredInv'
  <2>1. /\ link[l] = "valid" /\ link' = [link EXCEPT ![l] = "expired"]
        /\ UNCHANGED <<users, sessions, linkOf, linkUses, request, history>>
    BY <1>2 DEF ExpireLink
  <2> USE DEF users, sessions, history
  <2>2. TypeOK' BY <2>1 DEF TypeOK, WellFormed
  <2>3. RequestsOK' BY <2>1 DEF RequestsOK, RequestOK, MayStand, Revoking, At, Who
  <2>4. AbsentOwnsNothing' BY <2>1 DEF AbsentOwnsNothing, At, Who
  <2>5. LinksOK' BY <2>1 DEF LinksOK, TypeOK
  <2>6. NoWayBack' BY <2>1 DEF NoWayBack, PasswordRequests, Who, TypeOK
  <2>7. OldSessionsEnd' BY <2>1 DEF OldSessionsEnd, At, Who
  <2>8. QED BY <2>2, <2>3, <2>4, <2>5, <2>6, <2>7
<1>3. QED BY <1>1, <1>2

-----------------------------------------------------------------------------
(* The steps that write.                                                   *)

LEMMA AnswerFacts ==
    ASSUME CredInv, NEW r \in Requests, Answer(r), ~At(r, "revoke")
    PROVE  /\ request' \in [Requests -> RequestState]
           /\ \A q \in Requests : request'[q] = IF q = r THEN Idle ELSE request[q]
           /\ \A a : Revoking(a) => Revoking(a)'
<1>1. /\ request' \in [Requests -> RequestState]
      /\ \A q \in Requests : request'[q] = IF q = r THEN Idle ELSE request[q]
  BY IdleIsOK DEF CredInv, TypeOK, Answer
<1>2. QED BY <1>1 DEF Revoking, At, Who

\* A new session: its token is nobody's, and the request says whose it becomes.
LEMMA StoreKeeps ==
    ASSUME CredInv, NEW r \in Requests, NEW t \in Tokens, Store(r, t)
    PROVE  CredInv'
<1> USE DEF CredInv
<1> DEFINE a == Who(r)
<1>1. /\ At(r, "store") /\ subject[t] = NoAccount /\ Answer(r)
      /\ subject' = [subject EXCEPT ![t] = a]
      /\ rows' = rows \cup {t}
      /\ openedBy' = [openedBy EXCEPT ![t] = request[r].by]
      /\ slipped' = IF request[r].missed THEN slipped \cup {t} ELSE slipped
      /\ UNCHANGED <<users, expired, links, overtaken>>
  BY DEF Store, FreshToken
<1>2. a \in Accounts /\ request[r].by \in 0..MaxPasswords /\ request[r] \in RequestState
  BY <1>1 DEF TypeOK, WellFormed, At, Who, RequestState
<1>3. /\ request' \in [Requests -> RequestState]
      /\ \A q \in Requests : request'[q] = IF q = r THEN Idle ELSE request[q]
      /\ \A b : Revoking(b) => Revoking(b)'
  BY <1>1, AnswerFacts DEF At
<1> HIDE DEF a
<1> USE DEF users, links
<1>4. TypeOK'
  <2>1. \A q \in Requests : WellFormed(request[q])'
    BY <1>1, <1>3, IdleIsOK DEF TypeOK, WellFormed
  <2>2. rows' \subseteq {u \in Tokens : subject'[u] \in Accounts}
    BY <1>1, <1>2 DEF TypeOK
  <2>3. QED BY <1>1, <1>2, <1>3, <2>1, <2>2 DEF TypeOK
<1>5. \A b, by : MayStand(b, by) => MayStand(b, by)'
  BY <1>1, <1>3 DEF MayStand
<1>6. RequestsOK'
  <2> SUFFICES ASSUME NEW q \in Requests PROVE RequestOK(request[q])'
    BY DEF RequestsOK
  <2>1. CASE q = r BY <1>3, <2>1, IdleIsOK DEF RequestOK
  <2>2. CASE q # r
    <3>1. request'[q] = request[q] /\ RequestOK(request[q]) /\ WellFormed(request[q])
      BY <1>3, <2>2 DEF RequestsOK, TypeOK
    <3>2. request[q].at \in {"isValid", "readUser", "rotate"} => request[q].token # t
      BY <1>1, <3>1, NullAssumption DEF RequestOK, WellFormed
    <3>3. \A u \in Tokens : u # t => subject'[u] = subject[u] /\ openedBy'[u] = openedBy[u]
      BY <1>1 DEF TypeOK
    <3>4. slipped \subseteq slipped' BY <1>1
    <3>5. QED BY <3>1, <3>2, <3>3, <3>4, <1>5 DEF RequestOK, WellFormed
  <2>3. QED BY <2>1, <2>2
<1>7. AbsentOwnsNothing'
  <2>1. account[a] # "absent" BY <1>1, <1>2 DEF AbsentOwnsNothing, At, a
  <2>2. QED BY <1>1, <1>3, <2>1, IdleIsOK, NullAssumption DEF AbsentOwnsNothing, Who, At, TypeOK
<1>8. LinksOK' BY <1>1 DEF LinksOK
<1>9. NoWayBack'
  BY <1>1, <1>3, IdleIsOK DEF NoWayBack, PasswordRequests, Who
<1>10. OldSessionsEnd'
  <2> SUFFICES ASSUME NEW u \in rows' \ slipped' PROVE MayStand(subject[u], openedBy[u])'
    BY DEF OldSessionsEnd, MayStand, Revoking
  <2>1. CASE u = t
    <3>1. subject'[t] = a /\ openedBy'[t] = request[r].by /\ ~request[r].missed
      BY <1>1, <2>1 DEF TypeOK
    <3>2. MayStand(a, request[r].by) BY <1>1, <3>1 DEF RequestsOK, RequestOK, At, Who, a
    <3>3. QED BY <2>1, <3>1, <3>2, <1>5
  <2>2. CASE u # t
    <3>1. u \in rows \ slipped /\ subject'[u] = subject[u] /\ openedBy'[u] = openedBy[u]
      BY <1>1, <2>2 DEF TypeOK
    <3>2. MayStand(subject[u], openedBy[u]) BY <3>1 DEF OldSessionsEnd, MayStand, Revoking
    <3>3. QED BY <3>1, <3>2, <1>5
  <2>3. QED BY <2>1, <2>2
<1>11. QED BY <1>4, <1>6, <1>7, <1>8, <1>9, <1>10

\* The first password of an account: nothing was its own before.
LEMMA CreateAccountKeeps ==
    ASSUME CredInv, NEW r \in Requests, CreateAccount(r)
    PROVE  CredInv'
<1> USE DEF CredInv
<1> DEFINE a == Who(r)
<1>1. /\ At(r, "create") /\ account[a] = "absent"
      /\ account' = [account EXCEPT ![a] = "active"]
      /\ writes' = [writes EXCEPT ![a] = @ + 1]
      /\ password' = [password EXCEPT ![a] = writes[a] + 1]
      /\ UNCHANGED <<role, sessions, links, history>>
  BY DEF CreateAccount, SetPassword
<1>2. a \in Accounts /\ request[r] \in RequestState
  BY <1>1 DEF TypeOK, WellFormed, At, Who, RequestState
<1>3. writes[a] = 0 /\ writes[a] + 1 = 1 /\ 1 \in 0..MaxPasswords
  BY <1>1, <1>2, BoundAssumption DEF AbsentOwnsNothing
<1> DEFINE n == [request[r] EXCEPT !.at = "store", !.by = 1]
<1>4. n \in RequestState /\ n.at = "store" /\ n.who = a /\ n.by = 1
  BY <1>2, <1>3 DEF RequestState, Who
<1>5. request' = [request EXCEPT ![r] = n] \/ request' = [request EXCEPT ![r] = Idle]
  BY DEF CreateAccount, Answer
<1> HIDE DEF a, n
<1>6. PICK m \in {n, Idle} :
        /\ request' \in [Requests -> RequestState]
        /\ \A q \in Requests : request'[q] = IF q = r THEN m ELSE request[q]
  BY <1>4, <1>5, IdleIsOK DEF TypeOK
<1> USE DEF sessions, links, history
<1>7. TypeOK'
  <2>1. \A q \in Requests : WellFormed(request[q])'
    BY <1>1, <1>2, <1>4, <1>6, IdleIsOK DEF TypeOK, WellFormed
  <2>2. QED BY <1>1, <1>2, <1>3, <1>6, <2>1 DEF TypeOK
<1>8. \A b \in Accounts : b # a => password'[b] = password[b] /\ account'[b] = account[b] /\ writes'[b] = writes[b]
  BY <1>1 DEF TypeOK
<1>9. password'[a] = 1 /\ account'[a] = "active" BY <1>1, <1>2, <1>3 DEF TypeOK
<1>10. \A b : Revoking(b) => Revoking(b)'
  BY <1>1, <1>6 DEF Revoking, At, Who
<1>11. RequestsOK'
  <2> SUFFICES ASSUME NEW q \in Requests PROVE RequestOK(request[q])'
    BY DEF RequestsOK
  <2>1. CASE q = r
    BY <1>4, <1>6, <1>9, <2>1, IdleIsOK DEF RequestOK, MayStand
  <2>2. CASE q # r
    <3>1. request'[q] = request[q] /\ RequestOK(request[q]) /\ WellFormed(request[q])
      BY <1>6, <2>2 DEF RequestsOK, TypeOK
    <3>2. request[q].who = a => request[q].at = "create"
      BY <1>1, <1>2 DEF AbsentOwnsNothing, At, Who
    <3>3. \A b, by : b \in Accounts /\ b # a /\ MayStand(b, by) => MayStand(b, by)'
      BY <1>8, <1>10 DEF MayStand
    <3>4. QED BY <1>1, <3>1, <3>2, <3>3 DEF RequestOK, WellFormed
  <2>3. QED BY <2>1, <2>2
<1>12. AbsentOwnsNothing'
  BY <1>1, <1>4, <1>6, <1>8, <1>9, IdleIsOK, NullAssumption DEF AbsentOwnsNothing, Who, At
<1>13. LinksOK' BY <1>1 DEF LinksOK
<1>14. NoWayBack'
  BY <1>1, <1>4, <1>6, <1>8, <1>9, IdleIsOK DEF NoWayBack, PasswordRequests, Who
<1>15. OldSessionsEnd'
  <2> SUFFICES ASSUME NEW t \in rows \ slipped
               PROVE  openedBy[t] = password'[subject[t]] \/ Revoking(subject[t])'
    BY <1>1 DEF OldSessionsEnd, Revoking
  <2>1. subject[t] \in Accounts /\ subject[t] # a
    BY <1>1, <1>2 DEF TypeOK, AbsentOwnsNothing
  <2>2. QED BY <2>1, <1>1, <1>8, <1>10 DEF OldSessionsEnd, Revoking
<1>16. QED BY <1>7, <1>11, <1>12, <1>13, <1>14, <1>15

LEMMA CreateLinkKeeps ==
    ASSUME CredInv, NEW r \in Requests, NEW l \in Links, CreateLink(r, l)
    PROVE  CredInv'
<1> USE DEF CredInv
<1> DEFINE a == Who(r)
<1>1. /\ At(r, "createLink") /\ link[l] = "absent" /\ Answer(r)
      /\ link' = [link EXCEPT ![l] = "valid"]
      /\ linkOf' = [linkOf EXCEPT ![l] = a]
      /\ UNCHANGED <<users, sessions, linkUses, history>>
  BY DEF CreateLink
<1>2. a \in Accounts BY <1>1 DEF TypeOK, WellFormed, At, Who
<1>3. /\ request' \in [Requests -> RequestState]
      /\ \A q \in Requests : request'[q] = IF q = r THEN Idle ELSE request[q]
      /\ \A b : Revoking(b) => Revoking(b)'
  BY <1>1, AnswerFacts DEF At
<1>4. account[a] # "absent" /\ (account[a] = "deleted" => a \in overtaken)
  <2>1. account[a] # "absent" BY <1>1, <1>2 DEF AbsentOwnsNothing, At
  <2>2. r \in PasswordRequests(a) BY <1>1 DEF PasswordRequests, At
  <2>3. QED BY <1>2, <2>1, <2>2 DEF NoWayBack
<1>5. linkOf[l] = NoAccount /\ linkUses[l] = 0 BY <1>1 DEF LinksOK
<1> HIDE DEF a
<1> USE DEF users, sessions, history
<1>6. TypeOK'
  <2>1. \A q \in Requests : WellFormed(request[q])'
    BY <1>1, <1>3, <1>5, IdleIsOK, NullAssumption DEF TypeOK, WellFormed
  <2>2. QED BY <1>1, <1>2, <1>3, <2>1 DEF TypeOK
<1>7. RequestsOK'
  BY <1>1, <1>3, IdleIsOK DEF RequestsOK, RequestOK, MayStand
<1>8. AbsentOwnsNothing'
  BY <1>1, <1>3, <1>4, IdleIsOK, NullAssumption DEF AbsentOwnsNothing, Who, At, TypeOK
<1>9. LinksOK'
  BY <1>1, <1>2, <1>5, NullAssumption DEF LinksOK, TypeOK
<1>10. NoWayBack'
  BY <1>1, <1>3, <1>4, IdleIsOK DEF NoWayBack, PasswordRequests, Who, TypeOK
<1>11. OldSessionsEnd' BY <1>1, <1>3 DEF OldSessionsEnd, Revoking
<1>12. QED BY <1>6, <1>7, <1>8, <1>9, <1>10, <1>11

-----------------------------------------------------------------------------
(* A password is committed, and the revocation is still to come.           *)

Commits(r) ==
    /\ At(r, "commitReset") \/ At(r, "commitPassword") \/ At(r, "commitDelete")
    /\ MoveTo(r, "revoke")
    /\ \A a \in Accounts : a # Who(r) => password'[a] = password[a]
    /\ UNCHANGED <<sessions, slipped>>

LEMMA CommitFacts ==
    ASSUME CredInv, NEW r \in Requests, Commits(r)
    PROVE  /\ Who(r) \in Accounts /\ account[Who(r)] # "absent"
           /\ request' \in [Requests -> RequestState]
           /\ \A q \in Requests : Who(q)' = Who(q) /\ request'[q].token = request[q].token
           /\ \A q \in Requests : request'[q].link = request[q].link
           /\ \A q \in Requests : request'[q].at = IF q = r THEN "revoke" ELSE request[q].at
           /\ \A a : PasswordRequests(a)' \subseteq PasswordRequests(a)
           /\ RequestsOK'
           /\ OldSessionsEnd'
<1> USE DEF CredInv
<1> DEFINE n == [request[r] EXCEPT !.at = "revoke"]
<1>1. /\ At(r, "commitReset") \/ At(r, "commitPassword") \/ At(r, "commitDelete")
      /\ request' = [request EXCEPT ![r] = n]
      /\ \A a \in Accounts : a # Who(r) => password'[a] = password[a]
      /\ UNCHANGED <<sessions, slipped>>
  BY DEF Commits, MoveTo
<1>2. request[r] \in RequestState /\ WellFormed(request[r]) BY DEF TypeOK
<1>3. /\ n \in RequestState /\ n.at = "revoke" /\ n.who = Who(r)
      /\ n.token = request[r].token /\ n.link = request[r].link
  BY <1>2 DEF RequestState, Who
<1>4. Who(r) \in Accounts /\ account[Who(r)] # "absent"
  BY <1>1, <1>2 DEF WellFormed, Who, At, AbsentOwnsNothing
<1> HIDE DEF n
<1>5. /\ request' \in [Requests -> RequestState]
      /\ \A q \in Requests : request'[q] = IF q = r THEN n ELSE request[q]
  BY <1>1, <1>3 DEF TypeOK
<1>6. /\ \A q \in Requests : Who(q)' = Who(q) /\ request'[q].token = request[q].token
      /\ \A q \in Requests : request'[q].link = request[q].link
      /\ \A q \in Requests : request'[q].at = IF q = r THEN "revoke" ELSE request[q].at
  BY <1>3, <1>5 DEF Who
<1>7. \A a : PasswordRequests(a)' \subseteq PasswordRequests(a)
  BY <1>6 DEF PasswordRequests
<1>8. \A a : a = Who(r) \/ Revoking(a) => Revoking(a)'
  BY <1>1, <1>3, <1>5 DEF Revoking, At, Who
<1>9. \A a, by : a \in Accounts /\ MayStand(a, by) => MayStand(a, by)'
  BY <1>1, <1>8 DEF MayStand
<1> USE DEF sessions
<1>10. RequestsOK'
  <2> SUFFICES ASSUME NEW q \in Requests PROVE RequestOK(request[q])'
    BY DEF RequestsOK
  <2>1. CASE q = r BY <1>3, <1>5, <2>1 DEF RequestOK
  <2>2. CASE q # r
    <3>1. request'[q] = request[q] /\ RequestOK(request[q]) /\ WellFormed(request[q])
      BY <1>5, <2>2 DEF RequestsOK, TypeOK
    <3>2. QED BY <1>1, <1>9, <3>1 DEF RequestOK, WellFormed
  <2>3. QED BY <2>1, <2>2
<1>11. OldSessionsEnd'
  <2> SUFFICES ASSUME NEW t \in rows \ slipped PROVE MayStand(subject[t], openedBy[t])'
    BY <1>1 DEF OldSessionsEnd, MayStand, Revoking
  <2>1. subject[t] \in Accounts BY DEF TypeOK
  <2>2. MayStand(subject[t], openedBy[t]) BY DEF OldSessionsEnd, MayStand, Revoking
  <2>3. QED BY <1>1, <1>9, <2>1, <2>2
<1>12. QED BY <1>4, <1>5, <1>6, <1>7, <1>10, <1>11

\* resetPassword: the link goes in the same transaction.
LEMMA CommitResetKeeps ==
    ASSUME CredInv, NEW r \in Requests, CommitReset(r)
    PROVE  CredInv'
<1> USE DEF CredInv
<1> DEFINE a == Who(r)
           l == request[r].link
<1>1. /\ At(r, "commitReset") /\ LinkIsThere(l) /\ writes[a] < MaxPasswords
      /\ writes' = [writes EXCEPT ![a] = @ + 1]
      /\ password' = [password EXCEPT ![a] = writes[a] + 1]
      /\ link' = [link EXCEPT ![l] = "gone"]
      /\ linkUses' = [linkUses EXCEPT ![l] = @ + 1]
      /\ UNCHANGED <<role, account, sessions, linkOf, history>>
  BY DEF CommitReset, SetPassword
<1>2. l \in Links /\ linkOf[l] = a /\ linkUses[l] = 0
  BY <1>1 DEF TypeOK, WellFormed, At, Who, LinksOK, LinkIsThere
<1>3. Commits(r)
  BY <1>1 DEF Commits, CommitReset, TypeOK, history
<1>4. /\ a \in Accounts /\ account[a] # "absent"
      /\ request' \in [Requests -> RequestState]
      /\ \A q \in Requests : Who(q)' = Who(q) /\ request'[q].token = request[q].token
      /\ \A q \in Requests : request'[q].link = request[q].link
      /\ \A q \in Requests : request'[q].at = IF q = r THEN "revoke" ELSE request[q].at
      /\ \A b : PasswordRequests(b)' \subseteq PasswordRequests(b)
      /\ RequestsOK' /\ OldSessionsEnd'
  BY <1>3, CommitFacts
<1> HIDE DEF a, l
<1> USE DEF sessions, history
<1>5. writes[a] + 1 \in 0..MaxPasswords
  BY <1>1, <1>4, BoundAssumption DEF TypeOK
<1>6. TypeOK'
  <2>1. \A q \in Requests : WellFormed(request[q])'
    BY <1>1, <1>4 DEF TypeOK, WellFormed, Who, At
  <2>2. linkUses' \in [Links -> Nat] BY <1>1, <1>2 DEF TypeOK
  <2>3. QED BY <1>1, <1>4, <1>5, <2>1, <2>2 DEF TypeOK
<1>7. AbsentOwnsNothing'
  BY <1>1, <1>4 DEF AbsentOwnsNothing, At, TypeOK
<1>8. LinksOK'
  <2>1. linkOf[l] # NoAccount BY <1>2, <1>4, NullAssumption
  <2>2. QED BY <1>1, <1>2, <2>1 DEF LinksOK, TypeOK
<1>9. NoWayBack'
  <2>1. a \in overtaken \/ account[a] # "deleted"
    BY <1>1, <1>2, <1>4 DEF NoWayBack, LinkIsThere
  <2>2. QED BY <1>1, <1>2, <1>4, <2>1 DEF NoWayBack, TypeOK
<1>10. QED BY <1>4, <1>6, <1>7, <1>8, <1>9

LEMMA CommitPasswordKeeps ==
    ASSUME CredInv, NEW r \in Requests, CommitPassword(r)
    PROVE  CredInv'
<1> USE DEF CredInv
<1> DEFINE a == Who(r)
<1>1. /\ At(r, "commitPassword") /\ writes[a] < MaxPasswords
      /\ writes' = [writes EXCEPT ![a] = @ + 1]
      /\ password' = [password EXCEPT ![a] = writes[a] + 1]
      /\ UNCHANGED <<role, account, sessions, links, history>>
  BY DEF CommitPassword, SetPassword
<1>2. Commits(r)
  BY <1>1 DEF Commits, CommitPassword, TypeOK, history
<1>3. /\ a \in Accounts /\ account[a] # "absent"
      /\ request' \in [Requests -> RequestState]
      /\ \A q \in Requests : Who(q)' = Who(q) /\ request'[q].token = request[q].token
      /\ \A q \in Requests : request'[q].link = request[q].link
      /\ \A q \in Requests : request'[q].at = IF q = r THEN "revoke" ELSE request[q].at
      /\ \A b : PasswordRequests(b)' \subseteq PasswordRequests(b)
      /\ RequestsOK' /\ OldSessionsEnd'
  BY <1>2, CommitFacts
<1>4. r \in PasswordRequests(a) BY <1>1 DEF PasswordRequests, At
<1> HIDE DEF a
<1> USE DEF sessions, links, history
<1>5. writes[a] + 1 \in 0..MaxPasswords
  BY <1>1, <1>3, BoundAssumption DEF TypeOK
<1>6. TypeOK'
  <2>1. \A q \in Requests : WellFormed(request[q])'
    BY <1>1, <1>3 DEF TypeOK, WellFormed, Who, At
  <2>2. QED BY <1>1, <1>3, <1>5, <2>1 DEF TypeOK
<1>7. AbsentOwnsNothing'
  BY <1>1, <1>3 DEF AbsentOwnsNothing, At, TypeOK
<1>8. LinksOK' BY <1>1 DEF LinksOK
<1>9. NoWayBack'
  <2>1. a \in overtaken \/ account[a] # "deleted"
    BY <1>3, <1>4 DEF NoWayBack
  <2>2. QED BY <1>1, <1>3, <2>1 DEF NoWayBack, TypeOK
<1>10. QED BY <1>3, <1>6, <1>7, <1>8, <1>9

\* The deletion leaves a password nobody knows and no link.
LEMMA CommitDeleteKeeps ==
    ASSUME CredInv, NEW r \in Requests, CommitDelete(r)
    PROVE  CredInv'
<1> USE DEF CredInv
<1> DEFINE a == Who(r)
<1>1. /\ At(r, "commitDelete")
      /\ account' = [account EXCEPT ![a] = "deleted"]
      /\ password' = [password EXCEPT ![a] = 0]
      /\ link' = [l \in Links |-> IF linkOf[l] = a THEN "gone" ELSE link[l]]
      /\ overtaken' = IF PasswordRequests(a) # {} THEN overtaken \cup {a} ELSE overtaken
      /\ UNCHANGED <<role, writes, sessions, slipped, linkOf, linkUses>>
  BY DEF CommitDelete, DeleteLinks
<1>2. Commits(r)
  BY <1>1 DEF Commits, CommitDelete, TypeOK
<1>3. /\ a \in Accounts /\ account[a] # "absent"
      /\ request' \in [Requests -> RequestState]
      /\ \A q \in Requests : Who(q)' = Who(q) /\ request'[q].token = request[q].token
      /\ \A q \in Requests : request'[q].link = request[q].link
      /\ \A q \in Requests : request'[q].at = IF q = r THEN "revoke" ELSE request[q].at
      /\ \A b : PasswordRequests(b)' \subseteq PasswordRequests(b)
      /\ RequestsOK' /\ OldSessionsEnd'
  BY <1>2, CommitFacts
<1> HIDE DEF a
<1> USE DEF sessions
<1>4. 0 \in 0..MaxPasswords BY BoundAssumption
<1>5. TypeOK'
  <2>1. \A q \in Requests : WellFormed(request[q])'
    BY <1>1, <1>3 DEF TypeOK, WellFormed, Who, At
  <2>2. overtaken' \subseteq Accounts BY <1>1, <1>3 DEF TypeOK
  <2>3. link' \in [Links -> {"absent", "valid", "expired", "gone"}] BY <1>1 DEF TypeOK
  <2>4. QED BY <1>1, <1>3, <1>4, <2>1, <2>2, <2>3 DEF TypeOK
<1>6. AbsentOwnsNothing'
  BY <1>1, <1>3 DEF AbsentOwnsNothing, At, TypeOK
<1>7. LinksOK'
  BY <1>1, <1>3, NullAssumption DEF LinksOK
<1>8. NoWayBack'
  <2> SUFFICES ASSUME NEW b \in Accounts \ overtaken', account'[b] = "deleted"
               PROVE  /\ password'[b] = 0
                      /\ \A l \in Links : linkOf[l] = b => link'[l] = "gone"
                      /\ PasswordRequests(b)' = {}
    BY <1>1 DEF NoWayBack
  <2>1. CASE b = a
    <3>1. PasswordRequests(a) = {} BY <1>1, <2>1
    <3>2. QED BY <1>1, <1>3, <2>1, <3>1 DEF TypeOK
  <2>2. CASE b # a
    <3>1. b \notin overtaken /\ account[b] = "deleted" /\ password'[b] = password[b]
      BY <1>1, <2>2 DEF TypeOK
    <3>2. QED BY <1>1, <1>3, <3>1 DEF NoWayBack
  <2>3. QED BY <2>1, <2>2
<1>9. QED BY <1>3, <1>5, <1>6, <1>7, <1>8

-----------------------------------------------------------------------------
(* The revocation, which runs or fails.                                    *)

LEMMA RevokeKeeps ==
    ASSUME CredInv, NEW r \in Requests, At(r, "revoke"),
           request' = [q \in Requests |->
                         IF q = r THEN Idle
                         ELSE IF Who(q) = Who(r) THEN [request[q] EXCEPT !.missed = TRUE]
                         ELSE request[q]],
           rows' \subseteq rows, expired' \subseteq rows',
           slipped \subseteq slipped', slipped' \subseteq Tokens,
           \A t \in rows' \ slipped' : subject[t] # Who(r),
           UNCHANGED <<users, subject, openedBy, links, overtaken>>
    PROVE  CredInv'
<1> USE DEF CredInv, users, links
<1>0. \A q \in Requests : request[q] \in RequestState /\ WellFormed(request[q]) BY DEF TypeOK
<1>1. \A q \in Requests :
        /\ request'[q] \in RequestState
        /\ request'[q] = Idle \/
             /\ q # r
             /\ request'[q].at = request[q].at /\ request'[q].who = request[q].who
             /\ request'[q].token = request[q].token /\ request'[q].link = request[q].link
             /\ request'[q].by = request[q].by
             /\ IF Who(q) = Who(r) THEN request'[q].missed ELSE request'[q].missed = request[q].missed
  BY <1>0, IdleIsOK DEF RequestState
<1>2. TypeOK'
  <2>1. \A q \in Requests : WellFormed(request[q])'
    BY <1>0, <1>1, IdleIsOK DEF WellFormed
  <2>2. request' \in [Requests -> RequestState] BY <1>1
  <2>3. QED BY <2>1, <2>2 DEF TypeOK
<1>3. \A a : a # Who(r) /\ Revoking(a) => Revoking(a)'
  <2> SUFFICES ASSUME NEW a, a # Who(r), NEW q \in Requests, At(q, "revoke"), Who(q) = a
               PROVE  request'[q].at = "revoke" /\ request'[q].who = a
    BY DEF Revoking, At, Who
  <2>1. request'[q] = request[q] OBVIOUS
  <2>2. QED BY <2>1 DEF At, Who
<1>4. \A a, by : a # Who(r) /\ MayStand(a, by) => MayStand(a, by)'
  BY <1>3 DEF MayStand
<1>5. RequestsOK'
  <2> SUFFICES ASSUME NEW q \in Requests PROVE RequestOK(request[q])'
    BY DEF RequestsOK
  <2>1. CASE request'[q] = Idle BY <2>1, IdleIsOK DEF RequestOK
  <2>2. CASE request'[q] # Idle
    <3>1. RequestOK(request[q]) BY DEF RequestsOK
    <3>2. CASE Who(q) = Who(r) BY <1>1, <2>2, <3>1, <3>2 DEF RequestOK
    <3>3. CASE Who(q) # Who(r) BY <1>1, <1>4, <2>2, <3>1, <3>3 DEF RequestOK, Who
    <3>4. QED BY <3>2, <3>3
  <2>3. QED BY <2>1, <2>2
<1>6. AbsentOwnsNothing'
  BY <1>1, IdleIsOK, NullAssumption DEF AbsentOwnsNothing, Who, At
<1>7. LinksOK' BY DEF LinksOK
<1>8. NoWayBack'
  BY <1>1, IdleIsOK DEF NoWayBack, PasswordRequests, Who
<1>9. OldSessionsEnd'
  <2> SUFFICES ASSUME NEW t \in rows' \ slipped' PROVE MayStand(subject[t], openedBy[t])'
    BY DEF OldSessionsEnd, MayStand, Revoking
  <2>1. t \in rows \ slipped /\ subject[t] # Who(r) OBVIOUS
  <2>2. MayStand(subject[t], openedBy[t]) BY <2>1 DEF OldSessionsEnd, MayStand, Revoking
  <2>3. QED BY <1>4, <2>1, <2>2
<1>10. QED BY <1>2, <1>5, <1>6, <1>7, <1>8, <1>9

LEMMA EndKeeps ==
    ASSUME CredInv, NEW r \in Requests, Revoke(r) \/ Fail(r)
    PROVE  CredInv'
<1>1. CASE Revoke(r)
  <2>1. /\ rows' \subseteq rows /\ expired' \subseteq rows' /\ slipped' \subseteq Tokens
        /\ \A t \in rows' \ slipped' : subject[t] # Who(r)
        /\ slipped' = slipped
    BY <1>1 DEF Revoke, RemoveRows, Revoked, RowsOf, CredInv, TypeOK, history
  <2>2. QED BY <1>1, <2>1, RevokeKeeps DEF Revoke, history
<1>2. CASE Fail(r) /\ At(r, "revoke")
  <2>1. /\ rows' = rows /\ expired' \subseteq rows' /\ slipped' \subseteq Tokens
        /\ slipped \subseteq slipped'
        /\ \A t \in rows' \ slipped' : subject[t] # Who(r)
    BY <1>2 DEF Fail, RowsOf, CredInv, TypeOK, sessions
  <2>2. QED BY <1>2, <2>1, RevokeKeeps DEF Fail, sessions
<1>3. CASE Fail(r) /\ ~At(r, "revoke")
  <2>1. /\ UNCHANGED <<users, subject, openedBy, links, history>>
        /\ rows' \subseteq rows /\ expired' \subseteq rows' /\ Answer(r)
    BY <1>3 DEF Fail, CredInv, TypeOK, sessions, history
  <2>2. QED BY <1>3, <2>1, IdleBecomes, BecomesMoved, MovesKeep
<1>4. QED BY <1>1, <1>2, <1>3

LEMMA NextCredInv == CredInv /\ [Next]_vars => CredInv'
<1> SUFFICES ASSUME CredInv, [Next]_vars PROVE CredInv'
  OBVIOUS
<1>1. ASSUME NEW r \in Requests, SessionSteps(r) PROVE CredInv'
  BY <1>1, CreateAccountKeeps, MovesOnKeep, StoreKeeps DEF SessionSteps
<1>2. ASSUME NEW r \in Requests, PasswordSteps(r) PROVE CredInv'
  BY <1>2, CreateLinkKeeps, CommitResetKeeps, MovesOnKeep, CommitPasswordKeeps, CommitDeleteKeeps,
     EndKeeps DEF PasswordSteps
<1>3. CASE UNCHANGED vars
  BY <1>3 DEF vars, users, sessions, links, history, CredInv, TypeOK, WellFormed, RequestsOK, RequestOK,
             MayStand, Revoking, AbsentOwnsNothing, LinksOK, NoWayBack, PasswordRequests,
             OldSessionsEnd, At, Who
<1>4. QED BY <1>1, <1>2, <1>3, ReceivesKeep, EndKeeps, TimeKeeps DEF Next

\* CredInv holds throughout: what sessions, links and requests under way rely on
\* is kept by every step.
THEOREM Invariance == Spec => []CredInv
BY InitCredInv, NextCredInv, PTL DEF Spec

-----------------------------------------------------------------------------
\* The state stays well formed.
THEOREM TypeCorrect == Spec => []TypeOK
<1>1. CredInv => TypeOK BY DEF CredInv
<1>2. QED BY <1>1, Invariance, PTL

\* A change of the password ends the sessions opened by an earlier one, but for
\* those the revocation could not reach.
THEOREM SessionsEnd == Spec => []OldSessionsEnd
<1>1. CredInv => OldSessionsEnd BY DEF CredInv
<1>2. QED BY <1>1, Invariance, PTL

\* A deleted account keeps a password nobody knows.
THEOREM StaysLocked == Spec => []DeletedStaysLocked
<1>1. CredInv => DeletedStaysLocked BY DEF CredInv, NoWayBack, DeletedStaysLocked
<1>2. QED BY <1>1, Invariance, PTL

\* A letter sets a password once.
THEOREM LinkOnce == Spec => []LinkWorksOnce
<1>1. CredInv => LinkWorksOnce BY DEF CredInv, LinksOK, LinkWorksOnce
<1>2. QED BY <1>1, Invariance, PTL

\* A refresh token that is gone stays gone: rows are added by Store alone, and
\* Store signs a new token.
THEOREM StaysDead == Spec => NoResurrection
<1> DEFINE Dead == \A t \in Tokens : subject[t] # NoAccount /\ t \notin rows => t \notin rows'
<1>1. [Next]_vars => [Dead]_vars
  <2> SUFFICES ASSUME Next PROVE Dead OBVIOUS
  <2>1. ASSUME NEW r \in Requests, NEW t \in Tokens, Store(r, t) PROVE Dead
    BY <2>1 DEF Store, FreshToken
  <2>2. ASSUME rows' \subseteq rows PROVE Dead BY <2>2
  <2>3. ASSUME NEW r \in Requests, Receives(r) PROVE rows' \subseteq rows
    BY <2>3 DEF Receives, ReceiveRegister, ReceiveLogin, ReceiveForgot, ReceiveSetPassword,
               ReceiveDelete, ReceiveLogout, ReceiveRefresh, ReceiveReset, Receive, sessions
  <2>4. ASSUME NEW r \in Requests, SessionSteps(r), \A t \in Tokens : ~Store(r, t)
        PROVE  rows' \subseteq rows
    BY <2>4 DEF SessionSteps, CreateAccount, AddressTaken, IsValid, ReadUser, Rotate, RemoveToken,
               RemoveRows, sessions
  <2>5. ASSUME NEW r \in Requests, PasswordSteps(r) \/ Fail(r) PROVE rows' \subseteq rows
    BY <2>5 DEF PasswordSteps, CreateLink, CommitReset, RollBackReset, CommitPassword, CommitDelete,
               Revoke, RemoveRows, Fail, sessions
  <2>6. ASSUME RemoveExpired \/ (\E t \in Tokens : ExpireToken(t)) \/ \E l \in Links : ExpireLink(l)
        PROVE  rows' \subseteq rows
    BY <2>6 DEF RemoveExpired, ExpireToken, ExpireLink, RemoveRows, sessions
  <2>7. QED BY <2>1, <2>2, <2>3, <2>4, <2>5, <2>6 DEF Next
<1>2. QED BY <1>1, PTL DEF Spec, NoResurrection

-----------------------------------------------------------------------------
(* What the comments promise, and what it takes.                           *)

\* While a revocation is to come, no session of the account is being opened.
RevokesAlone ==
    \A r, q \in Requests :
        At(r, "revoke") /\ Who(q) = Who(r) => request[q].at \notin {"readUser", "rotate", "store"}

\* Whoever has to revoke does.
Revokes == \A r \in Requests : At(r, "revoke") => At(r, "revoke")' \/ Revoke(r)

\* A request that a revocation passed by will store nothing.
WillNotStore(r) ==
    request[r].missed = TRUE =>
        /\ request[r].at \notin {"readUser", "rotate", "store"}
        /\ request[r].at = "isValid" => request[r].token \notin rows
        /\ request[r].who \in Accounts => account[request[r].who] # "absent"

NoneSlipped == slipped = {} /\ \A r \in Requests : WillNotStore(r)

\* Of the steps of one request that no revocation has passed by afterwards.
LEMMA OneWillNotStore ==
    ASSUME CredInv, NoneSlipped, NEW r \in Requests, NEW q,
           request' = [request EXCEPT ![r] = q], q.missed = FALSE,
           slipped' = slipped, rows' \subseteq rows, account' = account
    PROVE  NoneSlipped'
<1>1. \A p \in Requests : request'[p] = IF p = r THEN q ELSE request[p]
  BY DEF CredInv, TypeOK
<1>2. \A p \in Requests : WillNotStore(p)'
  BY <1>1 DEF NoneSlipped, WillNotStore
<1>3. QED BY <1>2 DEF NoneSlipped

LEMMA NextNoneSlipped ==
    ASSUME CredInv, RevokesAlone, NoneSlipped, [Next]_vars, [Revokes]_vars
    PROVE  NoneSlipped'
<1> USE DEF users, sessions, links, history
<1>0. /\ request \in [Requests -> RequestState]
      /\ \A r \in Requests : /\ request[r] \in RequestState
                             /\ request[r].missed \in BOOLEAN
                             /\ WellFormed(request[r])
                             /\ RequestOK(request[r]) /\ WillNotStore(r)
      /\ slipped = {}
  BY DEF CredInv, TypeOK, RequestsOK, NoneSlipped, RequestState
<1>1. ASSUME NEW r \in Requests, Answer(r), slipped' = slipped, rows' \subseteq rows, account' = account
      PROVE  NoneSlipped'
  <2>1. Idle.missed = FALSE BY DEF Idle
  <2>2. QED BY <1>1, <2>1, OneWillNotStore DEF Answer
<1>2. ASSUME NEW r \in Requests, Receives(r) PROVE NoneSlipped'
  <2>1. ASSUME NEW new, Receive(r, new), new.missed = FALSE PROVE NoneSlipped'
    BY <2>1, OneWillNotStore DEF Receive
  <2>2. ASSUME NEW a \in Accounts, ReceiveRegister(r, a) PROVE NoneSlipped'
    <3>1. [Idle EXCEPT !.at = "create", !.who = a].missed = FALSE BY DEF Idle
    <3>2. QED BY <2>1, <2>2, <3>1 DEF ReceiveRegister
  <2>3. ASSUME NEW a \in Accounts, ReceiveLogin(r, a) PROVE NoneSlipped'
    <3>1. [Idle EXCEPT !.at = "store", !.who = a, !.by = password[a]].missed = FALSE BY DEF Idle
    <3>2. QED BY <2>1, <2>3, <3>1 DEF ReceiveLogin
  <2>4. ASSUME NEW a \in Accounts, ReceiveForgot(r, a) PROVE NoneSlipped'
    <3>1. [Idle EXCEPT !.at = "createLink", !.who = a].missed = FALSE BY DEF Idle
    <3>2. QED BY <2>1, <2>4, <3>1 DEF ReceiveForgot
  <2>5. ASSUME NEW a \in Accounts, ReceiveSetPassword(r, a) PROVE NoneSlipped'
    <3>1. [Idle EXCEPT !.at = "commitPassword", !.who = a].missed = FALSE BY DEF Idle
    <3>2. QED BY <2>1, <2>5, <3>1 DEF ReceiveSetPassword
  <2>6. ASSUME NEW a \in Accounts, ReceiveDelete(r, a) PROVE NoneSlipped'
    <3>1. [Idle EXCEPT !.at = "commitDelete", !.who = a].missed = FALSE BY DEF Idle
    <3>2. QED BY <2>1, <2>6, <3>1 DEF ReceiveDelete
  <2>7. ASSUME NEW a \in Accounts, NEW t \in Tokens, ReceiveLogout(r, a, t) PROVE NoneSlipped'
    <3>1. [Idle EXCEPT !.at = "remove", !.who = a, !.token = t].missed = FALSE BY DEF Idle
    <3>2. QED BY <2>1, <2>7, <3>1 DEF ReceiveLogout
  <2>8. ASSUME NEW t \in Tokens, ReceiveRefresh(r, t) PROVE NoneSlipped'
    <3>1. [Idle EXCEPT !.at = "isValid", !.who = subject[t], !.token = t].missed = FALSE BY DEF Idle
    <3>2. QED BY <2>1, <2>8, <3>1 DEF ReceiveRefresh
  <2>9. ASSUME NEW l \in Links, ReceiveReset(r, l) PROVE NoneSlipped'
    <3>1. [Idle EXCEPT !.at = "commitReset", !.who = linkOf[l], !.link = l].missed = FALSE BY DEF Idle
    <3>2. QED BY <2>1, <2>9, <3>1 DEF ReceiveReset
  <2>10. QED BY <1>2, <2>2, <2>3, <2>4, <2>5, <2>6, <2>7, <2>8, <2>9 DEF Receives
<1>3. ASSUME NEW r \in Requests, IsValid(r), ~Answer(r) PROVE NoneSlipped'
  <2> DEFINE q == [request[r] EXCEPT !.at = "readUser"]
  <2>1. request' = [request EXCEPT ![r] = q] /\ UNCHANGED <<users, sessions, links, history>>
    BY <1>3 DEF IsValid, MoveTo
  <2>2. request[r].missed = FALSE BY <1>0, <1>3 DEF IsValid, At, WillNotStore
  <2>3. q.missed = FALSE BY <1>0, <2>2 DEF RequestState
  <2>4. QED BY <2>1, <2>3, OneWillNotStore
<1>4. ASSUME NEW r \in Requests, ReadUser(r), ~Answer(r) PROVE NoneSlipped'
  <2> DEFINE q == [request[r] EXCEPT !.at = "rotate"]
  <2>1. request' = [request EXCEPT ![r] = q] /\ UNCHANGED <<users, sessions, links, history>>
    BY <1>4 DEF ReadUser, MoveTo
  <2>2. request[r].missed = FALSE BY <1>0, <1>4 DEF ReadUser, At, WillNotStore
  <2>3. q.missed = FALSE BY <1>0, <2>2 DEF RequestState
  <2>4. QED BY <2>1, <2>3, OneWillNotStore
<1>5. ASSUME NEW r \in Requests, Rotate(r) PROVE NoneSlipped'
  <2> DEFINE q == [request[r] EXCEPT !.at = "store", !.by = openedBy[request[r].token],
                                     !.missed = request[r].missed \/ request[r].token \in slipped]
  <2>1. /\ request' = [request EXCEPT ![r] = q] /\ rows' \subseteq rows
        /\ UNCHANGED <<users, links, history>>
    BY <1>0, <1>5 DEF Rotate, RemoveRows
  <2>2. request[r].missed = FALSE BY <1>0, <1>5 DEF Rotate, At, WillNotStore
  <2>3. q.missed = FALSE BY <1>0, <2>2 DEF RequestState
  <2>4. QED BY <2>1, <2>3, OneWillNotStore
<1>6. ASSUME NEW r \in Requests, CreateAccount(r), ~Answer(r) PROVE NoneSlipped'
  <2>1. /\ request' = [request EXCEPT ![r].at = "store", ![r].by = 1]
        /\ account[Who(r)] = "absent" /\ At(r, "create")
        /\ account' = [account EXCEPT ![Who(r)] = "active"]
        /\ UNCHANGED <<sessions, links, history>>
    BY <1>6 DEF CreateAccount
  <2>2. request[r].missed = FALSE BY <1>0, <2>1 DEF At, Who, WillNotStore, WellFormed
  <2>3. /\ request'[r].missed = FALSE
        /\ \A p \in Requests \ {r} : request'[p] = request[p]
    BY <1>0, <2>1, <2>2 DEF RequestState
  <2>4. \A a \in Accounts : account[a] # "absent" => account'[a] # "absent"
    BY <2>1 DEF CredInv, TypeOK
  <2>5. \A p \in Requests : WillNotStore(p)'
    BY <1>0, <2>1, <2>3, <2>4 DEF WillNotStore
  <2>6. QED BY <1>0, <2>1, <2>5 DEF NoneSlipped
<1>7. ASSUME NEW r \in Requests, NEW t \in Tokens, Store(r, t) PROVE NoneSlipped'
  <2>1. /\ Answer(r) /\ rows' = rows \cup {t} /\ subject[t] = NoAccount /\ account' = account
        /\ slipped' = slipped
    BY <1>0, <1>7 DEF Store, FreshToken, At, WillNotStore
  <2>2. \A p \in Requests : request'[p] = IF p = r THEN Idle ELSE request[p]
    BY <1>0, <2>1 DEF Answer
  <2>3. ASSUME NEW p \in Requests, request[p].at = "isValid" PROVE request[p].token # t
    <3>1. subject[request[p].token] \in Accounts BY <1>0, <2>3 DEF WellFormed, RequestOK
    <3>2. QED BY <2>1, <3>1, NullAssumption
  <2>4. \A p \in Requests : WillNotStore(p)'
    BY <1>0, <2>1, <2>2, <2>3 DEF WillNotStore, Idle
  <2>5. QED BY <1>0, <2>1, <2>4 DEF NoneSlipped
<1>8. ASSUME NEW r \in Requests, NEW at, at \in {"revoke"}, MoveTo(r, at),
             request[r].at \in {"commitReset", "commitPassword", "commitDelete"},
             UNCHANGED <<rows, slipped>>,
             \A a \in Accounts : account[a] # "absent" => account'[a] # "absent"
      PROVE  NoneSlipped'
  <2>1. \A p \in Requests : IF p = r
                            THEN /\ request'[p].at = "revoke" /\ request'[p].who = request[p].who
                                 /\ request'[p].missed = request[p].missed
                            ELSE request'[p] = request[p]
    BY <1>0, <1>8 DEF MoveTo, RequestState
  <2>2. \A p \in Requests : WillNotStore(p)'
    BY <1>0, <1>8, <2>1 DEF WillNotStore
  <2>3. QED BY <1>0, <1>8, <2>2 DEF NoneSlipped
<1>9. ASSUME NEW r \in Requests, CommitReset(r) \/ CommitPassword(r) PROVE NoneSlipped'
  <2>1. CASE CommitReset(r) BY <1>8, <2>1 DEF CommitReset, At
  <2>2. CASE CommitPassword(r) BY <1>8, <2>2 DEF CommitPassword, At
  <2>3. QED BY <1>9, <2>1, <2>2
<1>10. ASSUME NEW r \in Requests, CommitDelete(r) PROVE NoneSlipped'
  <2>1. \A a \in Accounts : account[a] # "absent" => account'[a] # "absent"
    BY <1>10 DEF CommitDelete, CredInv, TypeOK
  <2>2. QED BY <1>8, <1>10, <2>1 DEF CommitDelete, At
<1>11. ASSUME NEW r \in Requests, Revoke(r) PROVE NoneSlipped'
  <2> DEFINE a == Who(r)
  <2>1. /\ At(r, "revoke") /\ rows' = rows \ RowsOf(a) /\ slipped' = slipped /\ account' = account
        /\ request' = [q \in Requests |->
                         IF q = r THEN Idle
                         ELSE IF Who(q) = a THEN [request[q] EXCEPT !.missed = TRUE]
                         ELSE request[q]]
    BY <1>11 DEF Revoke, RemoveRows, Revoked
  <2>2. a \in Accounts /\ account[a] # "absent"
    BY <1>0, <2>1 DEF At, Who, WellFormed, CredInv, AbsentOwnsNothing
  <2>3. ASSUME NEW p \in Requests PROVE WillNotStore(p)'
    <3>1. CASE p = r BY <2>1, <3>1 DEF WillNotStore, Idle
    <3>2. CASE p # r /\ Who(p) = a
      <4>1. request'[p] = [request[p] EXCEPT !.missed = TRUE] BY <2>1, <3>2
      <4>2. /\ request'[p].at = request[p].at /\ request'[p].token = request[p].token
            /\ request'[p].who = a
        BY <1>0, <3>2, <4>1 DEF RequestState, Who
      <4>3. request[p].at \notin {"readUser", "rotate", "store"}
        BY <2>1, <3>2 DEF RevokesAlone
      <4>4. request[p].at = "isValid" => request[p].token \notin rows'
        <5>1. request[p].at = "isValid" => subject[request[p].token] = a
          BY <1>0, <3>2 DEF RequestOK, Who
        <5>2. QED BY <2>1, <5>1 DEF RowsOf
      <4>5. QED BY <2>1, <2>2, <4>2, <4>3, <4>4 DEF WillNotStore
    <3>3. CASE p # r /\ Who(p) # a BY <1>0, <2>1, <3>3 DEF WillNotStore
    <3>4. QED BY <3>1, <3>2, <3>3
  <2>4. QED BY <1>0, <2>1, <2>3 DEF NoneSlipped
<1>12. ASSUME NEW r \in Requests, Fail(r), ~Revoke(r) PROVE NoneSlipped'
  <2>1. CASE At(r, "revoke")
    <3>1. request'[r] = Idle BY <1>0, <1>12, <2>1 DEF Fail
    <3>2. ~At(r, "revoke")' BY <3>1 DEF At, Idle
    <3>3. vars' # vars BY <2>1, <3>2 DEF vars, At
    <3>4. QED BY <1>12, <2>1, <3>2, <3>3 DEF Revokes
  <2>2. CASE ~At(r, "revoke") BY <1>1, <1>12, <2>2 DEF Fail
  <2>3. QED BY <2>1, <2>2
<1>13. ASSUME NEW r \in Requests, AddressTaken(r) \/ RemoveToken(r) \/ RollBackReset(r)
                                  \/ \E l \in Links : CreateLink(r, l)
       PROVE  NoneSlipped'
  BY <1>1, <1>13 DEF AddressTaken, RemoveToken, RollBackReset, CreateLink, RemoveRows
<1>14. ASSUME NEW r \in Requests, CreateAccount(r), Answer(r) PROVE NoneSlipped'
  <2>1. \A a \in Accounts : account[a] # "absent" => account'[a] # "absent"
    BY <1>14 DEF CreateAccount, CredInv, TypeOK
  <2>2. \A p \in Requests : request'[p] = IF p = r THEN Idle ELSE request[p]
    BY <1>0, <1>14 DEF Answer
  <2>3. \A p \in Requests : WillNotStore(p)'
    BY <1>0, <1>14, <2>1, <2>2 DEF CreateAccount, WillNotStore, Idle
  <2>4. QED BY <1>0, <1>14, <2>3 DEF CreateAccount, NoneSlipped
<1>15. CASE RemoveExpired \/ (\E t \in Tokens : ExpireToken(t)) \/ \E l \in Links : ExpireLink(l)
  <2>1. request' = request /\ rows' \subseteq rows /\ UNCHANGED <<slipped, account>>
    BY <1>15 DEF RemoveExpired, ExpireToken, ExpireLink, RemoveRows
  <2>2. QED BY <1>0, <2>1 DEF NoneSlipped, WillNotStore
<1>16. CASE UNCHANGED vars BY <1>0, <1>16 DEF vars, NoneSlipped, WillNotStore
<1>17. ASSUME NEW r \in Requests, SessionSteps(r) PROVE NoneSlipped'
  <2>1. CASE IsValid(r) /\ Answer(r) BY <1>1, <2>1 DEF IsValid
  <2>2. CASE ReadUser(r) /\ Answer(r) BY <1>1, <2>2 DEF ReadUser
  <2>3. QED BY <1>3, <1>4, <1>5, <1>6, <1>7, <1>13, <1>14, <1>17, <2>1, <2>2 DEF SessionSteps
<1>18. ASSUME NEW r \in Requests, PasswordSteps(r) PROVE NoneSlipped'
  BY <1>9, <1>10, <1>11, <1>13, <1>18 DEF PasswordSteps
<1>19. QED BY <1>2, <1>11, <1>12, <1>15, <1>16, <1>17, <1>18 DEF Next

\* "Old sessions must end together with the old password": they do, if the process
\* lives to revoke them and no session of the account is being opened meanwhile.
THEOREM SessionsEndWithPassword ==
    Spec /\ []RevokesAlone /\ [][Revokes]_vars => []OldSessionsEndWithPassword
<1>1. Init => NoneSlipped BY DEF Init, NoneSlipped, WillNotStore, Idle
<1>2. CredInv /\ RevokesAlone /\ NoneSlipped /\ [Next]_vars /\ [Revokes]_vars => NoneSlipped'
  BY NextNoneSlipped
<1>3. OldSessionsEnd /\ NoneSlipped => OldSessionsEndWithPassword
  BY DEF OldSessionsEnd, NoneSlipped, OldSessionsEndWithPassword
<1>4. QED BY <1>1, <1>2, <1>3, Invariance, SessionsEnd, PTL DEF Spec
=============================================================================
