------------------------ MODULE SubscriptionsProofs ------------------------
(* Subscriptions for any number of users, requests, handlers and workers,   *)
(* and any length of time.                                                  *)
EXTENDS Subscriptions, TLAPS

\* A handler past its reception names what it is about.
WellFormed(r) ==
    /\ r.at = "idle" <=> r = Idle
    /\ r.kind \in {"create", "demo", "delete"} => r.user \in Users
    /\ r.kind \in {"approve", "reject"} => r.row \in Rows
    /\ r.kind = "approve" => r.date \in Dates
    /\ r.at = "account" => r.kind \in {"approve", "delete"} /\ r.user \in Users
    /\ r.at = "tell" => r.kind \in {"approve", "reject"}

\* A locked row is still the PENDING row its holder has found, and is locked by
\* nobody else.
LocksHold ==
    /\ \A h \in Handlers : handler[h].at = "account" /\ handler[h].row # NoRow =>
          asked[handler[h].row] = [user |-> handler[h].user, status |-> "PENDING"]
    /\ \A g, h \in Handlers :
          handler[g].at = "account" /\ handler[h].at = "account"
          /\ handler[g].row = handler[h].row /\ handler[g].row # NoRow => g = h

\* The job compares with a moment that has been.
StampsArePast == \A w \in Workers : job[w].stamp <= now

SubInv ==
    /\ TypeOK
    /\ \A h \in Handlers : WellFormed(handler[h])
    /\ LocksHold
    /\ StampsArePast
    /\ InForce
    /\ ToldTheTruth
    /\ DeletedNotEntitled

LEMMA InitSubInv == Init => SubInv
<1> SUFFICES ASSUME Init PROVE SubInv
  OBVIOUS
<1> USE NullAssumption, TimeAssumption DEF Init, Idle, NoRequest, NoJob, Null, Dates
<1>1. TypeOK BY DEF TypeOK, HandlerState
<1>2. \A h \in Handlers : WellFormed(handler[h]) BY DEF WellFormed
<1>3. LocksHold /\ StampsArePast /\ InForce /\ ToldTheTruth /\ DeletedNotEntitled
  BY DEF LocksHold, StampsArePast, InForce, ToldTheTruth, DeletedNotEntitled
<1>4. QED BY <1>1, <1>2, <1>3 DEF SubInv

\* A handler that only moves, or ends, and touches no row.
StandsDown(h) ==
    /\ handler' = [handler EXCEPT ![h] = Idle]
    /\ UNCHANGED <<now, accounts, asked, lock, job, history>>

LEMMA StandsDownKeeps ==
    ASSUME SubInv, NEW h \in Handlers, StandsDown(h)
    PROVE  SubInv'
<1> USE DEF SubInv, StandsDown, accounts, history
<1>1. \A g \in Handlers : handler'[g] \in {handler[g], Idle} /\ (handler[g] = Idle => handler'[g] = Idle)
  BY DEF TypeOK
<1>2. TypeOK' BY NullAssumption DEF TypeOK, HandlerState, Idle, Null, Dates, PendingOf
<1>3. \A g \in Handlers : WellFormed(handler[g])'
  BY <1>1, NullAssumption DEF WellFormed, Idle
<1>4. LocksHold' BY <1>1 DEF LocksHold, Idle
<1>5. StampsArePast' /\ InForce' /\ DeletedNotEntitled'
  BY DEF StampsArePast, InForce, Entitled, DeletedNotEntitled, PendingOf
<1>6. ToldTheTruth' BY <1>1 DEF ToldTheTruth, Decision, Idle
<1>7. QED BY <1>2, <1>3, <1>4, <1>5, <1>6

LEMMA ReceivesKeep ==
    ASSUME SubInv, NEW h \in Handlers, Receives(h)
    PROVE  SubInv'
<1> USE DEF SubInv, accounts, history
<1>1. PICK r \in HandlerState :
        /\ r.at = "row" /\ WellFormed(r)
        /\ handler' = [handler EXCEPT ![h] = r]
        /\ UNCHANGED <<now, accounts, asked, lock, job, history>>
  <2>1. CASE \E u \in Users, kind \in {"create", "demo", "delete"} : ReceiveOwn(h, kind, u)
    <3> PICK u \in Users, kind \in {"create", "demo", "delete"} : ReceiveOwn(h, kind, u) BY <2>1
    <3> DEFINE r == [kind |-> kind, at |-> "row", user |-> u, row |-> NoRow, date |-> Null]
    <3>1. r \in HandlerState /\ WellFormed(r) BY DEF HandlerState, WellFormed, Idle, Null
    <3>2. handler' = [handler EXCEPT ![h] = r] BY DEF ReceiveOwn, Receive
    <3>3. QED BY <3>1, <3>2 DEF ReceiveOwn, Receive
  <2>2. CASE \E q \in Rows : ReceiveReject(h, q)
    <3> PICK q \in Rows : ReceiveReject(h, q) BY <2>2
    <3> DEFINE r == [kind |-> "reject", at |-> "row", user |-> NoUser, row |-> q, date |-> Null]
    <3>1. r \in HandlerState /\ WellFormed(r) BY DEF HandlerState, WellFormed, Idle, Null
    <3>2. handler' = [handler EXCEPT ![h] = r] BY DEF ReceiveReject, Receive
    <3>3. QED BY <3>1, <3>2 DEF ReceiveReject, Receive
  <2>3. CASE \E q \in Rows, d \in Dates : ReceiveApprove(h, q, d)
    <3> PICK q \in Rows, d \in Dates : ReceiveApprove(h, q, d) BY <2>3
    <3> DEFINE r == [kind |-> "approve", at |-> "row", user |-> NoUser, row |-> q, date |-> d]
    <3>1. r \in HandlerState /\ WellFormed(r) BY DEF HandlerState, WellFormed, Idle, Null
    <3>2. handler' = [handler EXCEPT ![h] = r] BY DEF ReceiveApprove, Receive
    <3>3. QED BY <3>1, <3>2 DEF ReceiveApprove, Receive
  <2>4. QED BY <2>1, <2>2, <2>3 DEF Receives
<1>2. \A g \in Handlers : handler'[g] = IF g = h THEN r ELSE handler[g]
  BY <1>1 DEF TypeOK
<1>3. TypeOK' BY <1>1 DEF TypeOK
<1>4. \A g \in Handlers : WellFormed(handler[g])' BY <1>1, <1>2 DEF WellFormed
<1>5. LocksHold' BY <1>1, <1>2 DEF LocksHold
<1>6. StampsArePast' /\ InForce' /\ DeletedNotEntitled'
  BY <1>1 DEF StampsArePast, InForce, Entitled, DeletedNotEntitled, PendingOf
<1>7. ToldTheTruth' BY <1>1, <1>2 DEF ToldTheTruth, Decision
<1>8. QED BY <1>3, <1>4, <1>5, <1>6, <1>7

-----------------------------------------------------------------------------
(* Steps of handlers.                                                      *)

LEMMA CreateKeeps ==
    ASSUME SubInv, NEW h \in Handlers, NEW q \in Rows, Create(h, q)
    PROVE  SubInv'
<1> USE DEF SubInv, accounts
<1> PICK u \in Users : u = handler[h].user BY DEF Create, At, WellFormed
<1>1. /\ handler' = [handler EXCEPT ![h] = Idle]
      /\ asked' = [asked EXCEPT ![q] = [user |-> u, status |-> "PENDING"]]
      /\ asked[q].status = "ABSENT" /\ PendingOf(u) = {}
      /\ overtaken' = IF u \in gone THEN overtaken \cup {u} ELSE overtaken
      /\ UNCHANGED <<now, active, until, gone, lock, job, granted>>
  BY DEF Create, Answer, NonePending, NoRequest
<1>2. \A g \in Handlers : handler'[g] = IF g = h THEN Idle ELSE handler[g]
  BY <1>1 DEF TypeOK
<1>3. \A p \in Rows : asked'[p] = IF p = q THEN [user |-> u, status |-> "PENDING"] ELSE asked[p]
  BY <1>1 DEF TypeOK
<1>4. TypeOK'
  <2>1. \A p \in Rows : asked[p].user = u /\ asked[p].status = "PENDING" => FALSE
    BY <1>1 DEF PendingOf
  <2>2. \A p, r \in Rows :
          asked'[p].status = "PENDING" /\ asked'[r].status = "PENDING"
          /\ asked'[p].user = asked'[r].user => p = r
    BY <1>3, <2>1 DEF TypeOK
  <2>3. handler' \in [Handlers -> HandlerState]
    BY <1>1 DEF TypeOK, HandlerState, Idle, Null
  <2>4. QED BY <1>1, <1>3, <2>2, <2>3, NullAssumption DEF TypeOK, Dates
<1>5. \A g \in Handlers : WellFormed(handler[g])'
  BY <1>2 DEF WellFormed, Idle
<1>6. LocksHold'
  BY <1>1, <1>2, <1>3 DEF LocksHold, Idle, TypeOK, HandlerState
<1>7. StampsArePast' /\ InForce'
  BY <1>1 DEF StampsArePast, InForce, Entitled
<1>8. DeletedNotEntitled'
  BY <1>1, <1>3 DEF DeletedNotEntitled, PendingOf
<1>9. ToldTheTruth'
  BY <1>1, <1>2, <1>3 DEF ToldTheTruth, Decision, Idle, WellFormed
<1>10. QED BY <1>4, <1>5, <1>6, <1>7, <1>8, <1>9

LEMMA DemoKeeps ==
    ASSUME SubInv, NEW h \in Handlers, ActivateDemo(h)
    PROVE  SubInv'
<1> USE DEF SubInv
<1> PICK u \in Users : u = handler[h].user BY DEF ActivateDemo, At, WellFormed
<1>1. /\ handler' = [handler EXCEPT ![h] = Idle]
      /\ active' = [active EXCEPT ![u] = TRUE]
      /\ overtaken' = IF u \in gone THEN overtaken \cup {u} ELSE overtaken
      /\ UNCHANGED <<now, until, gone, asked, lock, job, granted>>
  BY DEF ActivateDemo, Answer
<1>2. \A g \in Handlers : handler'[g] = IF g = h THEN Idle ELSE handler[g]
  BY <1>1 DEF TypeOK
<1>3. TypeOK'
  BY <1>1 DEF TypeOK, HandlerState, Idle, Null
<1>4. \A g \in Handlers : WellFormed(handler[g])'
  BY <1>2 DEF WellFormed, Idle
<1>5. LocksHold'
  BY <1>1, <1>2 DEF LocksHold, Idle
<1>6. StampsArePast' /\ InForce' /\ DeletedNotEntitled'
  BY <1>1 DEF StampsArePast, InForce, Entitled, DeletedNotEntitled, PendingOf, TypeOK
<1>7. ToldTheTruth'
  BY <1>1, <1>2 DEF ToldTheTruth, Decision, Idle
<1>8. QED BY <1>3, <1>4, <1>5, <1>6, <1>7

LEMMA ApproveRowKeeps ==
    ASSUME SubInv, NEW h \in Handlers, ApproveRow(h)
    PROVE  SubInv'
<1> USE DEF SubInv, accounts, history
<1> PICK q \in Rows : q = handler[h].row BY DEF ApproveRow, At, WellFormed
<1>1. /\ handler[h].kind = "approve" /\ ~Locked(q) /\ asked[q].status = "PENDING"
      /\ handler' = [handler EXCEPT ![h].at = "account", ![h].user = asked[q].user]
      /\ UNCHANGED <<now, active, until, gone, asked, lock, job, granted, overtaken>>
  BY DEF ApproveRow, At, StillPending
<1> PICK u \in Users : u = asked[q].user /\ asked[q] = [user |-> u, status |-> "PENDING"]
  BY <1>1 DEF TypeOK
<1>2. /\ handler' \in [Handlers -> HandlerState]
      /\ \A g \in Handlers \ {h} : handler'[g] = handler[g]
      /\ handler'[h].kind = "approve" /\ handler'[h].at = "account" /\ handler'[h].user = u
      /\ handler'[h].row = q /\ handler'[h].date = handler[h].date
  <2>1. handler \in [Handlers -> HandlerState] BY DEF TypeOK
  <2>2. QED BY <1>1, <2>1 DEF HandlerState
<1>3. TypeOK' BY <1>1, <1>2 DEF TypeOK
<1>4. \A g \in Handlers : WellFormed(handler[g])'
  <2>1. WellFormed(handler[h])'
    <3>1. handler[h].date \in Dates BY <1>1 DEF WellFormed
    <3>2. QED BY <1>2, <3>1 DEF WellFormed, Idle
  <2>2. \A g \in Handlers \ {h} : WellFormed(handler[g])'
    BY <1>2 DEF WellFormed
  <2>3. QED BY <2>1, <2>2
<1>5. LocksHold'
  <2>1. \A g \in Handlers : handler[g].at = "account" => handler[g].row # q
    BY <1>1 DEF Locked
  <2>2. \A g \in Handlers \ {h} : handler'[g].at = "account" => handler'[g].row # handler'[h].row
    BY <1>2, <2>1
  <2>3. \A g \in Handlers : handler'[g].at = "account" /\ handler'[g].row # NoRow =>
          asked'[handler'[g].row] = [user |-> handler'[g].user, status |-> "PENDING"]
    BY <1>1, <1>2 DEF LocksHold
  <2>4. QED BY <1>1, <1>2, <2>2, <2>3 DEF LocksHold
<1>6. StampsArePast' /\ InForce' /\ DeletedNotEntitled'
  BY <1>1 DEF StampsArePast, InForce, Entitled, DeletedNotEntitled, PendingOf
<1>7. ToldTheTruth'
  BY <1>1, <1>2 DEF ToldTheTruth, Decision
<1>8. QED BY <1>3, <1>4, <1>5, <1>6, <1>7

\* The approved row is the one the approver has locked, so nobody else's
\* decision, deletion or answer is about it.
LEMMA ApproveAccountKeeps ==
    ASSUME SubInv, NEW h \in Handlers, ApproveAccount(h)
    PROVE  SubInv'
<1> USE DEF SubInv
<1>1. /\ handler[h].kind = "approve" /\ handler[h].at = "account"
      /\ handler' = [handler EXCEPT ![h].at = "tell"]
      /\ active' = [active EXCEPT ![handler[h].user] = TRUE]
      /\ until' = [until EXCEPT ![handler[h].user] = handler[h].date]
      /\ granted' = [granted EXCEPT ![handler[h].user] = handler[h].date]
      /\ asked' = [asked EXCEPT ![handler[h].row].status = "APPROVED"]
      /\ UNCHANGED <<now, gone, lock, job, overtaken>>
  BY DEF ApproveAccount, At, Goes, Grant
<1> PICK q \in Rows : q = handler[h].row BY <1>1 DEF WellFormed
<1> PICK u \in Users : u = handler[h].user BY <1>1 DEF WellFormed
<1> PICK d \in Dates : d = handler[h].date BY <1>1 DEF WellFormed
<1>2. asked[q] = [user |-> u, status |-> "PENDING"]
  BY <1>1, NullAssumption DEF LocksHold
<1>3. \A p \in Rows :
        asked'[p] = IF p = q THEN [user |-> u, status |-> "APPROVED"] ELSE asked[p]
  BY <1>1, <1>2 DEF TypeOK
<1>4. /\ handler' \in [Handlers -> HandlerState]
      /\ \A g \in Handlers \ {h} : handler'[g] = handler[g]
      /\ handler'[h].kind = "approve" /\ handler'[h].at = "tell" /\ handler'[h].user = u
      /\ handler'[h].row = q /\ handler'[h].date = d
  <2>1. handler \in [Handlers -> HandlerState] BY DEF TypeOK
  <2>2. QED BY <1>1, <2>1 DEF HandlerState
<1>5. TypeOK'
  <2>1. handler' \in [Handlers -> HandlerState] BY <1>4
  <2>2. asked' \in [Rows -> [user : Users \cup {NoUser},
                             status : {"ABSENT", "PENDING", "APPROVED", "REJECTED"}]]
    BY <1>1 DEF TypeOK
  <2>3. \A p, s \in Rows :
          asked'[p].status = "PENDING" /\ asked'[s].status = "PENDING"
          /\ asked'[p].user = asked'[s].user => p = s
    BY <1>3 DEF TypeOK
  <2>4. \A p \in Rows : asked'[p].user = NoUser <=> asked'[p].status = "ABSENT"
    BY <1>3, NullAssumption DEF TypeOK
  <2>5. QED BY <1>1, <2>1, <2>2, <2>3, <2>4 DEF TypeOK
<1>6. \A g \in Handlers : WellFormed(handler[g])'
  BY <1>1, <1>4 DEF WellFormed, Idle
<1>7. \A g \in Handlers \ {h} :
        handler[g].at \in {"account", "tell"} /\ handler[g].row # NoRow => handler[g].row # q
  BY <1>1, <1>2, NullAssumption DEF LocksHold, ToldTheTruth, Decision, WellFormed
<1>8. LocksHold'
  BY <1>1, <1>3, <1>4, <1>7 DEF LocksHold, TypeOK, HandlerState
<1>9. StampsArePast' /\ InForce'
  BY <1>1 DEF StampsArePast, InForce, Entitled, TypeOK, Dates, Null
<1>10. u \in gone => u \in overtaken
  BY <1>2 DEF DeletedNotEntitled, PendingOf
<1>11. DeletedNotEntitled'
  BY <1>1, <1>3, <1>10 DEF DeletedNotEntitled, PendingOf, TypeOK
<1>12. ToldTheTruth'
  BY <1>3, <1>4, <1>7, NullAssumption DEF ToldTheTruth, Decision, WellFormed
<1>13. QED BY <1>5, <1>6, <1>8, <1>9, <1>11, <1>12

LEMMA RejectRowKeeps ==
    ASSUME SubInv, NEW h \in Handlers, RejectRow(h)
    PROVE  SubInv'
<1> USE DEF SubInv, accounts, history
<1>1. /\ handler[h].kind = "reject" /\ handler[h].at = "row"
      /\ ~Locked(handler[h].row) /\ asked[handler[h].row].status = "PENDING"
      /\ handler' = [handler EXCEPT ![h].at = "tell"]
      /\ asked' = [asked EXCEPT ![handler[h].row].status = "REJECTED"]
      /\ UNCHANGED <<now, active, until, gone, lock, job, granted, overtaken>>
  BY DEF RejectRow, At, Goes, StillPending
<1> PICK q \in Rows : q = handler[h].row BY <1>1 DEF WellFormed
<1>2. /\ asked' \in [Rows -> [user : Users \cup {NoUser},
                              status : {"ABSENT", "PENDING", "APPROVED", "REJECTED"}]]
      /\ \A p \in Rows \ {q} : asked'[p] = asked[p]
      /\ asked'[q].user = asked[q].user /\ asked'[q].status = "REJECTED"
  <2>1. asked \in [Rows -> [user : Users \cup {NoUser},
                            status : {"ABSENT", "PENDING", "APPROVED", "REJECTED"}]]
    BY DEF TypeOK
  <2>2. QED BY <1>1, <2>1
<1>3. /\ handler' \in [Handlers -> HandlerState]
      /\ \A g \in Handlers \ {h} : handler'[g] = handler[g]
      /\ handler'[h].kind = "reject" /\ handler'[h].at = "tell" /\ handler'[h].row = q
  <2>1. handler \in [Handlers -> HandlerState] BY DEF TypeOK
  <2>2. QED BY <1>1, <2>1 DEF HandlerState
<1>4. TypeOK'
  <2>1. \A p \in Rows : asked'[p].user = NoUser <=> asked'[p].status = "ABSENT"
    BY <1>1, <1>2 DEF TypeOK
  <2>2. \A p, r \in Rows :
          asked'[p].status = "PENDING" /\ asked'[r].status = "PENDING"
          /\ asked'[p].user = asked'[r].user => p = r
    BY <1>2 DEF TypeOK
  <2>3. QED BY <1>1, <1>2, <1>3, <2>1, <2>2 DEF TypeOK
<1>5. \A g \in Handlers : WellFormed(handler[g])'
  <2>1. WellFormed(handler[h])' BY <1>3 DEF WellFormed, Idle
  <2>2. \A g \in Handlers \ {h} : WellFormed(handler[g])' BY <1>3 DEF WellFormed
  <2>3. QED BY <2>1, <2>2
<1>6. LocksHold'
  <2>1. \A g \in Handlers : handler[g].at = "account" => handler[g].row # q
    BY <1>1 DEF Locked
  <2>2. \A g \in Handlers : handler'[g].at = "account" => g # h /\ handler'[g] = handler[g]
    BY <1>3
  <2>3. \A g \in Handlers : handler[g].row \in Rows \cup {NoRow} BY DEF TypeOK, HandlerState
  <2>4. QED BY <1>2, <2>1, <2>2, <2>3 DEF LocksHold
<1>7. StampsArePast' /\ InForce'
  BY <1>1 DEF StampsArePast, InForce, Entitled
<1>8. DeletedNotEntitled'
  BY <1>1, <1>2 DEF DeletedNotEntitled, PendingOf
<1>9. ToldTheTruth'
  <2>1. \A g \in Handlers \ {h} : handler[g].at = "tell" => handler[g].row \in Rows \ {q}
    BY <1>1 DEF ToldTheTruth, Decision, WellFormed
  <2>2. QED BY <1>2, <1>3, <2>1 DEF ToldTheTruth, Decision
<1>10. QED BY <1>4, <1>5, <1>6, <1>7, <1>8, <1>9

LEMMA DeleteRowKeeps ==
    ASSUME SubInv, NEW h \in Handlers, DeleteRow(h)
    PROVE  SubInv'
<1> USE DEF SubInv, accounts, history
<1> PICK u \in Users : u = handler[h].user BY DEF DeleteRow, At, WellFormed
<1> DEFINE q == IF PendingOf(u) = {} THEN NoRow ELSE CHOOSE p \in PendingOf(u) : TRUE
<1>1. /\ handler[h].kind = "delete" /\ \A p \in PendingOf(u) : ~Locked(p)
      /\ handler' = [handler EXCEPT ![h].at = "account", ![h].row = q]
      /\ UNCHANGED <<now, active, until, gone, asked, lock, job, granted, overtaken>>
  BY DEF DeleteRow, At
<1>2. q = NoRow \/ q \in PendingOf(u) OBVIOUS
<1> HIDE DEF q
<1>3. q \in Rows \cup {NoRow} BY <1>2 DEF PendingOf
<1>4. /\ handler' \in [Handlers -> HandlerState]
      /\ \A g \in Handlers \ {h} : handler'[g] = handler[g]
      /\ handler'[h].kind = "delete" /\ handler'[h].at = "account"
      /\ handler'[h].user = u /\ handler'[h].row = q
  <2>1. handler \in [Handlers -> HandlerState] BY DEF TypeOK
  <2>2. QED BY <1>1, <1>3, <2>1 DEF HandlerState
<1>5. TypeOK' BY <1>1, <1>4 DEF TypeOK
<1>6. \A g \in Handlers : WellFormed(handler[g])'
  <2>1. WellFormed(handler[h])' BY <1>4 DEF WellFormed, Idle
  <2>2. \A g \in Handlers \ {h} : WellFormed(handler[g])' BY <1>4 DEF WellFormed
  <2>3. QED BY <2>1, <2>2
<1>7. LocksHold'
  <2>1. \A g \in Handlers \ {h} :
          handler'[g].at = "account" /\ handler'[g].row # NoRow => handler'[g].row # q
    BY <1>1, <1>2, <1>4 DEF Locked
  <2>2. q # NoRow => asked[q] = [user |-> u, status |-> "PENDING"]
    BY <1>2 DEF PendingOf, TypeOK
  <2>3. \A g \in Handlers : handler'[g].at = "account" /\ handler'[g].row # NoRow =>
          asked'[handler'[g].row] = [user |-> handler'[g].user, status |-> "PENDING"]
    BY <1>1, <1>4, <2>2 DEF LocksHold
  <2>4. QED BY <1>1, <1>4, <2>1, <2>3 DEF LocksHold
<1>8. StampsArePast' /\ InForce' /\ DeletedNotEntitled'
  BY <1>1 DEF StampsArePast, InForce, Entitled, DeletedNotEntitled, PendingOf
<1>9. ToldTheTruth' BY <1>1, <1>4 DEF ToldTheTruth, Decision
<1>10. QED BY <1>5, <1>6, <1>7, <1>8, <1>9

\* A request the deletion has not seen, raised by a handler that passed the guard
\* before it, is what the history remembers.
LEMMA DeleteAccountKeeps ==
    ASSUME SubInv, NEW h \in Handlers, DeleteAccount(h)
    PROVE  SubInv'
<1> USE DEF SubInv
<1> PICK u \in Users : u = handler[h].user BY DEF DeleteAccount, At, WellFormed
<1> PICK q \in Rows \cup {NoRow} : q = handler[h].row BY DEF TypeOK, HandlerState
<1>1. /\ handler[h].at = "account" /\ handler' = [handler EXCEPT ![h] = Idle]
      /\ asked' = IF q = NoRow THEN asked ELSE [asked EXCEPT ![q] = NoRequest]
      /\ active' = [active EXCEPT ![u] = FALSE]
      /\ until' = [until EXCEPT ![u] = Null]
      /\ gone' = gone \cup {u}
      /\ granted' = [granted EXCEPT ![u] = Null]
      /\ overtaken' = IF PendingOf(u) \subseteq {q} THEN overtaken ELSE overtaken \cup {u}
      /\ UNCHANGED <<now, lock, job>>
  BY DEF DeleteAccount, At, Without, Answer
<1>2. \A g \in Handlers : handler'[g] = IF g = h THEN Idle ELSE handler[g]
  BY <1>1 DEF TypeOK
<1>3. q # NoRow => asked[q] = [user |-> u, status |-> "PENDING"]
  BY <1>1 DEF LocksHold
<1>4. \A p \in Rows : asked'[p] = IF p = q THEN NoRequest ELSE asked[p]
  BY <1>1, NullAssumption DEF TypeOK
<1>5. TypeOK'
  <2>1. handler' \in [Handlers -> HandlerState]
    BY <1>1 DEF TypeOK, HandlerState, Idle, Null
  <2>2. asked' \in [Rows -> [user : Users \cup {NoUser},
                             status : {"ABSENT", "PENDING", "APPROVED", "REJECTED"}]]
    BY <1>1 DEF TypeOK, NoRequest
  <2>3. \A p \in Rows : asked'[p].user = NoUser <=> asked'[p].status = "ABSENT"
    BY <1>4 DEF TypeOK, NoRequest
  <2>4. \A p, r \in Rows :
          asked'[p].status = "PENDING" /\ asked'[r].status = "PENDING"
          /\ asked'[p].user = asked'[r].user => p = r
    BY <1>4 DEF TypeOK, NoRequest
  <2>5. QED BY <1>1, <2>1, <2>2, <2>3, <2>4 DEF TypeOK
<1>6. \A g \in Handlers : WellFormed(handler[g])' BY <1>2 DEF WellFormed, Idle
<1>7. \A g \in Handlers \ {h} :
        handler[g].at \in {"account", "tell"} /\ handler[g].row # NoRow => handler[g].row # q
  BY <1>1, <1>3, NullAssumption DEF LocksHold, ToldTheTruth, Decision, WellFormed
<1>8. LocksHold'
  <2>1. \A g \in Handlers : handler'[g].at = "account" => g # h /\ handler'[g] = handler[g]
    BY <1>2 DEF Idle
  <2>2. \A g \in Handlers : handler[g].row \in Rows \cup {NoRow} BY DEF TypeOK, HandlerState
  <2>3. QED BY <1>4, <1>7, <2>1, <2>2 DEF LocksHold
<1>9. StampsArePast' /\ InForce'
  BY <1>1, TimeAssumption DEF StampsArePast, InForce, Entitled, TypeOK, Dates, Null
<1>10. DeletedNotEntitled'
  <2>1. \A v \in Users : PendingOf(v)' \subseteq PendingOf(v) \ {q}
    BY <1>4 DEF PendingOf, NoRequest
  <2>2. u \notin overtaken' => PendingOf(u)' = {} BY <1>1, <2>1
  <2>3. \A v \in Users : v # u => active'[v] = active[v] BY <1>1 DEF TypeOK
  <2>4. active'[u] = FALSE BY <1>1 DEF TypeOK
  <2>5. overtaken \subseteq overtaken' BY <1>1
  <2>6. QED BY <1>1, <2>1, <2>2, <2>3, <2>4, <2>5 DEF DeletedNotEntitled, TypeOK
<1>11. ToldTheTruth'
  <2>1. \A g \in Handlers : handler'[g].at = "tell" =>
          g # h /\ handler'[g] = handler[g] /\ handler[g].row \in Rows \ {q}
    BY <1>2, <1>7, NullAssumption DEF Idle, WellFormed
  <2>2. QED BY <1>4, <2>1 DEF ToldTheTruth, Decision
<1>12. QED BY <1>5, <1>6, <1>8, <1>9, <1>10, <1>11

-----------------------------------------------------------------------------
(* Steps of the job and of time.                                           *)

LEMMA JobKeeps ==
    ASSUME SubInv,
           \/ \E w \in Workers : JobStep(w) \/ JobFails(w)
           \/ Tick \/ LockUnheard \/ LockExpires
    PROVE  SubInv'
<1> USE TimeAssumption DEF SubInv, accounts, history
<1>1. UNCHANGED <<until, gone, asked, handler, granted, overtaken>>
  BY DEF JobStep, StartJob, ExpireSubscriptions, ReleaseLock, JobFails, Tick, LockUnheard, LockExpires
<1>2. now \in Nat /\ now' \in Dates /\ now <= now'
  <2>1. now \in 1..MaxNow BY DEF TypeOK, Dates
  <2>2. CASE Tick BY <2>1, <2>2 DEF Tick, Dates
  <2>3. CASE ~Tick
    <3>1. now' = now
      BY <2>3 DEF JobStep, StartJob, ExpireSubscriptions, ReleaseLock, JobFails, LockUnheard,
                  LockExpires
    <3>2. QED BY <2>1, <3>1 DEF Dates
  <2>4. QED BY <2>2, <2>3
<1>3. /\ job' \in [Workers -> [at : {"idle", "update", "release"}, stamp : Dates \cup {Null}]]
      /\ StampsArePast'
  <2>0. job \in [Workers -> [at : {"idle", "update", "release"}, stamp : Dates \cup {Null}]]
    BY DEF TypeOK
  <2>1. ASSUME NEW w \in Workers, StartJob(w) PROVE <1>3!:
    BY <2>0, <2>1, <1>2 DEF StartJob, StampsArePast, Null, Dates
  <2>2. ASSUME NEW w \in Workers, ExpireSubscriptions(w) PROVE <1>3!:
    BY <2>0, <2>2, <1>2 DEF ExpireSubscriptions, StampsArePast
  <2>3. ASSUME NEW w \in Workers, ReleaseLock(w) \/ JobFails(w) PROVE <1>3!:
    BY <2>0, <2>3, <1>2 DEF ReleaseLock, JobFails, StampsArePast, NoJob, Null
  <2>4. CASE Tick \/ LockUnheard \/ LockExpires
    <3>1. job' = job BY <2>4 DEF Tick, LockUnheard, LockExpires
    <3>2. \A w \in Workers : job[w].stamp \in Nat BY <2>0 DEF Dates, Null
    <3>3. QED BY <2>0, <3>1, <3>2, <1>2 DEF StampsArePast, Dates
  <2>5. QED BY <2>1, <2>2, <2>3, <2>4 DEF JobStep
<1>4. lock' \in Workers \cup {Nobody, LostReply}
  BY DEF JobStep, StartJob, ExpireSubscriptions, ReleaseLock, JobFails, Tick, LockUnheard,
         LockExpires, TypeOK
<1>5. /\ active' \in [Users -> BOOLEAN]
      /\ \A u \in Users : active'[u] => active[u]
      /\ \A u \in Users : active[u] /\ ~active'[u] => until[u] # Null /\ until[u] < now
  <2>1. CASE \E w \in Workers : ExpireSubscriptions(w)
    <3> PICK w \in Workers : ExpireSubscriptions(w) BY <2>1
    <3>1. active' = [u \in Users |-> IF Lapsed(u, job[w].stamp) THEN FALSE ELSE active[u]]
      BY DEF ExpireSubscriptions
    <3>2. job[w].stamp <= now /\ job[w].stamp \in Nat BY DEF StampsArePast, TypeOK, Dates, Null
    <3>3. \A u \in Users : until[u] \in Nat BY DEF TypeOK, Dates, Null
    <3>4. active \in [Users -> BOOLEAN] BY DEF TypeOK
    <3>5. \A u \in Users : Lapsed(u, job[w].stamp) => until[u] # Null /\ until[u] < now
      BY <1>2, <3>2, <3>3 DEF Lapsed
    <3>6. active' \in [Users -> BOOLEAN] BY <3>1, <3>4
    <3>7. \A u \in Users : active'[u] # active[u] => Lapsed(u, job[w].stamp) /\ active[u]
      BY <3>1, <3>4 DEF Lapsed
    <3>8. QED BY <3>1, <3>4, <3>5, <3>6, <3>7
  <2>2. CASE ~ \E w \in Workers : ExpireSubscriptions(w)
    BY <2>2 DEF JobStep, StartJob, ReleaseLock, JobFails, Tick, LockUnheard, LockExpires, TypeOK
  <2>3. QED BY <2>1, <2>2
<1>6. TypeOK' BY <1>1, <1>2, <1>3, <1>4, <1>5 DEF TypeOK
<1>7. (\A h \in Handlers : WellFormed(handler[h])') /\ LocksHold' /\ ToldTheTruth'
  BY <1>1 DEF WellFormed, LocksHold, ToldTheTruth, Decision
<1>8. InForce'
  <2> SUFFICES ASSUME NEW u \in Users, granted[u] > now'
               PROVE  active'[u] /\ until[u] = granted[u]
    BY <1>1, <1>2 DEF InForce, Entitled, TypeOK, Dates, Null
  <2>1. granted[u] \in Nat /\ granted[u] > now BY <1>2 DEF TypeOK, Dates, Null
  <2>2. active[u] /\ until[u] = granted[u] BY <2>1 DEF InForce, Entitled
  <2>3. QED BY <1>2, <1>5, <2>1, <2>2
<1>9. DeletedNotEntitled' BY <1>1, <1>5 DEF DeletedNotEntitled, PendingOf, TypeOK
<1>10. QED BY <1>3, <1>6, <1>7, <1>8, <1>9

LEMMA NextSubInv == SubInv /\ [Next]_vars => SubInv'
<1> SUFFICES ASSUME SubInv, [Next]_vars PROVE SubInv'
  OBVIOUS
<1>1. ASSUME NEW h \in Handlers, Receives(h) PROVE SubInv'
  BY <1>1, ReceivesKeep
<1>2. ASSUME NEW h \in Handlers, Proceeds(h) PROVE SubInv'
  <2>1. CASE Tell(h)
    BY <2>1, StandsDownKeeps DEF Tell, Answer, StandsDown
  <2>2. QED
    BY <1>2, <2>1, CreateKeeps, DemoKeeps, ApproveRowKeeps, ApproveAccountKeeps, RejectRowKeeps,
       DeleteRowKeeps, DeleteAccountKeeps DEF Proceeds
<1>3. ASSUME NEW h \in Handlers, Fail(h) PROVE SubInv'
  BY <1>3, StandsDownKeeps DEF Fail, Answer, StandsDown
<1>4. CASE UNCHANGED vars
  BY <1>4 DEF vars, accounts, history, SubInv, TypeOK, WellFormed, LocksHold, StampsArePast,
              InForce, Entitled, ToldTheTruth, Decision, DeletedNotEntitled, PendingOf
<1>5. QED BY <1>1, <1>2, <1>3, <1>4, JobKeeps DEF Next

LEMMA Invariance == Spec => []SubInv
<1>1. QED BY InitSubInv, NextSubInv, PTL DEF Spec

\* Rows and handlers keep their types, and a user never has two PENDING requests:
\* a row that is being decided on keeps its place in the partial unique index.
THEOREM TypeCorrect == Spec => []TypeOK
<1>1. SubInv => TypeOK BY DEF SubInv
<1>2. QED BY <1>1, Invariance, PTL

\* What was approved is in force until its date: the job compares with a moment
\* that is past, and nothing else but the deletion takes a subscription away.
THEOREM ApprovedIsInForce == Spec => []InForce
<1>1. SubInv => InForce BY DEF SubInv
<1>2. QED BY <1>1, Invariance, PTL

\* Whoever is told a decision is told the one in the row.
THEOREM DecisionIsTold == Spec => []ToldTheTruth
<1>1. SubInv => ToldTheTruth BY DEF SubInv
<1>2. QED BY <1>1, Invariance, PTL

\* A deletion that has seen all requests of its user ends their subscription for
\* good: an approval needs a PENDING row, and there is none.
THEOREM DeletedStayWithout == Spec => []DeletedNotEntitled
<1>1. SubInv => DeletedNotEntitled BY DEF SubInv
<1>2. QED BY <1>1, Invariance, PTL

\* Only PENDING rows are written, even by a decision that read long ago: a
\* decision is final.
THEOREM DecisionsAreFinal == Spec => DecidedOnce
<1>1. ASSUME SubInv, Next, NEW q \in Rows, asked[q].status \in {"APPROVED", "REJECTED"}
      PROVE  asked'[q] = asked[q]
  <2>1. ASSUME NEW h \in Handlers, Receives(h) \/ Fail(h) PROVE asked' = asked
    BY <2>1 DEF Receives, ReceiveOwn, ReceiveReject, ReceiveApprove, Receive, Fail
  <2>2. ASSUME NEW h \in Handlers, NEW p \in Rows, Create(h, p) PROVE asked'[q] = asked[q]
    BY <1>1, <2>2 DEF Create, NoRequest, SubInv, TypeOK
  <2>3. ASSUME NEW h \in Handlers, ActivateDemo(h) \/ ApproveRow(h) \/ Tell(h) \/ DeleteRow(h)
        PROVE  asked' = asked
    BY <2>3 DEF ActivateDemo, ApproveRow, Tell, DeleteRow
  <2>4. ASSUME NEW h \in Handlers, ApproveAccount(h) \/ DeleteAccount(h)
        PROVE  asked'[q] = asked[q]
    <3>1. handler[h].row \in Rows \cup {NoRow} /\ handler[h].at = "account"
      BY <1>1, <2>4 DEF ApproveAccount, DeleteAccount, At, SubInv, TypeOK, HandlerState
    <3>2. ASSUME handler[h].row = q PROVE FALSE
      <4>1. q # NoRow BY NullAssumption
      <4>2. asked[q] = [user |-> handler[h].user, status |-> "PENDING"]
        BY <1>1, <3>1, <3>2, <4>1 DEF SubInv, LocksHold
      <4>3. QED BY <1>1, <4>2
    <3>3. QED BY <1>1, <2>4, <3>1, <3>2 DEF ApproveAccount, DeleteAccount, Without, SubInv, TypeOK
  <2>5. ASSUME NEW h \in Handlers, RejectRow(h) PROVE asked'[q] = asked[q]
    <3>1. asked[handler[h].row].status = "PENDING" /\ handler[h].row # q
      BY <1>1, <2>5 DEF RejectRow, StillPending
    <3>2. asked' = [asked EXCEPT ![handler[h].row].status = "REJECTED"]
      BY <2>5 DEF RejectRow
    <3>3. QED BY <1>1, <3>1, <3>2 DEF SubInv, TypeOK
  <2>6. CASE \/ \E w \in Workers : JobStep(w) \/ JobFails(w)
             \/ Tick \/ LockUnheard \/ LockExpires
    BY <2>6 DEF JobStep, StartJob, ExpireSubscriptions, ReleaseLock, JobFails, Tick, LockUnheard,
                LockExpires
  <2>7. QED BY <1>1, <2>1, <2>2, <2>3, <2>4, <2>5, <2>6 DEF Next, Proceeds
<1>2. SubInv /\ [Next]_vars =>
        [\A q \in Rows : asked[q].status \in {"APPROVED", "REJECTED"} => asked'[q] = asked[q]]_vars
  BY <1>1
<1>3. QED BY <1>2, Invariance, PTL DEF Spec, DecidedOnce
=============================================================================
