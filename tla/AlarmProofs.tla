---------------------------- MODULE AlarmProofs ----------------------------
(***************************************************************************)
(* An alarm is raised once, and its news reaches the operators: SosTrigger *)
(* for any number of users, sessions and simultaneous calls, Notices for   *)
(* any number of operators and handlers.                                   *)
(***************************************************************************)
EXTENDS Notices, SosTrigger, TLAPS

-----------------------------------------------------------------------------
(* SosTrigger.                                                             *)

\* OneOpenSession rests on the decision being made under the lock, and on what
\* was found still being so when the row is created.
SosInv ==
    /\ SosTypeOK
    /\ LockProtectsDecision
    /\ DecisionStillHolds
    /\ OneOpenSession

LEMMA InitSosInv == SosInit => SosInv
BY SosNullAssumption
   DEF SosInit, SosInv, SosTypeOK, CallState, Quiet, LockProtectsDecision, DecisionStillHolds,
       OneOpenSession, OpenSessions, Deciding

LEMMA NextSosTypeOK == SosTypeOK /\ [SosNext]_sosVars => SosTypeOK'
<1> SUFFICES ASSUME SosTypeOK, [SosNext]_sosVars PROVE SosTypeOK'
  OBVIOUS
<1> USE SosNullAssumption DEF SosTypeOK, CallState, Quiet, Answer, MoveTo
<1>1. ASSUME NEW c \in Calls, NEW u \in Users, ReceiveStart(c, u) \/ ReceiveDelete(c, u)
      PROVE  SosTypeOK'
  BY <1>1 DEF ReceiveStart, ReceiveDelete, ReceiveCall
<1>2. ASSUME NEW c \in Calls, AcquireLock(c) \/ LockIsTaken(c) \/ AcquireFails(c) \/ AnswerInFlight(c)
      PROVE  SosTypeOK'
  BY <1>2 DEF AcquireLock, LockIsTaken, AcquireFails, AnswerInFlight
<1>3. ASSUME NEW c \in Calls, FindOpenSession(c) \/ FindNoSession(c) \/ CheckEntitlement(c)
      PROVE  SosTypeOK'
  BY <1>3 DEF FindOpenSession, FindNoSession, CheckEntitlement
<1>4. ASSUME NEW c \in Calls, NEW s \in Sessions, CreateSession(c, s) PROVE SosTypeOK'
  BY <1>4 DEF CreateSession
<1>5. ASSUME NEW c \in Calls, ReleaseLock(c) \/ Fail(c) PROVE SosTypeOK'
  BY <1>5 DEF ReleaseLock, Fail
<1>6. ASSUME NEW c \in Calls, Deletes(c) PROVE SosTypeOK'
  BY <1>6 DEF Deletes, DeleteRefused, DeleteAllowed, DeleteCommit
<1>7. ASSUME NEW s \in Sessions, CloseSession(s) PROVE SosTypeOK'
  BY <1>7 DEF CloseSession
<1>8. ASSUME NEW u \in Users, ExpireLock(u) PROVE SosTypeOK'
  BY <1>8 DEF ExpireLock
<1>9. CASE UNCHANGED sosVars BY <1>9 DEF sosVars
<1>10. QED BY <1>1, <1>2, <1>3, <1>4, <1>5, <1>6, <1>7, <1>8, <1>9 DEF SosNext, Starts

\* The key changes hands only when it is free, and leaves its holder only by
\* expiry, which the history remembers.
LEMMA NextLock == SosInv /\ [SosNext]_sosVars => LockProtectsDecision'
<1> SUFFICES ASSUME SosInv, [SosNext]_sosVars PROVE LockProtectsDecision'
  OBVIOUS
<1> USE SosNullAssumption DEF SosInv, SosTypeOK, CallState, Quiet, Answer, MoveTo, Deciding,
        LockProtectsDecision
<1>1. ASSUME NEW c \in Calls, NEW u \in Users, ReceiveStart(c, u) \/ ReceiveDelete(c, u)
      PROVE  LockProtectsDecision'
  BY <1>1 DEF ReceiveStart, ReceiveDelete, ReceiveCall
<1>2. ASSUME NEW c \in Calls, AcquireLock(c) PROVE LockProtectsDecision'
  BY <1>2 DEF AcquireLock, KeyIsFree
<1>3. ASSUME NEW c \in Calls, AcquireFails(c) PROVE LockProtectsDecision'
  BY <1>3 DEF AcquireFails, KeyIsFree
<1>4. ASSUME NEW c \in Calls, LockIsTaken(c) \/ AnswerInFlight(c) \/ FindOpenSession(c)
                              \/ FindNoSession(c) \/ CheckEntitlement(c)
      PROVE  LockProtectsDecision'
  BY <1>4 DEF LockIsTaken, AnswerInFlight, FindOpenSession, FindNoSession, CheckEntitlement
<1>5. ASSUME NEW c \in Calls, NEW s \in Sessions, CreateSession(c, s)
      PROVE  LockProtectsDecision'
  BY <1>5 DEF CreateSession
<1>6. ASSUME NEW c \in Calls, ReleaseLock(c) PROVE LockProtectsDecision'
  BY <1>6 DEF ReleaseLock, StillOurs
<1>7. ASSUME NEW c \in Calls, Fail(c) \/ Deletes(c) PROVE LockProtectsDecision'
  BY <1>7 DEF Fail, Deletes, DeleteRefused, DeleteAllowed, DeleteCommit
<1>8. ASSUME NEW s \in Sessions, CloseSession(s) PROVE LockProtectsDecision'
  BY <1>8 DEF CloseSession
<1>9. ASSUME NEW u \in Users, ExpireLock(u) PROVE LockProtectsDecision'
  BY <1>9 DEF ExpireLock
<1>10. CASE UNCHANGED sosVars BY <1>10 DEF sosVars
<1>11. QED
  BY <1>1, <1>2, <1>3, <1>4, <1>5, <1>6, <1>7, <1>8, <1>9, <1>10 DEF SosNext, Starts

\* Nobody gets past the search unless it found nothing.
GoesOn(c) ==
    call'[c].at \in {"entitlement", "create"} =>
        /\ call'[c].user \in Users
        /\ call'[c].user = call[c].user
        /\ \/ call[c].at \in {"entitlement", "create"}
           \/ OpenSessions(call[c].user) = {}

LEMMA GoesOnStep ==
    ASSUME SosTypeOK, [SosNext]_sosVars, SosTypeOK', NEW c \in Calls
    PROVE  GoesOn(c)
<1> USE DEF SosTypeOK, CallState, Quiet, Answer, MoveTo, GoesOn
<1>1. ASSUME NEW d \in Calls, NEW u \in Users, ReceiveStart(d, u) \/ ReceiveDelete(d, u)
      PROVE  GoesOn(c)
  BY <1>1 DEF ReceiveStart, ReceiveDelete, ReceiveCall
<1>2. ASSUME NEW d \in Calls, AcquireLock(d) \/ LockIsTaken(d) \/ AcquireFails(d) \/ AnswerInFlight(d)
      PROVE  GoesOn(c)
  BY <1>2 DEF AcquireLock, LockIsTaken, AcquireFails, AnswerInFlight
<1>3. ASSUME NEW d \in Calls, FindOpenSession(d) \/ FindNoSession(d) \/ CheckEntitlement(d)
      PROVE  GoesOn(c)
  <2>1. c # d => call'[c] = call[c]
    BY <1>3 DEF FindOpenSession, FindNoSession, CheckEntitlement
  <2>2. call'[d].user = call[d].user
    BY <1>3 DEF FindOpenSession, FindNoSession, CheckEntitlement
  <2>3. FindOpenSession(d) => call'[d].at = "release"
    BY DEF FindOpenSession
  <2>4. QED BY <1>3, <2>1, <2>2, <2>3 DEF FindNoSession, CheckEntitlement
<1>4. ASSUME NEW d \in Calls, NEW s \in Sessions, CreateSession(d, s) PROVE GoesOn(c)
  BY <1>4 DEF CreateSession
<1>5. ASSUME NEW d \in Calls, ReleaseLock(d) \/ Fail(d) PROVE GoesOn(c)
  BY <1>5 DEF ReleaseLock, Fail
<1>6. ASSUME NEW d \in Calls, Deletes(d) PROVE GoesOn(c)
  BY <1>6 DEF Deletes, DeleteRefused, DeleteAllowed, DeleteCommit
<1>7. ASSUME NEW s \in Sessions, CloseSession(s) PROVE GoesOn(c)
  BY <1>7 DEF CloseSession
<1>8. ASSUME NEW u \in Users, ExpireLock(u) PROVE GoesOn(c)
  BY <1>8 DEF ExpireLock
<1>9. CASE UNCHANGED sosVars BY <1>9 DEF sosVars
<1>10. QED BY <1>1, <1>2, <1>3, <1>4, <1>5, <1>6, <1>7, <1>8, <1>9 DEF SosNext, Starts

\* A step that opens no session and moves nobody past the search.
LEMMA SessionsAsBefore ==
    ASSUME SosInv,
           \A u \in Users : OpenSessions(u)' \subseteq OpenSessions(u),
           unprotected \subseteq unprotected',
           \A c \in Calls : GoesOn(c)
    PROVE  DecisionStillHolds' /\ OneOpenSession'
<1>1. DecisionStillHolds'
  <2>1. SUFFICES ASSUME NEW c \in Calls, call'[c].at \in {"entitlement", "create"},
                        call'[c].user \notin unprotected'
                 PROVE  OpenSessions(call[c].user)' = {}
    BY DEF DecisionStillHolds
  <2> PICK u \in Users : u = call'[c].user /\ u = call[c].user
    BY <2>1 DEF GoesOn
  <2>2. OpenSessions(u) = {} BY <2>1 DEF GoesOn, SosInv, DecisionStillHolds
  <2>3. OpenSessions(u)' = {} BY <2>2
  <2>4. QED BY <2>3
<1>2. OneOpenSession' BY DEF SosInv, OneOpenSession
<1>3. QED BY <1>1, <1>2

\* The only step that opens a session is taken by the one start that decides.
LEMMA CreateKeeps ==
    ASSUME SosInv, NEW c \in Calls, NEW s \in Sessions, CreateSession(c, s)
    PROVE  DecisionStillHolds' /\ OneOpenSession'
<1> PICK u \in Users : u = call[c].user
  BY DEF SosInv, SosTypeOK, CreateSession
<1>1. /\ \A w \in Users \ {u} : OpenSessions(w)' = OpenSessions(w)
      /\ \A t \in OpenSessions(u)' : t = s \/ t \in OpenSessions(u)
      /\ unprotected' = unprotected
  BY DEF CreateSession, OpenSessions, SosInv, SosTypeOK
<1>2. u \notin unprotected => OpenSessions(u) = {}
  BY DEF SosInv, DecisionStillHolds, CreateSession
<1>3. OneOpenSession' BY <1>1, <1>2 DEF OneOpenSession, SosInv
<1>4. ASSUME NEW d \in Calls, call'[d].at \in {"entitlement", "create"},
             call'[d].user \notin unprotected
      PROVE  OpenSessions(call[d].user)' = {}
  <2>1. d # c /\ call'[d] = call[d]
    BY <1>4 DEF CreateSession, MoveTo, SosInv, SosTypeOK, CallState
  <2>2. call[d].user \in Users \ {u}
    BY <1>4, <2>1 DEF SosInv, SosTypeOK, LockProtectsDecision, Deciding, CreateSession
  <2>3. OpenSessions(call[d].user) = {}
    BY <1>4, <2>1 DEF SosInv, DecisionStillHolds
  <2>4. QED BY <1>1, <2>1, <2>2, <2>3
<1>5. DecisionStillHolds' BY <1>1, <1>4 DEF DecisionStillHolds
<1>6. QED BY <1>3, <1>5

LEMMA NextSosInv == SosInv /\ [SosNext]_sosVars => SosInv'
<1> SUFFICES ASSUME SosInv, [SosNext]_sosVars PROVE SosInv'
  OBVIOUS
<1>1. SosTypeOK' BY NextSosTypeOK DEF SosInv
<1>2. LockProtectsDecision' BY NextLock
<1>3. CASE \E c \in Calls, s \in Sessions : CreateSession(c, s)
  BY <1>1, <1>2, <1>3, CreateKeeps DEF SosInv
<1>4. CASE ~ \E c \in Calls, s \in Sessions : CreateSession(c, s)
  <2>1. \A u \in Users : OpenSessions(u)' \subseteq OpenSessions(u)
    BY <1>4 DEF SosNext, sosVars, Starts, Deletes, ReceiveStart, ReceiveDelete, ReceiveCall,
        AcquireLock, LockIsTaken, AcquireFails, AnswerInFlight, FindOpenSession,
        FindNoSession, CheckEntitlement, ReleaseLock, ExpireLock, Fail, CloseSession,
        DeleteRefused, DeleteAllowed, DeleteCommit, OpenSessions, SosInv, SosTypeOK
  <2>2. unprotected \subseteq unprotected'
    BY <1>4 DEF SosNext, sosVars, Starts, Deletes, ReceiveStart, ReceiveDelete, ReceiveCall,
        AcquireLock, LockIsTaken, AcquireFails, AnswerInFlight, FindOpenSession,
        FindNoSession, CheckEntitlement, ReleaseLock, ExpireLock, Fail, CloseSession,
        DeleteRefused, DeleteAllowed, DeleteCommit
  <2>3. \A c \in Calls : GoesOn(c)
    BY <1>1, GoesOnStep DEF SosInv
  <2>4. QED BY <1>1, <1>2, <2>1, <2>2, <2>3, SessionsAsBefore DEF SosInv, GoesOn
<1>5. QED BY <1>3, <1>4

LEMMA SosInvariance == SosSpec => []SosInv
<1>1. QED BY InitSosInv, NextSosInv, PTL DEF SosSpec

\* A user has at most one open session, as long as every start of theirs held
\* the lock while it decided.
THEOREM OneOpenSessionEach == SosSpec => []OneOpenSession
<1>1. SosInv => OneOpenSession BY DEF SosInv
<1>2. QED BY <1>1, SosInvariance, PTL

\* The key of a start that is deciding is its own: comparing the token before
\* the release keeps a late finisher from freeing somebody else's lock.
THEOREM LockIsOwn == SosSpec => []LockProtectsDecision
<1>1. SosInv => LockProtectsDecision BY DEF SosInv
<1>2. QED BY <1>1, SosInvariance, PTL

\* Rows have an owner and keys a holder, whatever fails, expires or is deleted.
THEOREM SosTypeCorrect == SosSpec => []SosTypeOK
<1>1. SosInv => SosTypeOK BY DEF SosInv
<1>2. QED BY <1>1, SosInvariance, PTL

\* Nobody opens a session between a protected start's search and its insert.
THEOREM DecisionHolds == SosSpec => []DecisionStillHolds
<1>1. SosInv => DecisionStillHolds BY DEF SosInv
<1>2. QED BY <1>1, SosInvariance, PTL

-----------------------------------------------------------------------------
(* What the comments promise, when handlers do not overlap.                *)

\* No deletion of an account commits beside a start of the same user.
NoStartDuringDeletion ==
    \A c, d \in Calls :
        call[c].at = "deleteCommit" /\ call[d].at \in {"acquire"} \cup Deciding
        => call[c].user # call[d].user

\* A deletion about to commit has found no open session, and none is opened or
\* about to be opened for a deleted account.
DeletionInv ==
    /\ SosTypeOK
    /\ NoOpenSosOfDeleted
    /\ \A c \in Calls : call[c].at = "deleteCommit" => OpenSessions(call[c].user) = {}
    /\ \A c \in Calls : call[c].at \in {"acquire"} \cup Deciding => account[call[c].user] = "active"

LEMMA NextDeletionInv ==
    ASSUME DeletionInv, NoStartDuringDeletion, [SosNext]_sosVars
    PROVE  DeletionInv'
<1> USE SosNullAssumption DEF DeletionInv, SosTypeOK, CallState, Quiet, Answer, MoveTo, Deciding,
        OpenSessions, NoOpenSosOfDeleted
<1>1. SosTypeOK' BY NextSosTypeOK
<1>2. ASSUME NEW c \in Calls, NEW u \in Users, ReceiveStart(c, u) \/ ReceiveDelete(c, u)
      PROVE  DeletionInv'
  <2>1. CASE ReceiveStart(c, u) BY <1>1, <2>1 DEF ReceiveStart, ReceiveCall
  <2>2. CASE ReceiveDelete(c, u) BY <1>1, <2>2 DEF ReceiveDelete, ReceiveCall
  <2>3. QED BY <1>2, <2>1, <2>2
<1>3. ASSUME NEW c \in Calls, AcquireLock(c) \/ LockIsTaken(c) \/ AcquireFails(c) \/ AnswerInFlight(c)
                              \/ FindOpenSession(c) \/ FindNoSession(c) \/ CheckEntitlement(c)
      PROVE  DeletionInv'
  BY <1>1, <1>3 DEF AcquireLock, LockIsTaken, AcquireFails, AnswerInFlight, FindOpenSession,
                    FindNoSession, CheckEntitlement
<1>4. ASSUME NEW c \in Calls, NEW s \in Sessions, CreateSession(c, s) PROVE DeletionInv'
  BY <1>1, <1>4 DEF CreateSession, NoStartDuringDeletion
<1>5. ASSUME NEW c \in Calls, ReleaseLock(c) \/ Fail(c) PROVE DeletionInv'
  BY <1>1, <1>5 DEF ReleaseLock, Fail
<1>6. ASSUME NEW c \in Calls, DeleteRefused(c) \/ DeleteAllowed(c) PROVE DeletionInv'
  <2>1. CASE DeleteRefused(c) BY <1>1, <2>1 DEF DeleteRefused
  <2>2. CASE DeleteAllowed(c) BY <1>1, <2>2 DEF DeleteAllowed
  <2>3. QED BY <1>6, <2>1, <2>2
<1>7. ASSUME NEW c \in Calls, DeleteCommit(c) PROVE DeletionInv'
  BY <1>1, <1>7 DEF DeleteCommit, NoStartDuringDeletion
<1>8. ASSUME NEW s \in Sessions, CloseSession(s) PROVE DeletionInv'
  BY <1>1, <1>8 DEF CloseSession
<1>9. ASSUME NEW u \in Users, ExpireLock(u) PROVE DeletionInv'
  BY <1>1, <1>9 DEF ExpireLock
<1>10. CASE UNCHANGED sosVars BY <1>1, <1>10 DEF sosVars
<1>11. QED
  BY <1>2, <1>3, <1>4, <1>5, <1>6, <1>7, <1>8, <1>9, <1>10 DEF SosNext, Starts, Deletes

\* The check of deleteAccount is enough, as long as none of the user's own starts
\* is under way when it commits: no deleted account has an open session.
THEOREM DeletedHasNoSos == SosSpec /\ []NoStartDuringDeletion => []NoOpenSosOfDeleted
<1>1. SosInit => DeletionInv
  BY SosNullAssumption DEF SosInit, DeletionInv, SosTypeOK, CallState, Quiet, OpenSessions,
     NoOpenSosOfDeleted, Deciding
<1>2. DeletionInv /\ NoStartDuringDeletion /\ [SosNext]_sosVars => DeletionInv' BY NextDeletionInv
<1>3. DeletionInv => NoOpenSosOfDeleted BY DEF DeletionInv
<1>4. QED BY <1>1, <1>2, <1>3, PTL DEF SosSpec

-----------------------------------------------------------------------------
(* Notices.                                                                *)

\* A bootstrap has joined no rooms yet or not read yet: it will read the truth.
Reading(o) == \E p \in Bootstrapping(o) : request[p].at \in {"join", "readMine"}

\* What a request at each point is about; a bootstrap has a socket.
ShapeOf(r) ==
    /\ r.at \in {"write", "tell"} => r.kind \in Kinds
    /\ r.at \in {"askBusy", "offer"} => r.kind \in Returning \cup {"raise"}
    /\ r.at \in {"join", "readMine", "readPool", "snapshot"} <=> r.kind = "bootstrap"
    /\ r.kind = "bootstrap" => r.op \in online /\ (r.at # "join" => r.op \in listening)
                              /\ r.busy \subseteq {r.op}
    /\ r.at \in {"join", "readMine"} => ~r.free

WellFormed ==
    /\ \A p \in Requests : ShapeOf(request[p])
    /\ \A p, q \in Requests :
          /\ request[p].kind = "bootstrap" /\ request[q].kind = "bootstrap"
          /\ request[p].op = request[q].op
          => p = q

\* Who is connected hears the offers, is about to, or is marked.
Joined == \A o \in online \ listening :
    o \in unbriefed \/ \E p \in Bootstrapping(o) : request[p].at = "join"

\* Nobody has a call that has not been raised.
AbsentUnassigned == status = "ABSENT" => assignee = NoOperator

\* Of those in S, the one that all the others came before.
Latest(S) == {p \in S : S \ {p} \subseteq earlier[p]}

Connecting(p, o) == request[p].at \in {"readPool", "snapshot"} /\ request[p].op = o

\* Who will tell o whether the call is theirs, or should.
PersonalNews(o) ==
    {p \in Requests : \/ request[p].at = "tell" /\ o \in request[p].to \cup {request[p].lost}
                      \/ Connecting(p, o)}

PersonalTrue(r, o) ==
    \/ o \in r.overtaken
    \/ r.at = "tell" /\ o \notin r.to
    \/ r.holder = o <=> Holder = o

\* Who will tell o whether the call is to be had.
PublicNews(o) ==
    {p \in Requests : \/ request[p].at = "tell" /\ request[p].kind \in Removing \cup Returning
                      \/ request[p].at \in {"askBusy", "offer"}
                      \/ Connecting(p, o)}

PublicTrue(r, o) ==
    \/ o \in r.overtaken
    \/ r.at = "readPool"
    \/ r.at = "snapshot" /\ (r.free => IsFree) /\ (IsFree => r.free \/ o \in r.busy)
    \/ r.kind \in Removing /\ ~IsFree
    \/ r.kind \in Returning \cup {"raise"} /\ IsFree

\* The latest news on its way is true or late; when none is, so is the app.
OwnNewsComes(o) == \A p \in Latest(PersonalNews(o)) : PersonalTrue(request[p], o)
OwnNewsCame(o)  == PersonalNews(o) # {} \/ o \in misled \/ (o \in mine <=> Holder = o)

OfferComes(o) == \A p \in Latest(PublicNews(o)) : PublicTrue(request[p], o)
OfferCame(o) ==
    \/ PublicNews(o) # {}
    \/ o \in muddled
    \/ (o \in offered => IsFree) /\ (IsFree => o \in offered \cup withheld \cup unbriefed)

Informed(o) == OwnNewsComes(o) /\ OwnNewsCame(o) /\ OfferComes(o) /\ OfferCame(o)

\* The same without the bootstraps, for everybody, connected or not: what a
\* bootstrap that fails falls back on.
Tells(o) == {p \in Requests : request[p].at = "tell" /\ o \in request[p].to \cup {request[p].lost}}
PoolNews ==
    {p \in Requests : \/ request[p].at = "tell" /\ request[p].kind \in Removing \cup Returning
                      \/ request[p].at \in {"askBusy", "offer"}}

TellsTrue(o)    == \A p \in Latest(Tells(o)) : PersonalTrue(request[p], o)
PoolTrue(o)     == \A p \in Latest(PoolNews) : PublicTrue(request[p], o)
NoFalseOffer(o) == PoolNews # {} \/ o \in muddled \/ (o \in offered => IsFree)
NewsTrue(o)     == TellsTrue(o) /\ PoolTrue(o) /\ NoFalseOffer(o)

NewsInv ==
    /\ TypeOK
    /\ WellFormed
    /\ Joined
    /\ AbsentUnassigned
    /\ \A o \in Operators : NewsTrue(o)
    /\ \A o \in online : Reading(o) \/ Informed(o)

-----------------------------------------------------------------------------
(* The order of the handlers.                                              *)

Ordered ==
    /\ earlier \in [Requests -> SUBSET Unsent]
    /\ \A p \in Requests \ Unsent : earlier[p] = {}
    /\ \A p, q \in Unsent : p \in earlier[q] <=> p # q /\ q \notin earlier[p]

LEMMA CommitOrdered ==
    ASSUME Ordered, NEW p \in Requests \ Unsent, Unsent' = Unsent \cup {p}, Commits(p)
    PROVE  Ordered'
<1>1. Unsent \subseteq Requests /\ Unsent' \subseteq Requests BY DEF Unsent
<1>2. earlier' \in [Requests -> SUBSET Unsent'] BY <1>1 DEF Ordered, Commits
<1>3. \A q \in Requests \ Unsent' : earlier'[q] = {} BY <1>1 DEF Ordered, Commits
<1>4. ASSUME NEW q \in Unsent', NEW r \in Unsent' PROVE q \in earlier'[r] <=> q # r /\ r \notin earlier'[q]
  <2>1. CASE q = p /\ r = p BY <2>1, <1>1 DEF Ordered, Commits
  <2>2. CASE q = p /\ r # p BY <2>2, <1>1 DEF Ordered, Commits
  <2>3. CASE q # p /\ r = p BY <2>3, <1>1 DEF Ordered, Commits
  <2>4. CASE q # p /\ r # p BY <2>4, <1>1 DEF Ordered, Commits
  <2>5. QED BY <2>1, <2>2, <2>3, <2>4
<1>5. QED BY <1>2, <1>3, <1>4 DEF Ordered

LEMMA EndOrdered ==
    ASSUME Ordered, NEW P \in SUBSET Requests, Unsent' = Unsent \ P, Ends(P)
    PROVE  Ordered'
<1>1. Unsent \subseteq Requests /\ Unsent' \subseteq Requests BY DEF Unsent
<1>2. QED BY <1>1 DEF Ordered, Ends

\* A commit comes last; the others keep their places.
LEMMA CommitLatest ==
    ASSUME Ordered, NEW p \in Requests \ Unsent, Commits(p),
           NEW S \in SUBSET Unsent, NEW T \in SUBSET (S \cup {p}),
           NEW q \in T, T \ {q} \subseteq earlier'[q]
    PROVE  /\ p \in T => q = p
           /\ T = S => q \in Latest(S)
<1>1. Unsent \subseteq Requests BY DEF Unsent
<1>3. q # p => q \in Requests /\ earlier'[q] = earlier[q] /\ earlier[q] \subseteq Unsent
  BY <1>1 DEF Ordered, Commits
<1>4. QED BY <1>1, <1>3 DEF Latest

\* When p ends, who is latest now was so before, or was earlier than p.
LEMMA EndLatest ==
    ASSUME Ordered, NEW p \in Unsent, \A x \in Requests : earlier'[x] \subseteq earlier[x],
           NEW S \in SUBSET Unsent, NEW q \in S \ {p}, (S \ {p}) \ {q} \subseteq earlier'[q]
    PROVE  q \in Latest(S) \/ (p \in S /\ q \in earlier[p])
<1>1. Unsent \subseteq Requests BY DEF Unsent
<1>2. earlier'[q] \subseteq earlier[q] BY <1>1
<1>3. p \in earlier[q] \/ q \in earlier[p] BY DEF Ordered
<1>4. QED BY <1>2, <1>3 DEF Latest

LEMMA TypeOrdered == TypeOK => Ordered
BY DEF TypeOK, Ordered

LEMMA NewsUnsent ==
    ASSUME NEW o
    PROVE  PersonalNews(o) \subseteq Unsent /\ PublicNews(o) \subseteq Unsent
BY DEF PersonalNews, PublicNews, Unsent, Connecting

-----------------------------------------------------------------------------
(* What a step does to the news of one operator.                           *)

\* Nobody starts or ends, and what is on its way is as true as before.
LEMMA OwnNewsStays ==
    ASSUME NEW o,
           \A q \in Requests : earlier'[q] \subseteq earlier[q],
           PersonalNews(o)' = PersonalNews(o),
           \A q \in PersonalNews(o) : PersonalTrue(request[q], o) => PersonalTrue(request[q], o)',
           o \in mine' <=> o \in mine, o \in misled' <=> o \in misled,
           Holder' = o <=> Holder = o,
           OwnNewsComes(o), OwnNewsCame(o)
    PROVE  OwnNewsComes(o)' /\ OwnNewsCame(o)'
<1>1. ASSUME NEW q \in Latest(PersonalNews(o))' PROVE PersonalTrue(request[q], o)'
  <2>1. q \in Latest(PersonalNews(o)) BY <1>1 DEF Latest, PersonalNews
  <2>2. q \in PersonalNews(o) BY <2>1 DEF Latest
  <2>3. QED BY <2>1, <2>2 DEF OwnNewsComes
<1>2. QED BY <1>1 DEF OwnNewsComes, OwnNewsCame

LEMMA OfferStays ==
    ASSUME NEW o,
           \A q \in Requests : earlier'[q] \subseteq earlier[q],
           PublicNews(o)' = PublicNews(o),
           \A q \in PublicNews(o) : PublicTrue(request[q], o) => PublicTrue(request[q], o)',
           o \in offered' <=> o \in offered, o \in withheld' <=> o \in withheld,
           o \in muddled' <=> o \in muddled, o \in unbriefed' <=> o \in unbriefed,
           IsFree' <=> IsFree,
           OfferComes(o), OfferCame(o)
    PROVE  OfferComes(o)' /\ OfferCame(o)'
<1>1. ASSUME NEW q \in Latest(PublicNews(o))' PROVE PublicTrue(request[q], o)'
  <2>1. q \in Latest(PublicNews(o)) BY <1>1 DEF Latest, PublicNews
  <2>2. q \in PublicNews(o) BY <2>1 DEF Latest
  <2>3. QED BY <2>1, <2>2 DEF OfferComes
<1>2. QED BY <1>1 DEF OfferComes, OfferCame

\* p commits, with true news for o or with none.
LEMMA OwnNewsAdded ==
    ASSUME Ordered, NEW p \in Requests \ Unsent, Commits(p), NEW o,
           \A q \in Requests \ {p} : request'[q] = request[q],
           UNCHANGED <<mine, misled>>,
           \/ p \in PersonalNews(o)' /\ PersonalTrue(request[p], o)'
           \/ /\ p \notin PersonalNews(o)' /\ (Holder' = o <=> Holder = o)
              /\ OwnNewsComes(o) /\ OwnNewsCame(o)
    PROVE  OwnNewsComes(o)' /\ OwnNewsCame(o)'
<1>1. /\ PersonalNews(o) \in SUBSET Unsent
      /\ PersonalNews(o)' \subseteq PersonalNews(o) \cup {p}
      /\ PersonalNews(o) \subseteq PersonalNews(o)'
  <2>1. PersonalNews(o) \in SUBSET Unsent BY NewsUnsent
  <2>2. QED BY <2>1 DEF PersonalNews, Connecting
<1>2. ASSUME NEW q \in Latest(PersonalNews(o))' PROVE PersonalTrue(request[q], o)'
  <2> DEFINE T == PersonalNews(o)'
  <2>1. q \in T /\ T \ {q} \subseteq earlier'[q] BY <1>2 DEF Latest
  <2>2. q \in Requests BY <1>2 DEF Latest, PersonalNews
  <2> DEFINE S == PersonalNews(o)
  <2>. S \in SUBSET Unsent /\ T \in SUBSET (S \cup {p}) BY <1>1
  <2> HIDE DEF S, T
  <2>6. /\ p \in T => q = p
        /\ T = S => q \in Latest(S)
    BY <2>1, CommitLatest
  <2> USE DEF S, T
  <2>3. CASE p \in T
    <3>1. q = p BY <2>3, <2>6
    <3>2. QED BY <2>3, <3>1
  <2>4. CASE p \notin T
    <3>1. T = PersonalNews(o) BY <1>1, <2>4
    <3>2. q \in Latest(PersonalNews(o)) BY <2>6, <3>1
    <3>3. q # p /\ request'[q] = request[q] BY <2>1, <2>2, <2>4
    <3>4. PersonalTrue(request[q], o) BY <2>4, <3>2 DEF OwnNewsComes
    <3>5. QED BY <2>4, <3>3, <3>4 DEF PersonalTrue
  <2>5. QED BY <2>3, <2>4
<1>3. OwnNewsCame(o)' BY <1>1 DEF OwnNewsCame
<1>4. QED BY <1>2, <1>3 DEF OwnNewsComes

LEMMA OfferAdded ==
    ASSUME Ordered, NEW p \in Requests \ Unsent, Commits(p), NEW o,
           \A q \in Requests \ {p} : request'[q] = request[q],
           UNCHANGED <<offered, withheld, muddled, unbriefed>>,
           \/ p \in PublicNews(o)' /\ PublicTrue(request[p], o)'
           \/ /\ p \notin PublicNews(o)' /\ (IsFree' <=> IsFree)
              /\ OfferComes(o) /\ OfferCame(o)
    PROVE  OfferComes(o)' /\ OfferCame(o)'
<1>1. /\ PublicNews(o) \in SUBSET Unsent
      /\ PublicNews(o)' \subseteq PublicNews(o) \cup {p}
      /\ PublicNews(o) \subseteq PublicNews(o)'
  <2>1. PublicNews(o) \in SUBSET Unsent BY NewsUnsent
  <2>2. QED BY <2>1 DEF PublicNews, Connecting, Unsent
<1>2. ASSUME NEW q \in Latest(PublicNews(o))' PROVE PublicTrue(request[q], o)'
  <2> DEFINE T == PublicNews(o)'
  <2>1. q \in T /\ T \ {q} \subseteq earlier'[q] BY <1>2 DEF Latest
  <2>2. q \in Requests BY <1>2 DEF Latest, PublicNews
  <2> DEFINE S == PublicNews(o)
  <2>. S \in SUBSET Unsent /\ T \in SUBSET (S \cup {p}) BY <1>1
  <2> HIDE DEF S, T
  <2>6. /\ p \in T => q = p
        /\ T = S => q \in Latest(S)
    BY <2>1, CommitLatest
  <2> USE DEF S, T
  <2>3. CASE p \in T
    <3>1. q = p BY <2>3, <2>6
    <3>2. QED BY <2>3, <3>1
  <2>4. CASE p \notin T
    <3>1. T = PublicNews(o) BY <1>1, <2>4
    <3>2. q \in Latest(PublicNews(o)) BY <2>6, <3>1
    <3>3. q # p /\ request'[q] = request[q] BY <2>1, <2>2, <2>4
    <3>4. PublicTrue(request[q], o) BY <2>4, <3>2 DEF OfferComes
    <3>5. QED BY <2>4, <3>3, <3>4 DEF PublicTrue
  <2>5. QED BY <2>3, <2>4
<1>3. OfferCame(o)' BY <1>1 DEF OfferCame
<1>4. QED BY <1>2, <1>3 DEF OfferComes

\* Only the history of who has newer news grows.
Later(q) ==
    /\ request'[q].kind = request[q].kind
    /\ request'[q].at = request[q].at
    /\ request'[q].op = request[q].op
    /\ request'[q].to = request[q].to
    /\ request'[q].holder = request[q].holder
    /\ request'[q].lost = request[q].lost
    /\ request'[q].free = request[q].free
    /\ request'[q].busy = request[q].busy
    /\ request[q].overtaken \subseteq request'[q].overtaken

\* p has sent o its news, and those who committed before it are late.
LEMMA OwnNewsSent ==
    ASSUME Ordered, NEW p \in Unsent, NEW o,
           \A q \in Requests : earlier'[q] \subseteq earlier[q],
           \A q \in Requests \ {p} : Later(q),
           p \notin PersonalNews(o)',
           UNCHANGED rows,
           IF p \in PersonalNews(o)
           THEN /\ \A q \in earlier[p] : o \in request'[q].overtaken
                /\ PersonalTrue(request[p], o) => o \in misled' \/ (o \in mine' <=> Holder = o)
           ELSE (o \in mine' <=> o \in mine) /\ (o \in misled' <=> o \in misled),
           OwnNewsComes(o), OwnNewsCame(o)
    PROVE  OwnNewsComes(o)' /\ OwnNewsCame(o)'
<1>1. PersonalNews(o)' = PersonalNews(o) \ {p} BY DEF PersonalNews, Connecting, Later
<1>2. PersonalNews(o) \in SUBSET Unsent BY NewsUnsent
<1>3. Holder' = Holder BY DEF Holder, rows
<1>4. ASSUME NEW q \in Latest(PersonalNews(o))' PROVE PersonalTrue(request[q], o)'
  <2>1. q \in PersonalNews(o) \ {p} /\ (PersonalNews(o) \ {p}) \ {q} \subseteq earlier'[q]
    BY <1>1, <1>4 DEF Latest
  <2>2. q \in Latest(PersonalNews(o)) \/ (p \in PersonalNews(o) /\ q \in earlier[p])
    BY <1>2, <2>1, EndLatest
  <2>3. Later(q) BY <2>1 DEF PersonalNews
  <2>4. CASE q \in Latest(PersonalNews(o))
    <3>1. PersonalTrue(request[q], o) BY <2>4 DEF OwnNewsComes
    <3>2. QED BY <1>3, <2>3, <3>1 DEF PersonalTrue, Later
  <2>5. CASE p \in PersonalNews(o) /\ q \in earlier[p] BY <2>5 DEF PersonalTrue
  <2>6. QED BY <2>2, <2>4, <2>5
<1>5. OwnNewsCame(o)'
  <2>1. SUFFICES ASSUME PersonalNews(o)' = {} PROVE OwnNewsCame(o)' BY DEF OwnNewsCame
  <2>2. CASE p \in PersonalNews(o)
    <3>1. PersonalNews(o) = {p} BY <1>1, <2>1, <2>2
    <3>2. PersonalTrue(request[p], o) BY <3>1 DEF OwnNewsComes, Latest
    <3>3. QED BY <1>3, <2>2, <3>2 DEF OwnNewsCame
  <2>3. CASE p \notin PersonalNews(o) BY <1>1, <1>3, <2>1, <2>3 DEF OwnNewsCame
  <2>4. QED BY <2>2, <2>3
<1>6. QED BY <1>4, <1>5 DEF OwnNewsComes

LEMMA OfferSent ==
    ASSUME Ordered, NEW p \in Unsent, NEW o,
           \A q \in Requests : earlier'[q] \subseteq earlier[q],
           \A q \in Requests \ {p} : Later(q),
           p \notin PublicNews(o)',
           UNCHANGED rows,
           IF p \in PublicNews(o)
           THEN /\ \A q \in earlier[p] : o \in request'[q].overtaken
                /\ PublicTrue(request[p], o) =>
                      \/ o \in muddled'
                      \/ /\ o \in offered' => IsFree
                         /\ IsFree => o \in offered' \cup withheld' \cup unbriefed'
           ELSE /\ o \in offered' <=> o \in offered
                /\ o \in withheld' <=> o \in withheld
                /\ o \in muddled' <=> o \in muddled
                /\ o \in unbriefed' <=> o \in unbriefed,
           OfferComes(o), OfferCame(o)
    PROVE  OfferComes(o)' /\ OfferCame(o)'
<1>1. PublicNews(o)' = PublicNews(o) \ {p} BY DEF PublicNews, Connecting, Later
<1>2. PublicNews(o) \in SUBSET Unsent BY NewsUnsent
<1>3. IsFree' <=> IsFree BY DEF IsFree, rows
<1>4. ASSUME NEW q \in Latest(PublicNews(o))' PROVE PublicTrue(request[q], o)'
  <2>1. q \in PublicNews(o) \ {p} /\ (PublicNews(o) \ {p}) \ {q} \subseteq earlier'[q]
    BY <1>1, <1>4 DEF Latest
  <2>2. q \in Latest(PublicNews(o)) \/ (p \in PublicNews(o) /\ q \in earlier[p])
    BY <1>2, <2>1, EndLatest
  <2>3. Later(q) BY <2>1 DEF PublicNews
  <2>4. CASE q \in Latest(PublicNews(o))
    <3>1. PublicTrue(request[q], o) BY <2>4 DEF OfferComes
    <3>2. QED BY <1>3, <2>3, <3>1 DEF PublicTrue, Later
  <2>5. CASE p \in PublicNews(o) /\ q \in earlier[p] BY <2>5 DEF PublicTrue
  <2>6. QED BY <2>2, <2>4, <2>5
<1>5. OfferCame(o)'
  <2>1. SUFFICES ASSUME PublicNews(o)' = {} PROVE OfferCame(o)' BY DEF OfferCame
  <2>2. CASE p \in PublicNews(o)
    <3>1. PublicNews(o) = {p} BY <1>1, <2>1, <2>2
    <3>2. PublicTrue(request[p], o) BY <3>1 DEF OfferComes, Latest
    <3>3. QED BY <1>3, <2>2, <3>2 DEF OfferCame
  <2>3. CASE p \notin PublicNews(o) BY <1>1, <1>3, <2>1, <2>3 DEF OfferCame
  <2>4. QED BY <2>2, <2>3
<1>6. QED BY <1>4, <1>5 DEF OfferComes

\* The same for the news without the bootstraps.
LEMMA TellsStay ==
    ASSUME NEW o, Tells(o)' = Tells(o),
           \A q \in Tells(o) : /\ earlier'[q] \subseteq earlier[q]
                               /\ PersonalTrue(request[q], o) => PersonalTrue(request[q], o)',
           TellsTrue(o)
    PROVE  TellsTrue(o)'
<1>1. SUFFICES ASSUME NEW q \in Latest(Tells(o))' PROVE PersonalTrue(request[q], o)'
  BY DEF TellsTrue
<1>2. q \in Tells(o) /\ Tells(o) \ {q} \subseteq earlier'[q] BY <1>1 DEF Latest
<1>3. q \in Latest(Tells(o)) BY <1>2 DEF Latest
<1>4. QED BY <1>2, <1>3 DEF TellsTrue

LEMMA PoolStays ==
    ASSUME NEW o, PoolNews' = PoolNews,
           \A q \in PoolNews : /\ earlier'[q] \subseteq earlier[q]
                               /\ PublicTrue(request[q], o) => PublicTrue(request[q], o)',
           PoolTrue(o)
    PROVE  PoolTrue(o)'
<1>1. SUFFICES ASSUME NEW q \in Latest(PoolNews)' PROVE PublicTrue(request[q], o)'
  BY DEF PoolTrue
<1>2. q \in PoolNews /\ PoolNews \ {q} \subseteq earlier'[q] BY <1>1 DEF Latest
<1>3. q \in Latest(PoolNews) BY <1>2 DEF Latest
<1>4. QED BY <1>2, <1>3 DEF PoolTrue

LEMMA NewsAdded ==
    ASSUME Ordered, NEW p \in Requests \ Unsent, Commits(p), NEW o,
           \A q \in Requests \ {p} : request'[q] = request[q],
           UNCHANGED <<offered, muddled>>,
           \/ p \in Tells(o)' /\ PersonalTrue(request[p], o)'
           \/ p \notin Tells(o)' /\ (Holder' = o <=> Holder = o),
           \/ p \in PoolNews' /\ PublicTrue(request[p], o)'
           \/ p \notin PoolNews' /\ (IsFree' <=> IsFree),
           NewsTrue(o)
    PROVE  NewsTrue(o)'
<1>1. /\ Tells(o) \in SUBSET Unsent /\ PoolNews \in SUBSET Unsent
      /\ p \notin Tells(o) /\ p \notin PoolNews
  BY DEF Tells, PoolNews, Unsent
<1>2. /\ Tells(o)' \subseteq Tells(o) \cup {p} /\ Tells(o) \subseteq Tells(o)'
      /\ PoolNews' \subseteq PoolNews \cup {p} /\ PoolNews \subseteq PoolNews'
  BY <1>1 DEF Tells, PoolNews
<1>3. TellsTrue(o)'
  <2> DEFINE S == Tells(o)
             T == Tells(o)'
  <2>1. SUFFICES ASSUME NEW q \in Latest(Tells(o))' PROVE PersonalTrue(request[q], o)'
    BY DEF TellsTrue
  <2>2. q \in T /\ T \ {q} \subseteq earlier'[q] BY <2>1 DEF Latest
  <2>3. q \in Requests BY <2>1 DEF Latest, Tells
  <2>4. S \in SUBSET Unsent /\ T \in SUBSET (S \cup {p}) BY <1>1, <1>2
  <2> HIDE DEF S, T
  <2>5. (p \in T => q = p) /\ (T = S => q \in Latest(S)) BY <2>2, <2>4, CommitLatest
  <2> USE DEF S, T
  <2>6. CASE p \in T BY <2>5, <2>6
  <2>7. CASE p \notin T
    <3>1. T = S BY <1>2, <2>7
    <3>2. PersonalTrue(request[q], o) BY <2>5, <3>1 DEF NewsTrue, TellsTrue
    <3>3. request'[q] = request[q] BY <2>2, <2>3, <2>7
    <3>4. QED BY <2>7, <3>2, <3>3 DEF PersonalTrue
  <2>8. QED BY <2>6, <2>7
<1>4. PoolTrue(o)'
  <2> DEFINE S == PoolNews
             T == PoolNews'
  <2>1. SUFFICES ASSUME NEW q \in Latest(PoolNews)' PROVE PublicTrue(request[q], o)'
    BY DEF PoolTrue
  <2>2. q \in T /\ T \ {q} \subseteq earlier'[q] BY <2>1 DEF Latest
  <2>3. q \in Requests BY <2>1 DEF Latest, PoolNews
  <2>4. S \in SUBSET Unsent /\ T \in SUBSET (S \cup {p}) BY <1>1, <1>2
  <2> HIDE DEF S, T
  <2>5. (p \in T => q = p) /\ (T = S => q \in Latest(S)) BY <2>2, <2>4, CommitLatest
  <2> USE DEF S, T
  <2>6. CASE p \in T BY <2>5, <2>6
  <2>7. CASE p \notin T
    <3>1. T = S BY <1>2, <2>7
    <3>2. PublicTrue(request[q], o) BY <2>5, <3>1 DEF NewsTrue, PoolTrue
    <3>3. request'[q] = request[q] BY <2>2, <2>3, <2>7
    <3>4. QED BY <2>7, <3>2, <3>3 DEF PublicTrue
  <2>8. QED BY <2>6, <2>7
<1>5. NoFalseOffer(o)' BY <1>2 DEF NewsTrue, NoFalseOffer
<1>6. QED BY <1>3, <1>4, <1>5 DEF NewsTrue

LEMMA NewsSent ==
    ASSUME Ordered, NEW p \in Unsent, NEW o,
           \A q \in Requests : earlier'[q] \subseteq earlier[q],
           \A q \in Requests \ {p} : Later(q),
           UNCHANGED rows,
           p \notin Tells(o)',
           p \in Tells(o) => \A q \in earlier[p] : o \in request'[q].overtaken,
           \/ p \notin PoolNews' /\ p \notin PoolNews
           \/ p \notin PoolNews' /\ \A q \in earlier[p] : o \in request'[q].overtaken
           \/ /\ p \in PoolNews' /\ p \in PoolNews
              /\ PublicTrue(request[p], o) => PublicTrue(request[p], o)',
           PoolNews' = {} =>
              \/ o \in muddled'
              \/ o \in offered' => IsFree,
           NewsTrue(o)
    PROVE  NewsTrue(o)'
<1>1. /\ Tells(o) \in SUBSET Unsent /\ PoolNews \in SUBSET Unsent
      /\ Tells(o)' = Tells(o) \ {p} /\ PoolNews' \ {p} = PoolNews \ {p}
      /\ Holder' = Holder /\ (IsFree' <=> IsFree)
  BY DEF Tells, PoolNews, Unsent, Later, Holder, IsFree, rows
<1>2. TellsTrue(o)'
  <2>1. SUFFICES ASSUME NEW q \in Latest(Tells(o))' PROVE PersonalTrue(request[q], o)'
    BY DEF TellsTrue
  <2>2. q \in Tells(o) \ {p} /\ (Tells(o) \ {p}) \ {q} \subseteq earlier'[q]
    BY <1>1, <2>1 DEF Latest
  <2>3. q \in Latest(Tells(o)) \/ (p \in Tells(o) /\ q \in earlier[p])
    BY <1>1, <2>2, EndLatest
  <2>4. Later(q) BY <2>2 DEF Tells
  <2>5. CASE q \in Latest(Tells(o))
    <3>1. PersonalTrue(request[q], o) BY <2>5 DEF NewsTrue, TellsTrue
    <3>2. QED BY <1>1, <2>4, <3>1 DEF PersonalTrue, Later
  <2>6. CASE p \in Tells(o) /\ q \in earlier[p] BY <2>6 DEF PersonalTrue
  <2>7. QED BY <2>3, <2>5, <2>6
<1>3. PoolTrue(o)'
  <2>1. SUFFICES ASSUME NEW q \in Latest(PoolNews)' PROVE PublicTrue(request[q], o)'
    BY DEF PoolTrue
  <2>2. q \in PoolNews' /\ PoolNews' \ {q} \subseteq earlier'[q] BY <2>1 DEF Latest
  <2>3. q \in Requests /\ earlier'[q] \subseteq earlier[q] BY <2>2 DEF PoolNews
  <2>4. q # p => Later(q) BY <2>3
  <2>5. CASE p \in PoolNews'
    <3>1. PoolNews' = PoolNews BY <1>1, <2>5
    <3>2. q \in Latest(PoolNews) BY <2>2, <2>3, <3>1 DEF Latest
    <3>3. PublicTrue(request[q], o) BY <3>2 DEF NewsTrue, PoolTrue
    <3>4. CASE q = p BY <2>5, <3>3, <3>4
    <3>5. CASE q # p BY <1>1, <2>4, <3>3, <3>5 DEF PublicTrue, Later
    <3>6. QED BY <3>4, <3>5
  <2>6. CASE p \notin PoolNews'
    <3>1. q \in PoolNews \ {p} /\ (PoolNews \ {p}) \ {q} \subseteq earlier'[q]
      BY <1>1, <2>2, <2>6
    <3>2. q \in Latest(PoolNews) \/ (p \in PoolNews /\ q \in earlier[p])
      BY <1>1, <3>1, EndLatest
    <3>3. CASE q \in Latest(PoolNews)
      <4>1. PublicTrue(request[q], o) BY <3>3 DEF NewsTrue, PoolTrue
      <4>2. QED BY <1>1, <2>4, <3>1, <4>1 DEF PublicTrue, Later
    <3>4. CASE p \in PoolNews /\ q \in earlier[p] BY <2>6, <3>4 DEF PublicTrue
    <3>5. QED BY <3>2, <3>3, <3>4
  <2>7. QED BY <2>5, <2>6
<1>4. NoFalseOffer(o)' BY <1>1 DEF NoFalseOffer
<1>5. QED BY <1>2, <1>3, <1>4 DEF NewsTrue

-----------------------------------------------------------------------------
(* Types.                                                                  *)

\* All of TypeOK but the order of the handlers.
Typed ==
    /\ status \in {"ABSENT", "NEW", "CLOSED"} \cup OpenAssigned
    /\ assignee \in Operators \cup {NoOperator}
    /\ request \in [Requests -> RequestState]
    /\ online \in SUBSET Operators
    /\ listening \in SUBSET online
    /\ mine \in SUBSET online
    /\ offered \in SUBSET listening
    /\ withheld \in SUBSET Operators
    /\ misled \in SUBSET online
    /\ muddled \in SUBSET listening
    /\ unbriefed \in SUBSET online

LEMMA TypeParts == TypeOK <=> Typed /\ Ordered
BY DEF TypeOK, Typed, Ordered

LEMMA IdleTyped == Idle \in RequestState
BY DEF Idle, RequestState

LEMMA KindFacts ==
    /\ Removing \subseteq Kinds /\ Returning \subseteq Kinds
    /\ Returning \cap Removing = {}
    /\ "raise" \notin Kinds /\ "bootstrap" \notin Kinds /\ "none" \notin Kinds
BY DEF Removing, Returning, Kinds, GivingKinds, FreeingKinds, ClosingKinds, KeepingKinds

LEMMA SendsFacts ==
    ASSUME request \in [Requests -> RequestState], earlier \in [Requests -> SUBSET Requests],
           NEW p \in Requests, NEW G \in SUBSET Operators, NEW r \in RequestState, Sends(p, G, r)
    PROVE  /\ request' \in [Requests -> RequestState]
           /\ request'[p] = r
           /\ \A q \in Requests \ {p} : Later(q)
           /\ \A q \in earlier[p] \ {p} : G \subseteq request'[q].overtaken
<1>1. ASSUME NEW q \in Requests \ {p}
      PROVE  /\ request'[q] \in RequestState /\ Later(q)
             /\ q \in earlier[p] => G \subseteq request'[q].overtaken
  <2>1. request[q] \in RequestState OBVIOUS
  <2>2. CASE q \notin earlier[p] BY <2>1, <2>2 DEF Sends, Later
  <2>3. CASE q \in earlier[p]
    <3>1. request'[q] = [request[q] EXCEPT !.overtaken = @ \cup G] BY <2>3 DEF Sends
    <3>2. QED BY <2>1, <3>1 DEF RequestState, Later
  <2>4. QED BY <2>2, <2>3
<1>2. request'[p] = r BY DEF Sends
<1>3. request' = [q \in Requests |-> request'[q]] BY DEF Sends
<1>4. QED BY <1>1, <1>2, <1>3

\* A step of request p alone: what it becomes, and the others stay.
Becomes(p, r) ==
    /\ request' = [request EXCEPT ![p] = r]
    /\ r \in RequestState

LEMMA BecomesFacts ==
    ASSUME request \in [Requests -> RequestState], NEW p \in Requests, NEW r, Becomes(p, r)
    PROVE  /\ request' \in [Requests -> RequestState]
           /\ request'[p] = r
           /\ \A q \in Requests \ {p} : request'[q] = request[q]
BY DEF Becomes

\* What the events of p make of p.
AfterTell(r) ==
    IF r.kind \in Returning
    THEN [Idle EXCEPT !.kind = r.kind, !.at = "askBusy", !.overtaken = r.overtaken]
    ELSE Idle

LEMMA ReceiveBecomes ==
    ASSUME Typed, NEW p \in Requests, NEW kind \in Kinds, NEW o \in Operators \cup {NoOperator},
           Receive(p, kind, o)
    PROVE  \E r : Becomes(p, r) /\ r.at = "write" /\ r.kind = kind
<1> DEFINE r == [Idle EXCEPT !.kind = kind, !.at = "write", !.op = o,
                             !.prev = IF kind \in TellPrevious THEN assignee ELSE NoOperator]
<1>1. r \in RequestState /\ r.at = "write" /\ r.kind = kind BY DEF Idle, RequestState, Typed
<1>2. request' = [request EXCEPT ![p] = r] BY DEF Receive
<1>3. QED BY <1>1, <1>2 DEF Becomes

LEMMA WriteBecomes ==
    ASSUME Typed, NEW p \in Requests, Write(p)
    PROVE  \E r : /\ Becomes(p, r)
                  /\ r.at = "tell" /\ r.kind = request[p].kind
                  /\ r.to = SessionRooms(request[p])
                  /\ r.holder = IF StatusAfter(r.kind) \in OpenAssigned
                                THEN AssigneeAfter(request[p]) ELSE NoOperator
                  /\ r.lost = IF Holder \in {r.holder, request[p].prev} THEN NoOperator ELSE Holder
<1> DEFINE q == request[p]
           after == IF StatusAfter(q.kind) \in OpenAssigned THEN AssigneeAfter(q) ELSE NoOperator
           lost == IF Holder \in {after, q.prev} THEN NoOperator ELSE Holder
           r == [Idle EXCEPT !.kind = q.kind, !.at = "tell", !.to = SessionRooms(q),
                             !.holder = after, !.lost = lost]
<1>1. q \in RequestState BY DEF Typed
<1>2. AssigneeAfter(q) \in Operators \cup {NoOperator} BY <1>1 DEF AssigneeAfter, RequestState, Typed
<1>3. SessionRooms(q) \in SUBSET Operators BY DEF SessionRooms
<1>4. after \in Operators \cup {NoOperator} BY <1>2
<1>5. lost \in Operators \cup {NoOperator} BY DEF Holder, Typed
<1>6. q.kind \in Kinds \cup {"none", "raise", "bootstrap"} BY <1>1 DEF RequestState
<1> HIDE DEF q, after, lost
<1>7. /\ r \in RequestState /\ r.at = "tell" /\ r.kind = q.kind
      /\ r.to = SessionRooms(q) /\ r.holder = after /\ r.lost = lost
  BY <1>3, <1>4, <1>5, <1>6 DEF Idle, RequestState
<1>8. request' = [request EXCEPT ![p] = r] BY DEF Write, q, after, lost
<1>9. QED BY <1>7, <1>8 DEF Becomes, q, after, lost

LEMMA RaiseBecomes ==
    ASSUME NEW p \in Requests, Raise(p)
    PROVE  \E r : Becomes(p, r) /\ r.at = "askBusy" /\ r.kind = "raise"
<1> DEFINE r == [Idle EXCEPT !.kind = "raise", !.at = "askBusy"]
<1>1. r \in RequestState /\ r.at = "askBusy" /\ r.kind = "raise" BY DEF Idle, RequestState
<1>2. QED BY <1>1 DEF Raise, Becomes

LEMMA RefuseBecomes ==
    ASSUME NEW p \in Requests, Refuse(p)
    PROVE  Becomes(p, Idle)
BY IdleTyped DEF Refuse, Becomes

LEMMA FailsBecomes ==
    ASSUME NEW p \in Requests, BootstrapFails(p)
    PROVE  Becomes(p, Idle)
BY IdleTyped DEF BootstrapFails, Becomes

\* Only some fields of p change.
LEMMA AskBusyBecomes ==
    ASSUME Typed, NEW p \in Requests, AskBusy(p)
    PROVE  \E r : /\ Becomes(p, r)
                  /\ r.at = "offer" /\ r.kind = request[p].kind
                  /\ r.overtaken = request[p].overtaken
<1> PICK B \in SUBSET Operators : request' = [request EXCEPT ![p].at = "offer", ![p].busy = B]
  BY DEF AskBusy
<1> DEFINE r == [request[p] EXCEPT !.at = "offer", !.busy = B]
<1>1. request[p] \in RequestState BY DEF Typed
<1>2. r \in RequestState /\ r.at = "offer" /\ r.kind = request[p].kind
      /\ r.overtaken = request[p].overtaken
  BY <1>1 DEF RequestState
<1>3. request' = [request EXCEPT ![p] = r] BY DEF Typed
<1>4. QED BY <1>2, <1>3 DEF Becomes

LEMMA ConnectBecomes ==
    ASSUME NEW p \in Requests, NEW o \in Operators, Connect(p, o)
    PROVE  \E r : Becomes(p, r) /\ r.at = "join" /\ r.kind = "bootstrap" /\ r.op = o
             /\ ~r.free /\ r.busy = {}
<1> DEFINE r == [Idle EXCEPT !.kind = "bootstrap", !.at = "join", !.op = o]
<1>1. r \in RequestState /\ r.at = "join" /\ r.kind = "bootstrap" /\ r.op = o
             /\ ~r.free /\ r.busy = {}
  BY DEF Idle, RequestState
<1>2. QED BY <1>1 DEF Connect, Becomes

LEMMA JoinBecomes ==
    ASSUME Typed, NEW p \in Requests, JoinOnShift(p)
    PROVE  \E r : /\ Becomes(p, r)
                  /\ r.at = "readMine" /\ r.kind = request[p].kind /\ r.op = request[p].op
                  /\ r.free = request[p].free /\ r.busy = request[p].busy
<1> DEFINE r == [request[p] EXCEPT !.at = "readMine"]
<1>1. request[p] \in RequestState BY DEF Typed
<1>2. r \in RequestState /\ r.at = "readMine" /\ r.kind = request[p].kind /\ r.op = request[p].op
      /\ r.free = request[p].free /\ r.busy = request[p].busy
  BY <1>1 DEF RequestState
<1>3. request' = [request EXCEPT ![p] = r] BY DEF JoinOnShift, Typed
<1>4. QED BY <1>2, <1>3 DEF Becomes

LEMMA ReadMineBecomes ==
    ASSUME Typed, WellFormed, NEW p \in Requests, ReadMine(p)
    PROVE  \E r : /\ Becomes(p, r)
                  /\ r.kind = request[p].kind /\ r.op = request[p].op /\ r.holder = Holder
                  /\ \/ r.at = "readPool" /\ r.busy = {}
                     \/ r.at = "snapshot" /\ r.busy = {r.op} /\ ~r.free
<1> PICK busy \in BOOLEAN :
        request' = [request EXCEPT ![p].at = IF busy THEN "snapshot" ELSE "readPool",
                                   ![p].holder = Holder,
                                   ![p].busy = IF busy THEN {request[p].op} ELSE {}]
  BY DEF ReadMine
<1> DEFINE q == request[p]
           B == IF busy THEN {q.op} ELSE {}
           at == IF busy THEN "snapshot" ELSE "readPool"
           r == [q EXCEPT !.at = at, !.holder = Holder, !.busy = B]
<1>1. q \in RequestState BY DEF Typed
<1>2. Holder \in Operators \cup {NoOperator} BY DEF Holder, Typed
<1>3. q.op \in Operators /\ ~q.free BY DEF ReadMine, WellFormed, ShapeOf, Typed
<1>4. request' = [request EXCEPT ![p] = r] BY DEF Typed
<1>5. (at = "readPool" /\ B = {}) \/ (at = "snapshot" /\ B = {q.op}) OBVIOUS
<1>6. q.free = FALSE BY <1>1, <1>3 DEF RequestState
<1> HIDE DEF q, B, at
<1>7. r \in RequestState BY <1>1, <1>2, <1>3, <1>5 DEF RequestState
<1>8. r.kind = q.kind /\ r.op = q.op /\ r.holder = Holder /\ r.at = at /\ r.busy = B /\ r.free = q.free
  BY <1>1 DEF RequestState
<1>9. QED BY <1>4, <1>5, <1>6, <1>7, <1>8 DEF Becomes, q

LEMMA ReadPoolBecomes ==
    ASSUME Typed, NEW p \in Requests, ReadPool(p)
    PROVE  \E r : /\ Becomes(p, r)
                  /\ r.at = "snapshot" /\ r.kind = request[p].kind /\ r.op = request[p].op
                  /\ r.holder = request[p].holder /\ r.overtaken = request[p].overtaken
                  /\ r.busy = request[p].busy /\ (r.free <=> IsFree)
<1> DEFINE q == request[p]
           r == [q EXCEPT !.at = "snapshot", !.free = IsFree]
<1>1. q \in RequestState BY DEF Typed
<1>2. request' = [request EXCEPT ![p] = r] BY DEF ReadPool, Typed
<1>3. IsFree \in BOOLEAN BY DEF IsFree
<1>4. r \in RequestState BY <1>1, <1>3 DEF RequestState
<1>5. /\ r.at = "snapshot" /\ r.kind = q.kind /\ r.op = q.op
      /\ r.holder = q.holder /\ r.overtaken = q.overtaken /\ r.busy = q.busy
      /\ r.free = IsFree
  BY <1>1 DEF RequestState
<1>6. QED BY <1>2, <1>4, <1>5 DEF Becomes

LEMMA TellSends ==
    ASSUME Typed, Ordered, NEW p \in Requests, Tell(p)
    PROVE  /\ AfterTell(request[p]) \in RequestState
           /\ Addressed(request[p]) \in SUBSET Operators
           /\ Sends(p, Addressed(request[p]), AfterTell(request[p]))
<1>1. request[p] \in RequestState BY DEF Typed
<1>2. AfterTell(request[p]) \in RequestState BY <1>1 DEF AfterTell, Idle, RequestState
<1>3. Addressed(request[p]) \in SUBSET Operators BY <1>1 DEF Addressed, RequestState
<1>4. QED BY <1>2, <1>3 DEF Tell, AfterTell

-----------------------------------------------------------------------------
(* The shape of the state.                                                 *)

HasEvents == {"tell", "askBusy", "offer", "readPool", "snapshot"}

LEMMA OneMoves ==
    ASSUME Typed, WellFormed, Joined, NEW p \in Requests, NEW r, Becomes(p, r), ShapeOf(r)',
           online \subseteq online', listening \subseteq listening', unbriefed \subseteq unbriefed',
           \A o \in online' : o \in online \/ (r.at = "join" /\ r.op = o),
           r.kind = "bootstrap" => \/ r.op \notin online
                                   \/ request[p].kind = "bootstrap" /\ r.op = request[p].op,
           request[p].at = "join" => request[p].op \in listening' \cup unbriefed'
    PROVE  /\ WellFormed' /\ Joined'
           /\ Unsent' = IF r.at \in HasEvents THEN Unsent \cup {p} ELSE Unsent \ {p}
<1>1. request' \in [Requests -> RequestState] /\ request'[p] = r
      /\ \A q \in Requests \ {p} : request'[q] = request[q]
  BY BecomesFacts DEF Typed
<1>2. ASSUME NEW q \in Requests PROVE ShapeOf(request[q])'
  <2>1. CASE q = p BY <1>1, <2>1 DEF ShapeOf
  <2>2. CASE q # p
    <3>1. request'[q] = request[q] BY <1>1, <2>2
    <3>2. QED BY <3>1 DEF WellFormed, ShapeOf
  <2>3. QED BY <2>1, <2>2
<1>3. ASSUME NEW q \in Requests, NEW t \in Requests,
             request'[q].kind = "bootstrap", request'[t].kind = "bootstrap",
             request'[q].op = request'[t].op
      PROVE  q = t
  <2>1. ASSUME NEW x \in Requests \ {p}, request[x].kind = "bootstrap", r.kind = "bootstrap",
               request[x].op = r.op
        PROVE  FALSE
    <3>1. request[x].op \in online BY <2>1 DEF WellFormed, ShapeOf
    <3>2. request[p].kind = "bootstrap" /\ request[x].op = request[p].op BY <2>1, <3>1
    <3>3. QED BY <2>1, <3>2 DEF WellFormed
  <2>2. CASE q # p /\ t # p BY <1>1, <1>3, <2>2 DEF WellFormed
  <2>3. CASE q = p \/ t = p BY <1>1, <1>3, <2>1, <2>3
  <2>4. QED BY <2>2, <2>3
<1>4. ASSUME NEW o \in online' \ listening', o \notin unbriefed'
      PROVE  \E q \in Bootstrapping(o)' : request'[q].at = "join"
  <2>1. CASE r.at = "join" /\ r.op = o
    <3>1. r.kind = "bootstrap" BY <2>1 DEF ShapeOf
    <3>2. p \in Bootstrapping(o)' BY <1>1, <2>1, <3>1 DEF Bootstrapping
    <3>3. QED BY <1>1, <2>1, <3>2
  <2>2. CASE o \in online
    <3>1. PICK q \in Bootstrapping(o) : request[q].at = "join" BY <1>4, <2>2 DEF Joined
    <3>2. q # p BY <1>4, <3>1 DEF Bootstrapping
    <3>3. q \in Requests /\ request'[q] = request[q] BY <1>1, <3>1, <3>2 DEF Bootstrapping
    <3>4. q \in Bootstrapping(o)' BY <3>1, <3>3 DEF Bootstrapping
    <3>5. QED BY <3>1, <3>3, <3>4
  <2>3. QED BY <2>1, <2>2
<1>5. Unsent' = IF r.at \in HasEvents THEN Unsent \cup {p} ELSE Unsent \ {p}
  BY <1>1 DEF Unsent, HasEvents
<1>6. QED BY <1>2, <1>3, <1>4, <1>5 DEF WellFormed, Joined

\* The same when the news of the others may grow old.
LEMMA OneSends ==
    ASSUME Typed, WellFormed, Joined, NEW p \in Requests, NEW r \in RequestState, ShapeOf(r),
           request' \in [Requests -> RequestState], request'[p] = r,
           \A q \in Requests \ {p} : Later(q), r.kind # "bootstrap",
           request[p].at # "join", UNCHANGED <<online, listening>>,
           unbriefed \ listening \subseteq unbriefed'
    PROVE  /\ WellFormed' /\ Joined'
           /\ Unsent' = IF r.at \in HasEvents THEN Unsent \cup {p} ELSE Unsent \ {p}
<1>1. ASSUME NEW q \in Requests PROVE ShapeOf(request[q])'
  <2>1. CASE q = p BY <2>1 DEF ShapeOf
  <2>2. CASE q # p
    <3>1. Later(q) BY <2>2
    <3>2. QED BY <3>1 DEF WellFormed, ShapeOf, Later
  <2>3. QED BY <2>1, <2>2
<1>2. ASSUME NEW q \in Requests, NEW t \in Requests,
             request'[q].kind = "bootstrap", request'[t].kind = "bootstrap",
             request'[q].op = request'[t].op
      PROVE  q = t
  BY <1>2 DEF WellFormed, Later
<1>3. ASSUME NEW o \in online' \ listening', o \notin unbriefed'
      PROVE  \E q \in Bootstrapping(o)' : request'[q].at = "join"
  <2>1. PICK q \in Bootstrapping(o) : request[q].at = "join" BY <1>3 DEF Joined
  <2>2. q \in Requests /\ Later(q) BY <2>1 DEF Bootstrapping
  <2>3. QED BY <2>1, <2>2 DEF Bootstrapping, Later
<1>4. Unsent' = IF r.at \in HasEvents THEN Unsent \cup {p} ELSE Unsent \ {p}
  BY DEF Unsent, HasEvents, Later
<1>5. QED BY <1>1, <1>2, <1>3, <1>4 DEF WellFormed, Joined

Shape == Typed /\ Ordered /\ WellFormed /\ Joined /\ AbsentUnassigned

LEMMA RowsKept == AbsentUnassigned /\ UNCHANGED rows => AbsentUnassigned'
BY DEF AbsentUnassigned, rows

LEMMA SameOrder ==
    ASSUME Ordered, Unsent' = Unsent, UNCHANGED earlier
    PROVE  Ordered'
BY DEF Ordered

\* Steps before the commit.
LEMMA EarlyShape ==
    ASSUME Shape, NEW p \in Requests,
           \/ \E kind \in Kinds, o \in Operators \cup {NoOperator} : Receive(p, kind, o)
           \/ Refuse(p) \/ \E o \in Operators : Connect(p, o)
           \/ JoinOnShift(p)
    PROVE  Shape' /\ Unsent' = Unsent
<1> USE DEF Shape
<1>1. ASSUME NEW kind \in Kinds, NEW o \in Operators \cup {NoOperator}, Receive(p, kind, o)
      PROVE  Shape' /\ Unsent' = Unsent
  <2>1. PICK r : Becomes(p, r) /\ r.at = "write" /\ r.kind = kind BY <1>1, ReceiveBecomes
  <2>2. UNCHANGED <<rows, apps, earlier>> /\ request[p].at = "idle"
    <3>1. request[p] = Idle BY <1>1 DEF Receive
    <3>2. request[p].at = "idle" BY <3>1 DEF Idle
    <3>3. QED BY <1>1, <3>2 DEF Receive
  <2>3. ShapeOf(r)' /\ r.kind # "bootstrap" BY <2>1, KindFacts DEF ShapeOf
  <2>4. WellFormed' /\ Joined' /\ Unsent' = Unsent \ {p} BY <2>1, <2>2, <2>3, OneMoves DEF HasEvents, apps
  <2>5. Unsent' = Unsent BY <2>2, <2>4 DEF Unsent
  <2>6. Typed' BY <2>1, <2>2, BecomesFacts DEF Typed, rows, apps
  <2>7. QED BY <2>2, <2>4, <2>5, <2>6, SameOrder, RowsKept
<1>2. CASE Refuse(p)
  <2>1. Becomes(p, Idle) BY <1>2, RefuseBecomes
  <2>2. UNCHANGED <<rows, apps, earlier>> /\ request[p].at = "write" BY <1>2 DEF Refuse
  <2>3. ShapeOf(Idle)' BY DEF ShapeOf, Idle
  <2>4. WellFormed' /\ Joined' /\ Unsent' = Unsent \ {p}
    BY <2>1, <2>2, <2>3, OneMoves DEF HasEvents, apps, Idle
  <2>5. Unsent' = Unsent BY <2>2, <2>4 DEF Unsent
  <2>6. Typed' BY <2>1, <2>2, BecomesFacts DEF Typed, rows, apps
  <2>7. QED BY <2>2, <2>4, <2>5, <2>6, SameOrder, RowsKept
<1>3. ASSUME NEW o \in Operators, Connect(p, o)
      PROVE  Shape' /\ Unsent' = Unsent
  <2>1. PICK r : Becomes(p, r) /\ r.at = "join" /\ r.kind = "bootstrap" /\ r.op = o /\ ~r.free /\ r.busy = {}
    BY <1>3, ConnectBecomes
  <2>2. /\ UNCHANGED <<rows, earlier, listening, mine, offered, withheld, misled, muddled, unbriefed>>
        /\ online' = online \cup {o} /\ o \notin online /\ request[p].at = "idle"
    <3>1. request[p] = Idle BY <1>3 DEF Connect
    <3>2. request[p].at = "idle" BY <3>1 DEF Idle
    <3>3. QED BY <1>3, <3>2 DEF Connect
  <2>3. ShapeOf(r)' BY <2>1, <2>2 DEF ShapeOf
  <2>4. WellFormed' /\ Joined' /\ Unsent' = Unsent \ {p} BY <2>1, <2>2, <2>3, OneMoves DEF HasEvents
  <2>5. Unsent' = Unsent BY <2>2, <2>4 DEF Unsent
  <2>6. Typed' BY <2>1, <2>2, BecomesFacts DEF Typed, rows
  <2>7. QED BY <2>2, <2>4, <2>5, <2>6, SameOrder, RowsKept
<1>4. CASE JoinOnShift(p)
  <2>1. PICK r : /\ Becomes(p, r)
                 /\ r.at = "readMine" /\ r.kind = request[p].kind /\ r.op = request[p].op
                 /\ r.free = request[p].free /\ r.busy = request[p].busy
    BY <1>4, JoinBecomes
  <2>2. /\ UNCHANGED <<rows, earlier, online, mine, offered, withheld, misled, muddled, unbriefed>>
        /\ listening' = listening \cup {request[p].op} /\ request[p].at = "join"
    BY <1>4 DEF JoinOnShift
  <2>3. ShapeOf(request[p]) BY DEF WellFormed
  <2>4. ShapeOf(r)' BY <2>1, <2>2, <2>3 DEF ShapeOf
  <2>5. WellFormed' /\ Joined' /\ Unsent' = Unsent \ {p} BY <2>1, <2>2, <2>4, OneMoves DEF HasEvents
  <2>6. Unsent' = Unsent BY <2>2, <2>5 DEF Unsent
  <2>7. request[p].op \in online BY <2>2, <2>3 DEF ShapeOf
  <2>8. Typed' BY <2>1, <2>2, <2>7, BecomesFacts DEF Typed, rows
  <2>9. QED BY <2>2, <2>5, <2>6, <2>8, SameOrder, RowsKept
<1>5. QED BY <1>1, <1>2, <1>3, <1>4

\* Commits, and the first read of a bootstrap.
LEMMA CommitShape ==
    ASSUME Shape, NEW p \in Requests, Write(p) \/ Raise(p) \/ ReadMine(p)
    PROVE  Shape' /\ p \notin Unsent /\ Unsent' = Unsent \cup {p}
<1> USE DEF Shape
<1>1. SUFFICES ASSUME NEW r, Becomes(p, r), ShapeOf(r)', r.at \in HasEvents,
                      r.kind = "bootstrap" => request[p].kind = "bootstrap" /\ r.op = request[p].op,
                      request[p].at \in {"write", "idle", "readMine"},
                      UNCHANGED apps, Commits(p), status' \in {"ABSENT", "NEW", "CLOSED"} \cup OpenAssigned,
                      assignee' \in Operators \cup {NoOperator}, AbsentUnassigned'
               PROVE  Shape' /\ p \notin Unsent /\ Unsent' = Unsent \cup {p}
  <2>1. CASE Write(p)
    <3>1. PICK r : Becomes(p, r) /\ r.at = "tell" /\ r.kind = request[p].kind
      BY <2>1, WriteBecomes
    <3>2. request[p].at = "write" /\ ShapeOf(request[p]) BY <2>1 DEF Write, WellFormed
    <3>3. ShapeOf(r)' /\ r.kind # "bootstrap" BY <3>1, <3>2, KindFacts DEF ShapeOf
    <3>4. request[p].kind \in Kinds /\ request[p] \in RequestState BY <3>2 DEF ShapeOf, Typed
    <3>5. status' \in {"ABSENT", "NEW", "CLOSED"} \cup OpenAssigned
      BY <2>1, <3>4 DEF Write, StatusAfter, Kinds, GivingKinds, FreeingKinds, ClosingKinds, KeepingKinds,
                        OpenAssigned, Typed
    <3>6. assignee' \in Operators \cup {NoOperator}
      BY <2>1, <3>4 DEF Write, AssigneeAfter, RequestState, Typed
    <3>7. UNCHANGED apps /\ Commits(p) BY <2>1 DEF Write
    <3>8. AbsentUnassigned'
      BY <2>1, <3>4 DEF Write, StatusAfter, AssigneeAfter, Kinds, GivingKinds, FreeingKinds, ClosingKinds,
                        KeepingKinds, AbsentUnassigned
    <3>9. QED BY <1>1, <3>1, <3>2, <3>3, <3>5, <3>6, <3>7, <3>8 DEF HasEvents
  <2>2. CASE Raise(p)
    <3>1. PICK r : Becomes(p, r) /\ r.at = "askBusy" /\ r.kind = "raise" BY <2>2, RaiseBecomes
    <3>2. ShapeOf(r)' BY <3>1 DEF ShapeOf
    <3>3. QED BY <1>1, <2>2, <3>1, <3>2 DEF Raise, HasEvents, Idle, Typed, AbsentUnassigned
  <2>3. CASE ReadMine(p)
    <3>1. PICK r : /\ Becomes(p, r) /\ r.kind = request[p].kind /\ r.op = request[p].op
                   /\ r.at \in {"readPool", "snapshot"} /\ r.busy \subseteq {r.op}
      BY <2>3, ReadMineBecomes
    <3>2. request[p].at = "readMine" /\ ShapeOf(request[p]) BY <2>3 DEF ReadMine, WellFormed
    <3>3. ShapeOf(r)' BY <2>3, <3>1, <3>2 DEF ShapeOf, ReadMine, apps
    <3>4. QED BY <1>1, <2>3, <3>1, <3>2, <3>3, RowsKept DEF ReadMine, HasEvents, rows, Typed
  <2>4. QED BY <2>1, <2>2, <2>3
<1>2. p \notin Unsent BY <1>1 DEF Unsent
<1>3. WellFormed' /\ Joined' /\ Unsent' = Unsent \cup {p} BY <1>1, OneMoves DEF apps, HasEvents
<1>4. Typed' BY <1>1, BecomesFacts DEF Typed, apps
<1>5. Ordered' BY <1>1, <1>2, <1>3, CommitOrdered
<1>6. QED BY <1>1, <1>2, <1>3, <1>4, <1>5

\* Queries between the commit and the last event.
LEMMA QueryShape ==
    ASSUME Shape, NEW p \in Requests, AskBusy(p) \/ ReadPool(p)
    PROVE  Shape' /\ Unsent' = Unsent
<1> USE DEF Shape
<1>1. SUFFICES ASSUME NEW r, Becomes(p, r), ShapeOf(r)', r.at \in HasEvents, request[p].at \in HasEvents,
                      r.kind = "bootstrap" => request[p].kind = "bootstrap" /\ r.op = request[p].op,
                      UNCHANGED <<rows, earlier, apps>>
               PROVE  Shape' /\ Unsent' = Unsent
  <2>1. CASE AskBusy(p)
    <3>1. PICK r : Becomes(p, r) /\ r.at = "offer" /\ r.kind = request[p].kind BY <2>1, AskBusyBecomes
    <3>2. request[p].at = "askBusy" /\ ShapeOf(request[p]) BY <2>1 DEF AskBusy, WellFormed
    <3>3. r.kind # "bootstrap" BY <3>1, <3>2, KindFacts DEF ShapeOf
    <3>4. ShapeOf(r)' BY <3>1, <3>2, <3>3 DEF ShapeOf
    <3>5. QED BY <1>1, <2>1, <3>1, <3>2, <3>3, <3>4 DEF AskBusy, HasEvents
  <2>2. CASE ReadPool(p)
    <3>1. PICK r : /\ Becomes(p, r) /\ r.at = "snapshot" /\ r.busy = request[p].busy
                   /\ r.kind = request[p].kind /\ r.op = request[p].op
      BY <2>2, ReadPoolBecomes
    <3>2. request[p].at = "readPool" /\ ShapeOf(request[p]) BY <2>2 DEF ReadPool, WellFormed
    <3>3. ShapeOf(r)' BY <2>2, <3>1, <3>2 DEF ShapeOf, ReadPool, apps
    <3>4. QED BY <1>1, <2>2, <3>1, <3>2, <3>3 DEF ReadPool, HasEvents
  <2>3. QED BY <2>1, <2>2
<1>2. WellFormed' /\ Joined' /\ Unsent' = Unsent \cup {p} BY <1>1, OneMoves DEF apps, HasEvents
<1>3. Unsent' = Unsent BY <1>1, <1>2 DEF Unsent, HasEvents
<1>4. Typed' BY <1>1, BecomesFacts DEF Typed, apps, rows
<1>5. QED BY <1>1, <1>2, <1>3, <1>4, SameOrder, RowsKept

\* What Tell, Offer and Snapshot have in common: p sends to G and becomes r.
LEMMA SendShape ==
    ASSUME Shape, NEW p \in Unsent, NEW G \in SUBSET Operators, NEW r \in RequestState, ShapeOf(r),
           r.kind # "bootstrap", Sends(p, G, r), UNCHANGED <<rows, online, listening>>,
           IF r.at \in HasEvents THEN UNCHANGED earlier ELSE Ends({p}),
           mine' \subseteq online, offered' \subseteq listening, withheld' \subseteq Operators,
           misled' \subseteq online, muddled' \subseteq listening,
           unbriefed' \subseteq online, unbriefed \ listening \subseteq unbriefed'
    PROVE  /\ Shape'
           /\ p \in Requests /\ request'[p] = r
           /\ \A q \in Requests \ {p} : Later(q)
           /\ \A q \in earlier[p] : q # p /\ G \subseteq request'[q].overtaken
           /\ \A q \in Requests : earlier'[q] \subseteq earlier[q]
<1> USE DEF Shape
<1>1. p \in Requests /\ Unsent \subseteq Requests BY DEF Unsent
<1>2. earlier \in [Requests -> SUBSET Requests] /\ p \notin earlier[p] BY <1>1 DEF Ordered
<1>3. /\ request' \in [Requests -> RequestState] /\ request'[p] = r
      /\ \A q \in Requests \ {p} : Later(q)
      /\ \A q \in earlier[p] \ {p} : G \subseteq request'[q].overtaken
  BY <1>1, <1>2, SendsFacts DEF Typed
<1>4. request[p].at # "join" BY DEF Unsent
<1>5. WellFormed' /\ Joined' /\ Unsent' = IF r.at \in HasEvents THEN Unsent \cup {p} ELSE Unsent \ {p}
  BY <1>1, <1>3, <1>4, OneSends
<1>6. Typed' BY <1>3 DEF Typed, rows
<1>7. CASE r.at \in HasEvents
  <2>1. Unsent' = Unsent /\ UNCHANGED earlier BY <1>5, <1>7
  <2>2. Ordered' BY <2>1, SameOrder
  <2>3. QED BY <1>1, <1>2, <1>3, <1>5, <1>6, <2>1, <2>2, RowsKept
<1>8. CASE r.at \notin HasEvents
  <2>1. Unsent' = Unsent \ {p} /\ Ends({p}) BY <1>5, <1>8
  <2>2. Ordered' BY <1>1, <2>1, EndOrdered
  <2>3. \A q \in Requests : earlier'[q] \subseteq earlier[q] BY <2>1 DEF Ends
  <2>4. QED BY <1>1, <1>2, <1>3, <1>5, <1>6, <2>2, <2>3, RowsKept
<1>9. QED BY <1>7, <1>8

LEMMA DisconnectShape ==
    ASSUME Shape, NEW o \in Operators, Disconnect(o)
    PROVE  Shape'
<1> USE DEF Shape
<1> DEFINE B == Bootstrapping(o)
<1>1. ASSUME NEW q \in Requests
      PROVE  /\ request'[q] \in RequestState /\ ShapeOf(request[q])'
             /\ q \in B => request'[q] = Idle
             /\ q \notin B => request'[q] = request[q]
  <2>1. request[q] \in RequestState /\ ShapeOf(request[q]) BY DEF Typed, WellFormed
  <2>2. CASE q \in B
    <3>1. request'[q] = Idle BY <2>2 DEF Disconnect
    <3>2. QED BY <2>2, <3>1, IdleTyped DEF ShapeOf, Idle
  <2>3. CASE q \notin B
    <3>1. request'[q] = request[q] BY <2>3 DEF Disconnect
    <3>2. request[q].kind = "bootstrap" => request[q].op # o BY <2>3 DEF Bootstrapping
    <3>3. online' = online \ {o} /\ listening' = listening \ {o} BY DEF Disconnect, Leave
    <3>4. ShapeOf(request[q])' BY <2>1, <3>1, <3>2, <3>3 DEF ShapeOf
    <3>5. QED BY <2>1, <2>3, <3>1, <3>4
  <2>4. QED BY <2>2, <2>3
<1>2. request' \in [Requests -> RequestState]
  <2>1. request' = [q \in Requests |-> request'[q]] BY DEF Disconnect
  <2>2. QED BY <1>1, <2>1
<1>3. Typed' BY <1>2 DEF Disconnect, Leave, Typed, rows
<1>4. WellFormed' BY <1>1 DEF WellFormed, Idle
<1>5. Joined'
  <2>1. SUFFICES ASSUME NEW x \in online' \ listening', x \notin unbriefed'
                 PROVE  \E q \in Bootstrapping(x)' : request'[q].at = "join"
    BY DEF Joined
  <2>2. x # o /\ x \in online \ listening /\ x \notin unbriefed BY <2>1 DEF Disconnect, Leave
  <2>3. PICK q \in Bootstrapping(x) : request[q].at = "join" BY <2>2 DEF Joined
  <2>4. q \in Requests /\ q \notin B BY <2>2, <2>3 DEF Bootstrapping
  <2>5. QED BY <1>1, <2>3, <2>4 DEF Bootstrapping
<1>6. Unsent' = Unsent \ B BY <1>1 DEF Unsent, Idle, Bootstrapping
<1>7. B \in SUBSET Requests BY DEF Bootstrapping
<1>8. Ordered' BY <1>6, <1>7, EndOrdered DEF Disconnect
<1>9. AbsentUnassigned' BY RowsKept DEF Disconnect
<1>10. QED BY <1>3, <1>4, <1>5, <1>8, <1>9

\* A bootstrap gives up: its operator is marked.
LEMMA FailShape ==
    ASSUME Shape, NEW p \in Requests, BootstrapFails(p)
    PROVE  /\ Shape'
           /\ request[p].kind = "bootstrap" /\ request[p].op \in online
           /\ request'[p] = Idle
           /\ \A q \in Requests \ {p} : request'[q] = request[q]
           /\ \A q \in Requests : earlier'[q] \subseteq earlier[q]
<1> USE DEF Shape
<1>1. Becomes(p, Idle) BY FailsBecomes
<1>2. /\ request[p].kind = "bootstrap" /\ request[p].op \in online /\ request[p].op \in Operators
  BY DEF BootstrapFails, WellFormed, ShapeOf, Typed
<1>3. /\ misled' = misled \cup {request[p].op} /\ unbriefed' = unbriefed \cup {request[p].op}
      /\ Ends({p})
      /\ UNCHANGED <<rows, online, listening, mine, offered, withheld, muddled>>
  BY DEF BootstrapFails
<1>4. ShapeOf(Idle)' /\ Idle.kind # "bootstrap" /\ Idle.at \notin HasEvents
  BY DEF ShapeOf, Idle, HasEvents
<1>5. WellFormed' /\ Joined' /\ Unsent' = Unsent \ {p} BY <1>1, <1>2, <1>3, <1>4, OneMoves
<1>6. Ordered' BY <1>3, <1>5, EndOrdered
<1>7. Typed' BY <1>1, <1>2, <1>3, BecomesFacts DEF Typed, rows
<1>8. AbsentUnassigned' BY <1>3, RowsKept
<1>9. \A q \in Requests : earlier'[q] \subseteq earlier[q] BY <1>3 DEF Ends
<1>10. QED BY <1>1, <1>2, <1>5, <1>6, <1>7, <1>8, <1>9, BecomesFacts DEF Typed

LEMMA RestartShape ==
    ASSUME Shape, Restart
    PROVE  Shape' /\ online' = {}
<1> USE DEF Shape
<1>1. online' = {} /\ listening' = {} BY DEF Restart, Leave, Typed
<1>2. Typed' BY <1>1, IdleTyped DEF Restart, Leave, Typed, rows
<1>3. \A q \in Requests : request'[q] = Idle BY DEF Restart
<1>4. WellFormed' BY <1>3 DEF WellFormed, ShapeOf, Idle
<1>5. Joined' BY <1>1 DEF Joined
<1>6. Unsent' = {} BY <1>3 DEF Unsent, Idle
<1>7. Ordered' BY <1>6 DEF Ordered, Restart
<1>8. AbsentUnassigned' BY RowsKept DEF Restart
<1>9. QED BY <1>1, <1>2, <1>4, <1>5, <1>7, <1>8

-----------------------------------------------------------------------------
(* Everybody stays informed.                                               *)

AllInformed == \A o \in online : Reading(o) \/ Informed(o)

AllTrue == \A o \in Operators : NewsTrue(o)

LEMMA IsFreeKept == UNCHANGED rows => Holder' = Holder /\ (IsFree' <=> IsFree)
BY DEF rows, Holder, IsFree

\* A request without events becomes another one without.
LEMMA NoEventsInformed ==
    ASSUME request \in [Requests -> RequestState], NEW p \in Requests \ Unsent, NEW r, Becomes(p, r),
           r.at \notin HasEvents,
           UNCHANGED <<rows, earlier, mine, offered, withheld, misled, muddled, unbriefed>>,
           NEW o, Informed(o)
    PROVE  Informed(o)'
<1>1. request'[p] = r /\ \A q \in Requests \ {p} : request'[q] = request[q] BY BecomesFacts
<1>2. request[p].at \notin HasEvents BY DEF Unsent, HasEvents
<1>3. PersonalNews(o)' = PersonalNews(o) /\ p \notin PersonalNews(o)
  BY <1>1, <1>2 DEF PersonalNews, Connecting, HasEvents
<1>4. PublicNews(o)' = PublicNews(o) /\ p \notin PublicNews(o)
  BY <1>1, <1>2 DEF PublicNews, Connecting, HasEvents
<1>5. Holder' = Holder /\ (IsFree' <=> IsFree) BY IsFreeKept
<1>6. \A q \in Requests \ {p} : PersonalTrue(request[q], o) => PersonalTrue(request[q], o)'
  BY <1>1, <1>5 DEF PersonalTrue
<1>7. \A q \in Requests \ {p} : PublicTrue(request[q], o) => PublicTrue(request[q], o)'
  BY <1>1, <1>5 DEF PublicTrue
<1>8. PersonalNews(o) \subseteq Requests /\ PublicNews(o) \subseteq Requests BY DEF PersonalNews, PublicNews
<1>9. OwnNewsComes(o)' /\ OwnNewsCame(o)' BY <1>3, <1>5, <1>6, <1>8, OwnNewsStays DEF Informed
<1>10. OfferComes(o)' /\ OfferCame(o)' BY <1>4, <1>5, <1>7, <1>8, OfferStays DEF Informed
<1>11. QED BY <1>9, <1>10 DEF Informed

LEMMA EarlyInformed ==
    ASSUME Shape, AllInformed, NEW p \in Requests,
           \/ \E kind \in Kinds, o \in Operators \cup {NoOperator} : Receive(p, kind, o)
           \/ Refuse(p) \/ \E o \in Operators : Connect(p, o)
           \/ JoinOnShift(p)
    PROVE  AllInformed'
<1> USE DEF Shape
<1>1. SUFFICES ASSUME NEW r, Becomes(p, r), r.at \notin HasEvents,
                      request[p].at \in {"idle", "write", "join"},
                      UNCHANGED <<rows, earlier, mine, offered, withheld, misled, muddled, unbriefed>>,
                      \A o \in online' : o \in online \/ (r.at = "join" /\ r.kind = "bootstrap" /\ r.op = o),
                      request[p].at = "join" => /\ r.at = "readMine" /\ r.kind = request[p].kind
                                                /\ r.op = request[p].op
               PROVE  AllInformed'
  <2>1. ASSUME NEW kind \in Kinds, NEW o \in Operators \cup {NoOperator}, Receive(p, kind, o)
        PROVE  AllInformed'
    <3>1. PICK r : Becomes(p, r) /\ r.at = "write" BY <2>1, ReceiveBecomes
    <3>2. request[p] = Idle BY <2>1 DEF Receive
    <3>3. request[p].at = "idle" BY <3>2 DEF Idle
    <3>4. UNCHANGED <<rows, earlier, apps>> BY <2>1 DEF Receive
    <3>5. QED BY <1>1, <3>1, <3>3, <3>4 DEF apps, HasEvents
  <2>2. CASE Refuse(p) BY <1>1, <2>2, RefuseBecomes DEF Refuse, Idle, apps, HasEvents
  <2>3. ASSUME NEW o \in Operators, Connect(p, o) PROVE AllInformed'
    <3>1. PICK r : Becomes(p, r) /\ r.at = "join" /\ r.kind = "bootstrap" /\ r.op = o
      BY <2>3, ConnectBecomes
    <3>2. request[p] = Idle BY <2>3 DEF Connect
    <3>3. request[p].at = "idle" BY <3>2 DEF Idle
    <3>4. QED BY <1>1, <2>3, <3>1, <3>3 DEF Connect, HasEvents
  <2>4. CASE JoinOnShift(p)
    <3>1. PICK r : /\ Becomes(p, r)
                   /\ r.at = "readMine" /\ r.kind = request[p].kind /\ r.op = request[p].op
      BY <2>4, JoinBecomes
    <3>2. QED BY <1>1, <2>4, <3>1 DEF JoinOnShift, HasEvents
  <2>5. QED BY <2>1, <2>2, <2>3, <2>4
<1>2. p \in Requests \ Unsent BY <1>1 DEF Unsent
<1>3. request'[p] = r /\ \A q \in Requests \ {p} : request'[q] = request[q]
  BY <1>1, BecomesFacts DEF Typed
<1>4. ShapeOf(request[p]) BY DEF WellFormed
<1>5. ASSUME NEW o \in online', ~Reading(o)' PROVE Informed(o)'
  <2>1. o \in online
    <3>1. SUFFICES ASSUME r.at = "join", r.kind = "bootstrap", r.op = o PROVE FALSE BY <1>1
    <3>2. QED BY <1>3, <1>5, <3>1 DEF Reading, Bootstrapping
  <2>2. ~Reading(o)
    <3>1. SUFFICES ASSUME NEW q \in Bootstrapping(o), request[q].at \in {"join", "readMine"} PROVE FALSE
      BY DEF Reading
    <3>2. q \in Requests /\ request'[q].kind = "bootstrap" /\ request'[q].op = o
          /\ request'[q].at \in {"join", "readMine"}
      BY <1>1, <1>3, <1>4, <3>1 DEF Bootstrapping, ShapeOf
    <3>3. QED BY <1>5, <3>2 DEF Reading, Bootstrapping
  <2>3. Informed(o) BY <2>1, <2>2 DEF AllInformed
  <2>4. QED BY <1>1, <1>2, <2>3, NoEventsInformed DEF Typed
<1>6. QED BY <1>5 DEF AllInformed

\* The row a commit leaves, against what its events will say.
LEMMA WriteIsNews ==
    ASSUME Shape, Shape', NEW p \in Requests, Write(p), NEW r, Becomes(p, r),
           r.at = "tell", r.kind = request[p].kind,
           r.to = SessionRooms(request[p]),
           r.holder = IF StatusAfter(r.kind) \in OpenAssigned
                      THEN AssigneeAfter(request[p]) ELSE NoOperator,
           r.lost = IF Holder \in {r.holder, request[p].prev} THEN NoOperator ELSE Holder,
           NEW o \in Operators
    PROVE  /\ \/ p \in PersonalNews(o)' /\ PersonalTrue(request[p], o)'
              \/ p \notin PersonalNews(o)' /\ (Holder' = o <=> Holder = o)
           /\ \/ p \in PublicNews(o)' /\ PublicTrue(request[p], o)'
              \/ p \notin PublicNews(o)' /\ (IsFree' <=> IsFree)
           /\ p \in PersonalNews(o)' <=> p \in Tells(o)'
           /\ p \in PublicNews(o)' <=> p \in PoolNews'
<1> USE DEF Shape
<1>1. request'[p] = r BY BecomesFacts DEF Typed
<1>2. request[p] \in RequestState /\ request[p].kind \in Kinds
  BY DEF Typed, Write, WellFormed, ShapeOf
<1>3. Holder' = r.holder BY DEF Holder, Write
<1>4. p \in PersonalNews(o)' <=> o \in r.to \/ o = r.lost BY <1>1 DEF PersonalNews, Connecting
<1>5. \/ p \in PersonalNews(o)' /\ PersonalTrue(request[p], o)'
      \/ p \notin PersonalNews(o)' /\ (Holder' = o <=> Holder = o)
  <2>1. CASE o \in r.to BY <1>1, <1>3, <1>4, <2>1 DEF PersonalTrue
  <2>2. CASE o \notin r.to /\ o = r.lost BY <1>1, <1>4, <2>2 DEF PersonalTrue
  <2>3. CASE o \notin r.to /\ o # r.lost
    <3>1. Holder' # o BY <1>3, <2>3, NullAssumption DEF SessionRooms
    <3>2. request[p].prev # o BY <2>3 DEF SessionRooms
    <3>3. Holder # o BY <1>3, <2>3, <3>1, <3>2
    <3>4. QED BY <1>4, <2>3, <3>1, <3>3
  <2>4. QED BY <2>1, <2>2, <2>3
<1>6. p \in PublicNews(o)' <=> r.kind \in Removing \cup Returning
  BY <1>1 DEF PublicNews, Connecting
<1>7. r.kind \in Removing => ~IsFree'
  BY NullAssumption DEF Removing, ClosingKinds, GivingKinds, FreeingKinds, IsFree, Write, StatusAfter
<1>8. r.kind \in Returning => IsFree'
  <2>1. SUFFICES ASSUME request[p].kind \in {"unassign", "reclaim"} PROVE IsFree'
    BY DEF Returning
  <2>2. StatusAfter(request[p].kind) = "NEW" BY <2>1 DEF StatusAfter, GivingKinds, FreeingKinds, ClosingKinds
  <2>3. AssigneeAfter(request[p]) = NoOperator BY <2>1 DEF AssigneeAfter, GivingKinds, FreeingKinds
  <2>4. QED BY <2>2, <2>3 DEF Write, IsFree
<1>9. r.kind \notin Removing \cup Returning => (IsFree' <=> IsFree)
  <2>1. SUFFICES ASSUME r.kind \in {"reassign", "startProgress", "location"} PROVE IsFree' <=> IsFree
    BY <1>2 DEF Kinds, GivingKinds, FreeingKinds, ClosingKinds, KeepingKinds, Removing, Returning
  <2>2. CASE r.kind = "reassign"
    BY <2>2 DEF Write, Where, StatusAfter, GivingKinds, FreeingKinds, ClosingKinds, IsFree
  <2>3. CASE r.kind = "startProgress"
    BY <2>3 DEF Write, Where, StatusAfter, GivingKinds, FreeingKinds, ClosingKinds, IsFree
  <2>4. CASE r.kind = "location"
    BY <2>4 DEF Write, Where, StatusAfter, AssigneeAfter, GivingKinds, FreeingKinds, ClosingKinds, IsFree
  <2>5. QED BY <2>1, <2>2, <2>3, <2>4
<1>10. \/ p \in PublicNews(o)' /\ PublicTrue(request[p], o)'
       \/ p \notin PublicNews(o)' /\ (IsFree' <=> IsFree)
  BY <1>1, <1>6, <1>7, <1>8, <1>9 DEF PublicTrue
<1>11. p \in PersonalNews(o)' <=> p \in Tells(o)' BY <1>1, <1>4 DEF Tells
<1>12. p \in PublicNews(o)' <=> p \in PoolNews' BY <1>1, <1>6 DEF PoolNews
<1>13. QED BY <1>5, <1>10, <1>11, <1>12

\* A commit that is no bootstrap's.
LEMMA CommitKeepsInformed ==
    ASSUME Shape, NEW p \in Requests \ Unsent, NEW r, Becomes(p, r), Commits(p), UNCHANGED apps,
           NEW o, Informed(o),
           \/ p \in PersonalNews(o)' /\ PersonalTrue(request[p], o)'
           \/ p \notin PersonalNews(o)' /\ (Holder' = o <=> Holder = o),
           \/ p \in PublicNews(o)' /\ PublicTrue(request[p], o)'
           \/ p \notin PublicNews(o)' /\ (IsFree' <=> IsFree)
    PROVE  Informed(o)'
<1>1. Ordered /\ \A q \in Requests \ {p} : request'[q] = request[q]
  BY BecomesFacts DEF Shape, Typed
<1>2. OwnNewsComes(o)' /\ OwnNewsCame(o)' BY <1>1, OwnNewsAdded DEF Informed, apps
<1>3. OfferComes(o)' /\ OfferCame(o)' BY <1>1, OfferAdded DEF Informed, apps
<1>4. QED BY <1>2, <1>3 DEF Informed

LEMMA CommitInformed ==
    ASSUME Shape, AllInformed, NEW p \in Requests, Write(p) \/ Raise(p) \/ ReadMine(p)
    PROVE  AllInformed'
<1> USE DEF Shape
<1>1. Shape' /\ p \in Requests \ Unsent /\ UNCHANGED apps /\ Commits(p)
  BY CommitShape DEF Write, Raise, ReadMine
<1>2. online' = online /\ online \subseteq Operators BY <1>1 DEF apps, Typed
<1>3. ASSUME Write(p) \/ Raise(p), NEW o \in online', ~Reading(o)'
      PROVE  Informed(o)'
  <2>1. PICK r : /\ Becomes(p, r)
                 /\ \/ p \in PersonalNews(o)' /\ PersonalTrue(request[p], o)'
                    \/ p \notin PersonalNews(o)' /\ (Holder' = o <=> Holder = o)
                 /\ \/ p \in PublicNews(o)' /\ PublicTrue(request[p], o)'
                    \/ p \notin PublicNews(o)' /\ (IsFree' <=> IsFree)
    <3>1. CASE Write(p)
      <4>1. PICK r : /\ Becomes(p, r)
                     /\ r.at = "tell" /\ r.kind = request[p].kind
                     /\ r.to = SessionRooms(request[p])
                     /\ r.holder = IF StatusAfter(r.kind) \in OpenAssigned
                                   THEN AssigneeAfter(request[p]) ELSE NoOperator
                     /\ r.lost = IF Holder \in {r.holder, request[p].prev} THEN NoOperator ELSE Holder
        BY <3>1, WriteBecomes
      <4>2. o \in Operators BY <1>2
      <4>3. QED BY <1>1, <3>1, <4>1, <4>2, WriteIsNews
    <3>2. CASE Raise(p)
      <4>1. PICK r : Becomes(p, r) /\ r.at = "askBusy" /\ r.kind = "raise" BY <3>2, RaiseBecomes
      <4>2. request'[p] = r BY <4>1, BecomesFacts DEF Typed
      <4>3. p \notin PersonalNews(o)' BY <4>1, <4>2 DEF PersonalNews, Connecting
      <4>4. Holder' = Holder BY <3>2 DEF Raise, Holder, OpenAssigned
      <4>5. p \in PublicNews(o)' BY <4>1, <4>2 DEF PublicNews
      <4>6. PublicTrue(request[p], o)' BY <3>2, <4>1, <4>2 DEF PublicTrue, Raise, IsFree, AbsentUnassigned
      <4>7. QED BY <4>1, <4>3, <4>4, <4>5, <4>6
    <3>3. QED BY <1>3, <3>1, <3>2
  <2>2. \A q \in Requests \ {p} : request'[q] = request[q] BY <2>1, BecomesFacts DEF Typed
  <2>3. request[p].at \notin {"join", "readMine"} /\ o \in online
    BY <1>2, <1>3 DEF Write, Raise, Idle
  <2>4. ~Reading(o)
    BY <1>3, <2>2, <2>3 DEF Reading, Bootstrapping
  <2>5. Informed(o) BY <2>3, <2>4 DEF AllInformed
  <2>6. QED BY <1>1, <2>1, <2>5, CommitKeepsInformed
<1>4. ASSUME ReadMine(p), NEW o \in online', ~Reading(o)'
      PROVE  Informed(o)'
  <2>1. PICK r : /\ Becomes(p, r)
                 /\ r.kind = request[p].kind /\ r.op = request[p].op /\ r.holder = Holder
                 /\ \/ r.at = "readPool"
                    \/ r.at = "snapshot" /\ r.busy = {r.op} /\ ~r.free
    BY <1>4, ReadMineBecomes
  <2>2. request'[p] = r /\ \A q \in Requests \ {p} : request'[q] = request[q]
    BY <2>1, BecomesFacts DEF Typed
  <2>3. request[p].at = "readMine" /\ UNCHANGED rows BY <1>4 DEF ReadMine
  <2>4. Holder' = Holder /\ (IsFree' <=> IsFree) BY <2>3, IsFreeKept
  <2>5. CASE r.op = o
    <3>1. p \in PersonalNews(o)' /\ p \in PublicNews(o)'
      BY <2>1, <2>2, <2>5 DEF PersonalNews, PublicNews, Connecting
    <3>2. PersonalTrue(request[p], o)' BY <2>1, <2>2, <2>4 DEF PersonalTrue
    <3>3. PublicTrue(request[p], o)' BY <2>1, <2>2, <2>5 DEF PublicTrue
    <3>4. OwnNewsComes(o)' /\ OwnNewsCame(o)' BY <1>1, <2>2, <3>1, <3>2, OwnNewsAdded DEF apps
    <3>5. OfferComes(o)' /\ OfferCame(o)' BY <1>1, <2>2, <3>1, <3>3, OfferAdded DEF apps
    <3>6. QED BY <3>4, <3>5 DEF Informed
  <2>6. CASE r.op # o
    <3>1. p \notin PersonalNews(o)' /\ p \notin PublicNews(o)'
      BY <2>1, <2>2, <2>6 DEF PersonalNews, PublicNews, Connecting
    <3>2. ~Reading(o)
      <4>1. SUFFICES ASSUME NEW q \in Bootstrapping(o), request[q].at \in {"join", "readMine"} PROVE FALSE
        BY DEF Reading
      <4>2. q \in Requests \ {p} BY <2>1, <2>6, <4>1 DEF Bootstrapping
      <4>3. QED BY <1>4, <2>2, <4>1, <4>2 DEF Reading, Bootstrapping
    <3>3. Informed(o) BY <1>2, <1>4, <3>2 DEF AllInformed
    <3>4. QED BY <1>1, <2>1, <2>4, <3>1, <3>3, CommitKeepsInformed
  <2>7. QED BY <2>5, <2>6
<1>5. QED BY <1>3, <1>4 DEF AllInformed

\* Who had not read has still not.
LEMMA ReadingKept ==
    ASSUME NEW p \in Unsent, \A q \in Requests \ {p} : Later(q), NEW o, Reading(o)
    PROVE  Reading(o)'
<1>1. PICK q \in Bootstrapping(o) : request[q].at \in {"join", "readMine"} BY DEF Reading
<1>2. q \in Requests \ {p} BY <1>1 DEF Bootstrapping, Unsent
<1>3. Later(q) BY <1>2
<1>4. QED BY <1>1, <1>2, <1>3 DEF Reading, Bootstrapping, Later

LEMMA Listens ==
    ASSUME Joined, NEW o \in online, ~Reading(o)
    PROVE  o \in listening \cup unbriefed
BY DEF Joined, Reading

LEMMA QueryInformed ==
    ASSUME Shape, AllInformed, NEW p \in Requests, AskBusy(p) \/ ReadPool(p)
    PROVE  AllInformed'
<1> USE DEF Shape
<1>1. UNCHANGED <<rows, earlier, apps>> BY DEF AskBusy, ReadPool
<1>2. Holder' = Holder /\ (IsFree' <=> IsFree) BY <1>1, IsFreeKept
<1>3. PICK r : /\ Becomes(p, r)
               /\ r.kind = request[p].kind /\ r.overtaken = request[p].overtaken
               /\ \/ request[p].at = "askBusy" /\ r.at = "offer"
                  \/ /\ request[p].at = "readPool" /\ r.at = "snapshot" /\ r.op = request[p].op
                     /\ r.holder = request[p].holder /\ (r.free <=> IsFree)
  <2>1. CASE AskBusy(p) BY <2>1, AskBusyBecomes DEF AskBusy
  <2>2. CASE ReadPool(p) BY <2>2, ReadPoolBecomes DEF ReadPool
  <2>3. QED BY <2>1, <2>2
<1>4. request'[p] = r /\ \A q \in Requests \ {p} : request'[q] = request[q]
  BY <1>3, BecomesFacts DEF Typed
<1>5. ASSUME NEW o \in online', ~Reading(o)' PROVE Informed(o)'
  <2>1. o \in online BY <1>1 DEF apps
  <2>2. p \in Unsent BY <1>3 DEF Unsent
  <2>3. ~Reading(o) BY <1>4, <1>5, <2>2 DEF Reading, Bootstrapping, Unsent
  <2>4. Informed(o) BY <2>1, <2>3 DEF AllInformed
  <2>5. PersonalNews(o)' = PersonalNews(o) BY <1>3, <1>4 DEF PersonalNews, Connecting
  <2>6. PublicNews(o)' = PublicNews(o) BY <1>3, <1>4 DEF PublicNews, Connecting
  <2>7. ASSUME NEW q \in Requests, PersonalTrue(request[q], o), q \in PersonalNews(o)
        PROVE  PersonalTrue(request[q], o)'
    <3>1. CASE q # p BY <1>2, <1>4, <2>7, <3>1 DEF PersonalTrue
    <3>2. CASE q = p BY <1>2, <1>3, <1>4, <2>7, <3>2 DEF PersonalTrue, PersonalNews, Connecting
    <3>3. QED BY <3>1, <3>2
  <2>8. ASSUME NEW q \in Requests, PublicTrue(request[q], o)
        PROVE  PublicTrue(request[q], o)'
    <3>1. CASE q # p BY <1>2, <1>4, <2>8, <3>1 DEF PublicTrue
    <3>2. CASE q = p BY <1>2, <1>3, <1>4, <2>8, <3>2 DEF PublicTrue
    <3>3. QED BY <3>1, <3>2
  <2>9. PersonalNews(o) \subseteq Requests /\ PublicNews(o) \subseteq Requests
    BY DEF PersonalNews, PublicNews
  <2>10. OwnNewsComes(o)' /\ OwnNewsCame(o)'
    BY <1>1, <1>2, <2>4, <2>5, <2>7, <2>9, OwnNewsStays DEF Informed, apps
  <2>11. OfferComes(o)' /\ OfferCame(o)'
    BY <1>1, <1>2, <2>4, <2>6, <2>8, <2>9, OfferStays DEF Informed, apps
  <2>12. QED BY <2>10, <2>11 DEF Informed
<1>6. QED BY <1>5 DEF AllInformed

LEMMA TellInformed ==
    ASSUME Shape, AllInformed, NEW p \in Requests, Tell(p)
    PROVE  Shape' /\ AllInformed'
<1> USE DEF Shape
<1> DEFINE r == request[p]
           to == r.to \cap online
           missed == ({r.lost} \cap online) \ to
           all == IF r.kind \in Removing THEN listening ELSE {}
           G == Addressed(r)
           next == AfterTell(r)
<1>1. r.at = "tell" /\ p \in Unsent /\ r.kind \in Kinds BY DEF Tell, Unsent, WellFormed, ShapeOf
<1>2. next \in RequestState /\ G \in SUBSET Operators /\ Sends(p, G, next) BY TellSends
<1>3. \/ next.at = "askBusy" /\ next.kind = r.kind /\ next.overtaken = r.overtaken /\ r.kind \in Returning
      \/ next.at = "idle" /\ next.kind = "none" /\ r.kind \notin Returning
  BY DEF AfterTell, Idle
<1>4. ShapeOf(next) BY <1>1, <1>3, KindFacts DEF ShapeOf
<1>5. /\ mine' = (mine \ to) \cup ({r.holder} \cap to)
      /\ misled' = (misled \ to) \cup (r.overtaken \cap to) \cup missed
      /\ offered' = offered \ all
      /\ muddled' = (muddled \ all) \cup (r.overtaken \cap all)
      /\ unbriefed' = unbriefed \ all
      /\ UNCHANGED <<rows, online, listening, withheld>>
      /\ IF r.kind \in Returning THEN UNCHANGED earlier ELSE Ends({p})
  BY DEF Tell
<1>6. /\ Shape'
      /\ request'[p] = next
      /\ \A q \in Requests \ {p} : Later(q)
      /\ \A q \in earlier[p] : q # p /\ G \subseteq request'[q].overtaken
      /\ \A q \in Requests : earlier'[q] \subseteq earlier[q]
  <2>1. IF next.at \in HasEvents THEN UNCHANGED earlier ELSE Ends({p}) BY <1>3, <1>5 DEF HasEvents
  <2>2. to \subseteq online /\ missed \subseteq online /\ all \subseteq listening OBVIOUS
  <2>3. next.kind # "bootstrap" BY <1>1, <1>3, KindFacts
  <2> HIDE DEF r, to, missed, all, G, next
  <2>4. /\ mine' \subseteq online /\ offered' \subseteq listening /\ withheld' \subseteq Operators
        /\ misled' \subseteq online /\ muddled' \subseteq listening
        /\ unbriefed' \subseteq online /\ unbriefed \ listening \subseteq unbriefed'
    BY <1>5, <2>2 DEF Typed
  <2>5. QED BY <1>1, <1>2, <1>4, <1>5, <2>1, <2>3, <2>4, SendShape
<1>7. to \cup missed \subseteq G /\ (r.kind \in Removing => G = Operators)
  BY <1>2 DEF Addressed, Typed
<1> HIDE DEF r, to, missed, all, G, next
<1>8. ASSUME NEW o \in online', ~Reading(o)' PROVE Informed(o)'
  <2>1. /\ o \in online /\ ~Reading(o) /\ o \in listening \cup unbriefed /\ Informed(o)
        /\ o \in Operators /\ offered \subseteq listening
    <3>1. o \in online /\ ~Reading(o) BY <1>1, <1>5, <1>6, <1>8, ReadingKept
    <3>2. QED BY <3>1, Listens DEF AllInformed, Typed
  <2>2. p \notin PersonalNews(o)' BY <1>3, <1>6 DEF PersonalNews, Connecting
  <2>3. p \in PersonalNews(o) <=> o \in to \cup missed
    BY <1>1, <2>1 DEF PersonalNews, Connecting, to, missed, r
  <2>4. OwnNewsComes(o)' /\ OwnNewsCame(o)'
    <3>1. CASE o \in to \cup missed
      <4>1. \A q \in earlier[p] : o \in request'[q].overtaken BY <1>6, <1>7, <3>1
      <4>2. PersonalTrue(request[p], o) => o \in misled' \/ (o \in mine' <=> Holder = o)
        <5>1. CASE o \in to
          <6>1. o \in r.to BY <5>1 DEF to
          <6>2. PersonalTrue(r, o) => o \in r.overtaken \/ (r.holder = o <=> Holder = o)
            BY <6>1 DEF PersonalTrue
          <6>3. o \in mine' <=> r.holder = o BY <1>5, <5>1
          <6>4. o \in r.overtaken => o \in misled' BY <1>5, <5>1
          <6>5. QED BY <6>2, <6>3, <6>4 DEF r
        <5>2. CASE o \in missed BY <1>5, <5>2
        <5>3. QED BY <3>1, <5>1, <5>2
      <4>3. QED BY <1>1, <1>5, <1>6, <2>1, <2>2, <2>3, <3>1, <4>1, <4>2, OwnNewsSent DEF Informed
    <3>2. CASE o \notin to \cup missed
      <4>1. (o \in mine' <=> o \in mine) /\ (o \in misled' <=> o \in misled) BY <1>5, <3>2
      <4>2. QED BY <1>1, <1>5, <1>6, <2>1, <2>2, <2>3, <3>2, <4>1, OwnNewsSent DEF Informed
    <3>3. QED BY <3>1, <3>2
  <2>5. OfferComes(o)' /\ OfferCame(o)'
    <3>1. CASE r.kind \in Removing
      <4>1. p \in PublicNews(o) BY <1>1, <3>1 DEF PublicNews, r
      <4>2. p \notin PublicNews(o)'
        BY <1>3, <1>6, <3>1, KindFacts DEF PublicNews, Connecting
      <4>3. all = listening BY <3>1 DEF all
      <4>4. \A q \in earlier[p] : o \in request'[q].overtaken BY <1>6, <1>7, <2>1, <3>1
      <4>5. PublicTrue(request[p], o) => o \in r.overtaken \/ ~IsFree
        BY <1>1, <3>1, KindFacts DEF PublicTrue, r
      <4>6. o \notin offered' /\ (o \in r.overtaken => o \in muddled' \cup unbriefed')
        BY <1>5, <2>1, <4>3
      <4>7. QED BY <1>1, <1>5, <1>6, <2>1, <4>1, <4>2, <4>4, <4>5, <4>6, OfferSent DEF Informed
    <3>2. CASE r.kind \in Returning
      <4>1. all = {} BY <3>2, KindFacts DEF all
      <4>2. offered' = offered /\ muddled' = muddled /\ unbriefed' = unbriefed BY <1>5, <4>1
      <4>3. PublicNews(o)' = PublicNews(o)
        BY <1>1, <1>3, <1>6, <3>2 DEF PublicNews, Connecting, Later, r
      <4>4. Holder' = Holder /\ (IsFree' <=> IsFree) BY <1>5, IsFreeKept
      <4>5. ASSUME NEW q \in Requests, PublicTrue(request[q], o) PROVE PublicTrue(request[q], o)'
        <5>1. CASE q # p
          <6>1. Later(q) BY <1>6, <5>1
          <6>2. QED BY <4>4, <4>5, <6>1 DEF PublicTrue, Later
        <5>2. CASE q = p BY <1>1, <1>3, <1>6, <3>2, <4>4, <4>5, <5>2, KindFacts DEF PublicTrue, r
        <5>3. QED BY <5>1, <5>2
      <4>6. PublicNews(o) \subseteq Requests BY DEF PublicNews
      <4>7. QED BY <1>5, <1>6, <2>1, <4>2, <4>3, <4>4, <4>5, <4>6, OfferStays DEF Informed
    <3>3. CASE r.kind \notin Removing \cup Returning
      <4>1. all = {} BY <3>3 DEF all
      <4>2. offered' = offered /\ muddled' = muddled /\ unbriefed' = unbriefed BY <1>5, <4>1
      <4>3. p \notin PublicNews(o) BY <1>1, <3>3 DEF PublicNews, Connecting, r
      <4>4. p \notin PublicNews(o)' BY <1>3, <1>6, <3>3 DEF PublicNews, Connecting
      <4>5. QED BY <1>1, <1>5, <1>6, <2>1, <4>2, <4>3, <4>4, OfferSent DEF Informed
    <3>4. QED BY <3>1, <3>2, <3>3
  <2>6. QED BY <2>4, <2>5 DEF Informed
<1>9. QED BY <1>6, <1>8 DEF AllInformed

LEMMA OfferInformed ==
    ASSUME Shape, AllInformed, NEW p \in Requests, Offer(p)
    PROVE  Shape' /\ AllInformed'
<1> USE DEF Shape
<1> DEFINE r == request[p]
<1>1. /\ r.at = "offer" /\ p \in Unsent /\ r \in RequestState /\ r.kind \in Returning \cup {"raise"}
      /\ r.kind # "bootstrap"
  BY KindFacts DEF Offer, Unsent, WellFormed, ShapeOf, Typed
<1>2. /\ offered' = offered \cup (listening \ r.busy)
      /\ withheld' = (withheld \ listening) \cup (listening \cap r.busy)
      /\ muddled' = (muddled \ listening) \cup (r.overtaken \cap listening)
      /\ unbriefed' = unbriefed \ listening
      /\ Sends(p, Operators, Idle) /\ Ends({p})
      /\ UNCHANGED <<rows, online, listening, mine, misled>>
  BY DEF Offer
<1>3. ShapeOf(Idle) /\ Idle.at \notin HasEvents /\ Idle.kind # "bootstrap"
  BY DEF ShapeOf, Idle, HasEvents
<1> HIDE DEF r
<1>4. /\ mine' \subseteq online /\ offered' \subseteq listening /\ withheld' \subseteq Operators
      /\ misled' \subseteq online /\ muddled' \subseteq listening
      /\ unbriefed' \subseteq online /\ unbriefed \ listening \subseteq unbriefed'
  BY <1>2 DEF Typed
<1>5. /\ Shape'
      /\ request'[p] = Idle
      /\ \A q \in Requests \ {p} : Later(q)
      /\ \A q \in earlier[p] : q # p /\ Operators \subseteq request'[q].overtaken
      /\ \A q \in Requests : earlier'[q] \subseteq earlier[q]
  BY <1>1, <1>2, <1>3, <1>4, IdleTyped, SendShape
<1>6. ASSUME NEW o \in online', ~Reading(o)' PROVE Informed(o)'
  <2>1. /\ o \in online /\ ~Reading(o) /\ o \in listening \cup unbriefed /\ Informed(o)
        /\ o \in Operators /\ offered \subseteq listening
    <3>1. o \in online /\ ~Reading(o) BY <1>1, <1>2, <1>5, <1>6, ReadingKept
    <3>2. QED BY <3>1, Listens DEF AllInformed, Typed
  <2>2. p \notin PersonalNews(o)' /\ p \notin PublicNews(o)'
    BY <1>5 DEF PersonalNews, PublicNews, Connecting, Idle
  <2>3. p \notin PersonalNews(o) /\ p \in PublicNews(o)
    BY <1>1 DEF PersonalNews, PublicNews, Connecting, r
  <2>4. OwnNewsComes(o)' /\ OwnNewsCame(o)'
    BY <1>1, <1>2, <1>5, <2>1, <2>2, <2>3, OwnNewsSent DEF Informed
  <2>5. \A q \in earlier[p] : o \in request'[q].overtaken BY <1>5, <2>1
  <2>6. PublicTrue(request[p], o) => o \in r.overtaken \/ IsFree
    BY <1>1, KindFacts DEF PublicTrue, r
  <2>7. /\ o \in offered' \cup withheld' \cup unbriefed'
        /\ o \in r.overtaken => o \in muddled' \/ o \notin offered'
    BY <1>2, <2>1
  <2>8. OfferComes(o)' /\ OfferCame(o)'
    BY <1>1, <1>2, <1>5, <2>1, <2>2, <2>3, <2>5, <2>6, <2>7, OfferSent DEF Informed
  <2>9. QED BY <2>4, <2>8 DEF Informed
<1>7. QED BY <1>5, <1>6 DEF AllInformed

LEMMA SnapshotInformed ==
    ASSUME Shape, AllInformed, NEW p \in Requests, Snapshot(p)
    PROVE  Shape' /\ AllInformed'
<1> USE DEF Shape
<1> DEFINE r == request[p]
           me == {r.op}
<1>1. r.at = "snapshot" /\ p \in Unsent /\ r \in RequestState /\ r.kind = "bootstrap"
      /\ r.op \in online /\ r.op \in listening /\ r.busy \subseteq {r.op}
  BY DEF Snapshot, Unsent, WellFormed, ShapeOf, Typed
<1>2. /\ mine' = (mine \ me) \cup ({r.holder} \cap me)
      /\ offered' = IF r.free THEN offered \cup me ELSE offered \ me
      /\ withheld' = (withheld \ me) \cup r.busy
      /\ misled' = (misled \ me) \cup (r.overtaken \cap me)
      /\ muddled' = (muddled \ me) \cup (r.overtaken \cap me)
      /\ Sends(p, me, Idle) /\ Ends({p})
      /\ UNCHANGED <<rows, online, listening, unbriefed>>
  BY DEF Snapshot
<1>3. ShapeOf(Idle) /\ Idle.at \notin HasEvents /\ Idle.kind # "bootstrap"
  BY DEF ShapeOf, Idle, HasEvents
<1>4. r.busy \subseteq Operators /\ me \subseteq listening /\ me \subseteq online BY <1>1 DEF RequestState
<1> HIDE DEF r, me
<1>5. /\ mine' \subseteq online /\ offered' \subseteq listening /\ withheld' \subseteq Operators
      /\ misled' \subseteq online /\ muddled' \subseteq listening /\ unbriefed' \subseteq online
      /\ unbriefed \ listening \subseteq unbriefed' /\ me \in SUBSET Operators
  BY <1>2, <1>4 DEF Typed
<1>6. /\ Shape'
      /\ request'[p] = Idle
      /\ \A q \in Requests \ {p} : Later(q)
      /\ \A q \in earlier[p] : q # p /\ me \subseteq request'[q].overtaken
      /\ \A q \in Requests : earlier'[q] \subseteq earlier[q]
  BY <1>1, <1>2, <1>3, <1>5, IdleTyped, SendShape
<1>7. ASSUME NEW o \in online', ~Reading(o)' PROVE Informed(o)'
  <2>1. o \in online /\ Informed(o)
    <3>1. o \in online /\ ~Reading(o) BY <1>1, <1>2, <1>6, <1>7, ReadingKept
    <3>2. QED BY <3>1 DEF AllInformed
  <2>2. p \notin PersonalNews(o)' /\ p \notin PublicNews(o)'
    BY <1>6 DEF PersonalNews, PublicNews, Connecting, Idle
  <2>3. CASE r.op = o
    <3>1. p \in PersonalNews(o) /\ p \in PublicNews(o)
      BY <1>1, <2>3 DEF PersonalNews, PublicNews, Connecting, r
    <3>2. \A q \in earlier[p] : o \in request'[q].overtaken BY <1>6, <2>3 DEF me
    <3>3. me = {o} BY <2>3 DEF me
    <3>4. PersonalTrue(request[p], o) => o \in misled' \/ (o \in mine' <=> Holder = o)
      BY <1>1, <1>2, <3>3 DEF PersonalTrue, r
    <3>5. PublicTrue(request[p], o) =>
             \/ o \in muddled'
             \/ (o \in offered' => IsFree) /\ (IsFree => o \in offered' \cup withheld' \cup unbriefed')
      <4>1. PublicTrue(r, o) => \/ o \in r.overtaken
                                \/ (r.free => IsFree) /\ (IsFree => r.free \/ o \in r.busy)
        BY <1>1, KindFacts DEF PublicTrue
      <4>2. (o \in offered' <=> r.free) /\ (o \in r.busy => o \in withheld')
            /\ (o \in r.overtaken => o \in muddled')
        BY <1>2, <3>3
      <4>3. QED BY <4>1, <4>2 DEF r
    <3>6. OwnNewsComes(o)' /\ OwnNewsCame(o)'
      BY <1>1, <1>2, <1>6, <2>1, <2>2, <3>1, <3>2, <3>4, OwnNewsSent DEF Informed
    <3>7. OfferComes(o)' /\ OfferCame(o)'
      BY <1>1, <1>2, <1>6, <2>1, <2>2, <3>1, <3>2, <3>5, OfferSent DEF Informed
    <3>8. QED BY <3>6, <3>7 DEF Informed
  <2>4. CASE r.op # o
    <3>1. p \notin PersonalNews(o) /\ p \notin PublicNews(o)
      BY <1>1, <2>4 DEF PersonalNews, PublicNews, Connecting, r
    <3>2. o \notin me BY <2>4 DEF me
    <3>3. (o \in mine' <=> o \in mine) /\ (o \in misled' <=> o \in misled)
          /\ (o \in offered' <=> o \in offered) /\ (o \in muddled' <=> o \in muddled)
      BY <1>2, <3>2
    <3>4. o \in withheld' <=> o \in withheld BY <1>1, <1>2, <2>4, <3>2
    <3>5. OwnNewsComes(o)' /\ OwnNewsCame(o)'
      BY <1>1, <1>2, <1>6, <2>1, <2>2, <3>1, <3>3, OwnNewsSent DEF Informed
    <3>6. OfferComes(o)' /\ OfferCame(o)'
      BY <1>1, <1>2, <1>6, <2>1, <2>2, <3>1, <3>3, <3>4, OfferSent DEF Informed
    <3>7. QED BY <3>5, <3>6 DEF Informed
  <2>5. QED BY <2>3, <2>4
<1>8. QED BY <1>6, <1>7 DEF AllInformed

\* Who loses the connection concerns nobody else.
LEMMA DisconnectInformed ==
    ASSUME Shape, AllInformed, NEW o \in Operators, Disconnect(o)
    PROVE  AllInformed'
<1> USE DEF Shape
<1> DEFINE B == Bootstrapping(o)
<1>1. /\ online' = online \ {o} /\ mine' = mine \ {o} /\ offered' = offered \ {o}
      /\ withheld' = withheld \ {o} /\ misled' = misled \ {o} /\ muddled' = muddled \ {o}
      /\ unbriefed' = unbriefed \ {o}
      /\ Ends(B) /\ UNCHANGED rows
  BY DEF Disconnect, Leave
<1>2. Holder' = Holder /\ (IsFree' <=> IsFree) BY <1>1, IsFreeKept
<1>3. \A q \in Requests : earlier'[q] \subseteq earlier[q] BY <1>1 DEF Ends
<1>5. \A q \in Requests \ B : request'[q] = request[q] BY DEF Disconnect
<1>6. ASSUME NEW q \in B
      PROVE  /\ request'[q] = Idle /\ q \in Requests /\ request[q].op = o
             /\ request[q].at \in {"join", "readMine", "readPool", "snapshot"}
  BY DEF Disconnect, Bootstrapping, WellFormed, ShapeOf
<1>7. ASSUME NEW x \in online', ~Reading(x)' PROVE Informed(x)'
  <2>1. x # o /\ x \in online BY <1>1
  <2>2. ~Reading(x)
    <3>1. SUFFICES ASSUME NEW q \in Bootstrapping(x), request[q].at \in {"join", "readMine"} PROVE FALSE
      BY DEF Reading
    <3>2. q \in Requests \ B BY <2>1, <3>1 DEF Bootstrapping
    <3>3. QED BY <1>5, <1>7, <3>1, <3>2 DEF Reading, Bootstrapping
  <2>3. Informed(x) BY <2>1, <2>2 DEF AllInformed
  <2>4. ASSUME NEW q \in B
        PROVE  /\ q \notin PersonalNews(x) /\ q \notin PersonalNews(x)'
               /\ q \notin PublicNews(x) /\ q \notin PublicNews(x)'
    <3>1. request'[q].at = "idle" /\ request[q].op # x BY <1>6, <2>1 DEF Idle
    <3>2. QED BY <1>6, <3>1 DEF PersonalNews, PublicNews, Connecting
  <2>5. ASSUME NEW q \in Requests \ B
        PROVE  /\ q \in PersonalNews(x)' <=> q \in PersonalNews(x)
               /\ q \in PublicNews(x)' <=> q \in PublicNews(x)
               /\ PersonalTrue(request[q], x) => PersonalTrue(request[q], x)'
               /\ PublicTrue(request[q], x) => PublicTrue(request[q], x)'
    <3>1. q \in PersonalNews(x)' <=> q \in PersonalNews(x) BY <1>5 DEF PersonalNews, Connecting
    <3>2. q \in PublicNews(x)' <=> q \in PublicNews(x) BY <1>5 DEF PublicNews, Connecting
    <3>3. PersonalTrue(request[q], x) => PersonalTrue(request[q], x)'
      BY <1>2, <1>5, <2>1 DEF PersonalTrue
    <3>4. PublicTrue(request[q], x) => PublicTrue(request[q], x)'
      BY <1>2, <1>5, <2>1 DEF PublicTrue
    <3>5. QED BY <3>1, <3>2, <3>3, <3>4
  <2>6. /\ PersonalNews(x) \subseteq Requests /\ PublicNews(x) \subseteq Requests
        /\ PersonalNews(x)' \subseteq Requests /\ PublicNews(x)' \subseteq Requests
    BY DEF PersonalNews, PublicNews
  <2>7. PersonalNews(x)' = PersonalNews(x) /\ PublicNews(x)' = PublicNews(x)
    BY <2>4, <2>5, <2>6
  <2>8. /\ x \in mine' <=> x \in mine
        /\ x \in offered' <=> x \in offered
        /\ x \in withheld' <=> x \in withheld
        /\ x \in misled' <=> x \in misled
        /\ x \in muddled' <=> x \in muddled
        /\ x \in unbriefed' <=> x \in unbriefed
    BY <1>1, <2>1
  <2>9. OwnNewsComes(x)' /\ OwnNewsCame(x)'
    BY <1>2, <1>3, <2>3, <2>4, <2>5, <2>6, <2>7, <2>8, OwnNewsStays DEF Informed
  <2>10. OfferComes(x)' /\ OfferCame(x)'
    BY <1>2, <1>3, <2>3, <2>4, <2>5, <2>6, <2>7, <2>8, OfferStays DEF Informed
  <2>11. QED BY <2>9, <2>10 DEF Informed
<1>8. QED BY <1>7 DEF AllInformed

\* The failed bootstrap's operator falls back on the other news, which is true.
LEMMA FailInformed ==
    ASSUME Shape, AllInformed, AllTrue, AllTrue', NEW p \in Requests, BootstrapFails(p)
    PROVE  AllInformed'
<1> USE DEF Shape
<1> DEFINE op == request[p].op
<1>1. /\ request[p].kind = "bootstrap" /\ op \in online
      /\ request'[p] = Idle
      /\ \A q \in Requests \ {p} : request'[q] = request[q]
      /\ \A q \in Requests : earlier'[q] \subseteq earlier[q]
      /\ Shape'
  BY FailShape
<1>2. /\ misled' = misled \cup {op} /\ unbriefed' = unbriefed \cup {op}
      /\ UNCHANGED <<rows, online, listening, mine, offered, withheld, muddled>>
      /\ request[p].at \in {"join", "readMine", "readPool"}
  BY DEF BootstrapFails
<1>3. Holder' = Holder /\ (IsFree' <=> IsFree) BY <1>2, IsFreeKept
<1>4. ASSUME NEW o \in online', ~Reading(o)', o = op PROVE Informed(o)'
  <2>1. ASSUME NEW q \in Requests PROVE ~(request'[q].kind = "bootstrap" /\ request'[q].op = o)
    BY <1>1, <1>4, <2>1 DEF WellFormed, Idle
  <2>2. ASSUME NEW q \in Requests PROVE ~Connecting(q, o)' BY <1>1, <2>1 DEF WellFormed, ShapeOf, Connecting
  <2>3. PersonalNews(o)' = Tells(o)' BY <2>2 DEF PersonalNews, Tells
  <2>4. PublicNews(o)' = PoolNews' BY <2>2 DEF PublicNews, PoolNews
  <2>5. NewsTrue(o)' BY <1>1, <1>2, <1>4 DEF AllTrue, Typed
  <2>6. OwnNewsComes(o)' BY <2>3, <2>5 DEF NewsTrue, TellsTrue, OwnNewsComes, Latest
  <2>7. OfferComes(o)' BY <2>4, <2>5 DEF NewsTrue, PoolTrue, OfferComes, Latest
  <2>8. OwnNewsCame(o)' BY <1>2, <1>4 DEF OwnNewsCame
  <2>9. OfferCame(o)' BY <1>2, <1>4, <2>4, <2>5 DEF OfferCame, NewsTrue, NoFalseOffer
  <2>10. QED BY <2>6, <2>7, <2>8, <2>9 DEF Informed
<1>5. ASSUME NEW o \in online', ~Reading(o)', o # op PROVE Informed(o)'
  <2>1. ~Reading(o) BY <1>1, <1>5 DEF Reading, Bootstrapping
  <2>2. Informed(o) BY <1>2, <1>5, <2>1 DEF AllInformed
  <2>3. /\ PersonalNews(o)' = PersonalNews(o) /\ p \notin PersonalNews(o)
        /\ PublicNews(o)' = PublicNews(o) /\ p \notin PublicNews(o)
    BY <1>1, <1>2, <1>5 DEF PersonalNews, PublicNews, Connecting, Idle
  <2>4. PersonalNews(o) \subseteq Requests /\ PublicNews(o) \subseteq Requests
    BY DEF PersonalNews, PublicNews
  <2>5. \A q \in PersonalNews(o) : PersonalTrue(request[q], o) => PersonalTrue(request[q], o)'
    BY <1>1, <1>3, <2>3, <2>4 DEF PersonalTrue
  <2>6. \A q \in PublicNews(o) : PublicTrue(request[q], o) => PublicTrue(request[q], o)'
    BY <1>1, <1>3, <2>3, <2>4 DEF PublicTrue
  <2>7. OwnNewsComes(o)' /\ OwnNewsCame(o)'
    BY <1>1, <1>2, <1>3, <1>5, <2>2, <2>3, <2>5, OwnNewsStays DEF Informed
  <2>8. OfferComes(o)' /\ OfferCame(o)'
    BY <1>1, <1>2, <1>3, <1>5, <2>2, <2>3, <2>6, OfferStays DEF Informed
  <2>9. QED BY <2>7, <2>8 DEF Informed
<1>6. QED BY <1>4, <1>5 DEF AllInformed

-----------------------------------------------------------------------------
(* The other news stays true, for everybody.                               *)

\* p has no such news, or keeps what it has to offer.
LEMMA QuietTrue ==
    ASSUME Shape, AllTrue, NEW p \in Requests, NEW r, Becomes(p, r),
           UNCHANGED <<rows, offered, muddled>>,
           \A q \in Requests \ {p} : earlier'[q] \subseteq earlier[q],
           \/ request[p].at \notin {"tell", "askBusy", "offer"} /\ r.at \notin {"tell", "askBusy", "offer"}
           \/ /\ request[p].at \in {"askBusy", "offer"} /\ r.at \in {"askBusy", "offer"}
              /\ r.kind = request[p].kind /\ r.overtaken = request[p].overtaken
              /\ UNCHANGED earlier
    PROVE  AllTrue'
<1>1. request'[p] = r /\ \A q \in Requests \ {p} : request'[q] = request[q]
  BY BecomesFacts DEF Shape, Typed
<1>2. Holder' = Holder /\ (IsFree' <=> IsFree) BY IsFreeKept
<1>3. SUFFICES ASSUME NEW o \in Operators PROVE NewsTrue(o)' BY DEF AllTrue
<1>4. NewsTrue(o) BY DEF AllTrue
<1>5. Tells(o)' = Tells(o) /\ p \notin Tells(o) /\ Tells(o) \subseteq Requests
  BY <1>1 DEF Tells
<1>6. PoolNews' = PoolNews /\ PoolNews \subseteq Requests BY <1>1 DEF PoolNews
<1>7. \A q \in Tells(o) : PersonalTrue(request[q], o) => PersonalTrue(request[q], o)'
  BY <1>1, <1>2, <1>5 DEF PersonalTrue
<1>8. ASSUME NEW q \in PoolNews
      PROVE  /\ earlier'[q] \subseteq earlier[q]
             /\ PublicTrue(request[q], o) => PublicTrue(request[q], o)'
  <2>1. CASE q # p BY <1>1, <1>2, <1>6, <2>1 DEF PublicTrue
  <2>2. CASE q = p
    <3>1. UNCHANGED earlier BY <1>8, <2>2 DEF PoolNews
    <3>2. /\ request'[p].kind = request[p].kind /\ request'[p].overtaken = request[p].overtaken
          /\ request[p].at \in {"askBusy", "offer"} /\ request'[p].at \in {"askBusy", "offer"}
      BY <1>1, <1>8, <2>2 DEF PoolNews
    <3>3. QED BY <1>2, <2>2, <3>1, <3>2 DEF PublicTrue
  <2>3. QED BY <2>1, <2>2
<1>9. TellsTrue(o)' BY <1>4, <1>5, <1>7, TellsStay DEF NewsTrue
<1>10. PoolTrue(o)' BY <1>4, <1>6, <1>8, PoolStays DEF NewsTrue
<1>11. NoFalseOffer(o)' BY <1>2, <1>4, <1>6 DEF NewsTrue, NoFalseOffer
<1>12. QED BY <1>9, <1>10, <1>11 DEF NewsTrue

LEMMA QuietSteps ==
    ASSUME Shape, AllTrue, NEW p \in Requests,
           \/ \E kind \in Kinds, o \in Operators \cup {NoOperator} : Receive(p, kind, o)
           \/ Refuse(p) \/ \E o \in Operators : Connect(p, o)
           \/ JoinOnShift(p) \/ ReadMine(p) \/ ReadPool(p) \/ AskBusy(p) \/ BootstrapFails(p)
    PROVE  AllTrue'
<1> USE DEF Shape
<1>1. ASSUME NEW kind \in Kinds, NEW o \in Operators \cup {NoOperator}, Receive(p, kind, o)
      PROVE  AllTrue'
  <2>1. PICK r : Becomes(p, r) /\ r.at = "write" BY <1>1, ReceiveBecomes
  <2>2. request[p].at = "idle"
    <3>1. request[p] = Idle BY <1>1 DEF Receive
    <3>2. QED BY <3>1 DEF Idle
  <2>3. QED BY <1>1, <2>1, <2>2, QuietTrue DEF Receive, apps
<1>2. CASE Refuse(p)
  <2>1. Becomes(p, Idle) /\ Idle.at = "idle" BY <1>2, RefuseBecomes DEF Idle
  <2>2. QED BY <1>2, <2>1, QuietTrue DEF Refuse, apps
<1>3. ASSUME NEW o \in Operators, Connect(p, o) PROVE AllTrue'
  <2>1. PICK r : Becomes(p, r) /\ r.at = "join" BY <1>3, ConnectBecomes
  <2>2. request[p].at = "idle"
    <3>1. request[p] = Idle BY <1>3 DEF Connect
    <3>2. QED BY <3>1 DEF Idle
  <2>3. QED BY <1>3, <2>1, <2>2, QuietTrue DEF Connect
<1>4. CASE JoinOnShift(p)
  <2>1. PICK r : Becomes(p, r) /\ r.at = "readMine" BY <1>4, JoinBecomes
  <2>2. QED BY <1>4, <2>1, QuietTrue DEF JoinOnShift
<1>5. CASE ReadMine(p)
  <2>1. PICK r : Becomes(p, r) /\ r.at \in {"readPool", "snapshot"} BY <1>5, ReadMineBecomes
  <2>2. \A q \in Requests \ {p} : earlier'[q] \subseteq earlier[q]
    BY <1>5 DEF ReadMine, Commits, Ordered
  <2>3. QED BY <1>5, <2>1, <2>2, QuietTrue DEF ReadMine, apps
<1>6. CASE ReadPool(p)
  <2>1. PICK r : Becomes(p, r) /\ r.at = "snapshot" BY <1>6, ReadPoolBecomes
  <2>2. QED BY <1>6, <2>1, QuietTrue DEF ReadPool, apps
<1>7. CASE AskBusy(p)
  <2>1. PICK r : /\ Becomes(p, r)
                 /\ r.at = "offer" /\ r.kind = request[p].kind
                 /\ r.overtaken = request[p].overtaken
    BY <1>7, AskBusyBecomes
  <2>2. QED BY <1>7, <2>1, QuietTrue DEF AskBusy, apps
<1>8. CASE BootstrapFails(p)
  <2>1. Becomes(p, Idle) /\ Idle.at = "idle" BY <1>8, FailsBecomes DEF Idle
  <2>2. \A q \in Requests : earlier'[q] \subseteq earlier[q] BY <1>8, FailShape
  <2>3. QED BY <1>8, <2>1, <2>2, QuietTrue DEF BootstrapFails
<1>9. QED BY <1>1, <1>2, <1>3, <1>4, <1>5, <1>6, <1>7, <1>8

LEMMA CommitTrue ==
    ASSUME Shape, AllTrue, NEW p \in Requests, Write(p) \/ Raise(p)
    PROVE  AllTrue'
<1> USE DEF Shape
<1>1. Shape' /\ p \in Requests \ Unsent /\ UNCHANGED apps /\ Commits(p)
  BY CommitShape DEF Write, Raise
<1>2. SUFFICES ASSUME NEW o \in Operators PROVE NewsTrue(o)' BY DEF AllTrue
<1>3. NewsTrue(o) BY DEF AllTrue
<1>4. CASE Write(p)
  <2>1. PICK r : /\ Becomes(p, r)
                 /\ r.at = "tell" /\ r.kind = request[p].kind
                 /\ r.to = SessionRooms(request[p])
                 /\ r.holder = IF StatusAfter(r.kind) \in OpenAssigned
                               THEN AssigneeAfter(request[p]) ELSE NoOperator
                 /\ r.lost = IF Holder \in {r.holder, request[p].prev} THEN NoOperator ELSE Holder
    BY <1>4, WriteBecomes
  <2>2. /\ \/ p \in PersonalNews(o)' /\ PersonalTrue(request[p], o)'
           \/ p \notin PersonalNews(o)' /\ (Holder' = o <=> Holder = o)
        /\ \/ p \in PublicNews(o)' /\ PublicTrue(request[p], o)'
           \/ p \notin PublicNews(o)' /\ (IsFree' <=> IsFree)
        /\ p \in PersonalNews(o)' <=> p \in Tells(o)'
        /\ p \in PublicNews(o)' <=> p \in PoolNews'
    BY <1>1, <1>4, <2>1, WriteIsNews
  <2>3. \A q \in Requests \ {p} : request'[q] = request[q] BY <2>1, BecomesFacts DEF Typed
  <2>4. QED BY <1>1, <1>3, <2>2, <2>3, NewsAdded DEF apps
<1>5. CASE Raise(p)
  <2>1. PICK r : Becomes(p, r) /\ r.at = "askBusy" /\ r.kind = "raise" BY <1>5, RaiseBecomes
  <2>2. request'[p] = r /\ \A q \in Requests \ {p} : request'[q] = request[q]
    BY <2>1, BecomesFacts DEF Typed
  <2>3. p \notin Tells(o)' /\ p \in PoolNews' BY <2>1, <2>2 DEF Tells, PoolNews
  <2>4. Holder' = Holder BY <1>5 DEF Raise, Holder, OpenAssigned
  <2>5. PublicTrue(request[p], o)' BY <1>5, <2>1, <2>2 DEF PublicTrue, Raise, IsFree, AbsentUnassigned
  <2>6. QED BY <1>1, <1>3, <2>2, <2>3, <2>4, <2>5, NewsAdded DEF apps
<1>6. QED BY <1>4, <1>5

LEMMA TellTrue ==
    ASSUME Shape, AllTrue, NEW p \in Requests, Tell(p)
    PROVE  AllTrue'
<1> USE DEF Shape
<1> DEFINE r == request[p]
           next == AfterTell(r)
           all == IF r.kind \in Removing THEN listening ELSE {}
<1>1. r.at = "tell" /\ p \in Unsent /\ r.kind \in Kinds BY DEF Tell, Unsent, WellFormed, ShapeOf
<1>2. next \in RequestState /\ Addressed(r) \in SUBSET Operators /\ Sends(p, Addressed(r), next)
  BY TellSends
<1>3. \/ next.at = "askBusy" /\ next.kind = r.kind /\ next.overtaken = r.overtaken /\ r.kind \in Returning
      \/ next.at = "idle" /\ r.kind \notin Returning
  BY DEF AfterTell, Idle
<1>4. offered' = offered \ all /\ muddled' = (muddled \ all) \cup (r.overtaken \cap all)
      /\ UNCHANGED rows
  BY DEF Tell
<1>5. earlier \in [Requests -> SUBSET Requests] /\ p \notin earlier[p]
  BY <1>1 DEF Ordered, Unsent
<1>6. /\ request'[p] = next /\ \A q \in Requests \ {p} : Later(q)
      /\ \A q \in earlier[p] : Addressed(r) \subseteq request'[q].overtaken
  BY <1>2, <1>5, SendsFacts DEF Typed
<1>7. \A q \in Requests : earlier'[q] \subseteq earlier[q] BY <1>5 DEF Tell, Ends
<1>8. SUFFICES ASSUME NEW o \in Operators PROVE NewsTrue(o)' BY DEF AllTrue
<1>9. NewsTrue(o) /\ offered \subseteq listening BY DEF AllTrue, Typed
<1>10. o \in r.to \cup {r.lost} \/ r.kind \in Removing => o \in Addressed(r)
  BY DEF Addressed
<1>11. p \notin Tells(o)' BY <1>3, <1>6 DEF Tells
<1>12. p \in Tells(o) => \A q \in earlier[p] : o \in request'[q].overtaken
  <2>1. p \in Tells(o) => o \in Addressed(r) BY <1>10 DEF Tells
  <2> HIDE DEF r
  <2>2. QED BY <1>6, <2>1
<1>13. p \in PoolNews <=> r.kind \in Removing \cup Returning BY <1>1 DEF PoolNews
<1>14. p \in PoolNews' <=> r.kind \in Returning BY <1>3, <1>6 DEF PoolNews
<1>15. \/ p \notin PoolNews' /\ p \notin PoolNews
       \/ p \notin PoolNews' /\ \A q \in earlier[p] : o \in request'[q].overtaken
       \/ /\ p \in PoolNews' /\ p \in PoolNews
          /\ PublicTrue(request[p], o) => PublicTrue(request[p], o)'
  <2>1. CASE r.kind \in Removing BY <1>6, <1>10, <1>14, <2>1, KindFacts
  <2>2. CASE r.kind \in Returning
    <3>1. r.kind \notin Removing /\ (IsFree' <=> IsFree) BY <1>4, <2>2, KindFacts, IsFreeKept
    <3>2. PublicTrue(request[p], o) => PublicTrue(request[p], o)'
      BY <1>1, <1>3, <1>6, <2>2, <3>1 DEF PublicTrue
    <3>3. QED BY <1>13, <1>14, <2>2, <3>2
  <2>3. CASE r.kind \notin Removing \cup Returning BY <1>13, <1>14, <2>3
  <2>4. QED BY <2>1, <2>2, <2>3
<1>16. PoolNews' = {} => o \in muddled' \/ (o \in offered' => IsFree)
  <2>1. CASE r.kind \in Removing
    <3>1. o \notin offered' BY <1>4, <1>9, <2>1
    <3>2. QED BY <3>1
  <2>2. CASE r.kind \notin Removing
    <3>1. offered' = offered /\ muddled' = muddled BY <1>4, <2>2
    <3>2. PoolNews' = {} => PoolNews = {}
      BY <1>3, <1>6, <1>13, <1>14, <2>2 DEF PoolNews, Later
    <3>3. QED BY <1>9, <3>1, <3>2 DEF NewsTrue, NoFalseOffer
  <2>3. QED BY <2>1, <2>2
<1>17. QED BY <1>1, <1>4, <1>6, <1>7, <1>9, <1>11, <1>12, <1>15, <1>16, NewsSent

LEMMA OfferTrue ==
    ASSUME Shape, AllTrue, NEW p \in Requests, Offer(p)
    PROVE  AllTrue'
<1> USE DEF Shape
<1>1. /\ request[p].at = "offer" /\ p \in Unsent /\ request[p].kind \in Returning \cup {"raise"}
  BY DEF Offer, Unsent, WellFormed, ShapeOf
<1>2. /\ offered' = offered \cup (listening \ request[p].busy)
      /\ muddled' = (muddled \ listening) \cup (request[p].overtaken \cap listening)
      /\ Sends(p, Operators, Idle) /\ Ends({p}) /\ UNCHANGED rows
  BY DEF Offer
<1>3. earlier \in [Requests -> SUBSET Requests] /\ p \notin earlier[p]
  BY <1>1 DEF Ordered, Unsent
<1>4. /\ request'[p] = Idle /\ \A q \in Requests \ {p} : Later(q)
      /\ \A q \in earlier[p] : Operators \subseteq request'[q].overtaken
  BY <1>2, <1>3, IdleTyped, SendsFacts DEF Typed
<1>5. \A q \in Requests : earlier'[q] \subseteq earlier[q] BY <1>2, <1>3 DEF Ends
<1>6. SUFFICES ASSUME NEW o \in Operators PROVE NewsTrue(o)' BY DEF AllTrue
<1>7. NewsTrue(o) /\ offered \subseteq listening BY DEF AllTrue, Typed
<1>8. p \notin Tells(o)' /\ p \notin Tells(o) /\ p \notin PoolNews' /\ p \in PoolNews
  BY <1>1, <1>4 DEF Tells, PoolNews, Idle
<1>9. \A q \in earlier[p] : o \in request'[q].overtaken BY <1>4
<1>10. PoolNews' = {} => o \in muddled' \/ (o \in offered' => IsFree)
  <2>1. SUFFICES ASSUME PoolNews' = {}, o \in listening PROVE o \in muddled' \/ IsFree
    BY <1>2, <1>7
  <2>2. PoolNews = {p} BY <1>4, <1>8, <2>1 DEF PoolNews, Later
  <2>3. PublicTrue(request[p], o) BY <1>7, <2>2 DEF NewsTrue, PoolTrue, Latest
  <2>4. QED BY <1>1, <1>2, <2>1, <2>3, KindFacts DEF PublicTrue
<1>11. QED BY <1>1, <1>2, <1>4, <1>5, <1>7, <1>8, <1>9, <1>10, NewsSent

\* A snapshot with the offer of a call: when no other news is on its way, it is
\* the latest.
LEMMA SnapshotTrue ==
    ASSUME Shape, AllTrue, AllInformed, NEW p \in Requests, Snapshot(p)
    PROVE  AllTrue'
<1> USE DEF Shape
<1> DEFINE op == request[p].op
<1>1. request[p].at = "snapshot" /\ p \in Unsent /\ request[p].kind = "bootstrap" /\ op \in online
  BY DEF Snapshot, Unsent, WellFormed, ShapeOf
<1>2. /\ offered' = IF request[p].free THEN offered \cup {op} ELSE offered \ {op}
      /\ muddled' = (muddled \ {op}) \cup (request[p].overtaken \cap {op})
      /\ Sends(p, {op}, Idle) /\ Ends({p}) /\ UNCHANGED rows
  BY DEF Snapshot
<1>3. earlier \in [Requests -> SUBSET Requests] /\ p \notin earlier[p] /\ {op} \in SUBSET Operators
  BY <1>1 DEF Ordered, Unsent, Typed
<1>4. request'[p] = Idle /\ \A q \in Requests \ {p} : Later(q)
  <2> HIDE DEF op
  <2>1. QED BY <1>2, <1>3, IdleTyped, SendsFacts DEF Typed
<1>5. \A q \in Requests : earlier'[q] \subseteq earlier[q] BY <1>2, <1>3 DEF Ends
<1>6. SUFFICES ASSUME NEW o \in Operators PROVE NewsTrue(o)' BY DEF AllTrue
<1>7. NewsTrue(o) BY DEF AllTrue
<1>8. p \notin Tells(o)' /\ p \notin Tells(o) /\ p \notin PoolNews' /\ p \notin PoolNews
  BY <1>1, <1>4, KindFacts DEF Tells, PoolNews, Idle
<1>9. PoolNews' = {} => o \in muddled' \/ (o \in offered' => IsFree)
  <2>1. SUFFICES ASSUME PoolNews' = {} PROVE o \in muddled' \/ (o \in offered' => IsFree) OBVIOUS
  <2>2. PoolNews = {} BY <1>4, <1>8, <2>1 DEF PoolNews, Later
  <2>3. CASE o # op
    BY <1>2, <1>7, <2>2, <2>3 DEF NewsTrue, NoFalseOffer
  <2>4. CASE o = op
    <3>1. \A q \in Requests \ {p} : ~(request[q].kind = "bootstrap" /\ request[q].op = o)
      BY <1>1, <2>4 DEF WellFormed
    <3>2. ~Reading(o) BY <1>1, <3>1 DEF Reading, Bootstrapping
    <3>3. Informed(o) BY <1>1, <2>4, <3>2 DEF AllInformed
    <3>4. \A q \in Requests \ {p} : ~Connecting(q, o)
      BY <3>1 DEF Connecting, WellFormed, ShapeOf
    <3>5. Connecting(p, o) BY <1>1, <2>4 DEF Connecting
    <3>6. PublicNews(o) = {p} BY <2>2, <3>4, <3>5 DEF PublicNews, PoolNews
    <3>7. PublicTrue(request[p], o) BY <3>3, <3>6 DEF Informed, OfferComes, Latest
    <3>8. o \in request[p].overtaken \/ (request[p].free => IsFree)
      BY <1>1, <3>7, KindFacts DEF PublicTrue
    <3>9. QED BY <1>2, <2>4, <3>8
  <2>5. QED BY <2>3, <2>4
<1>10. QED BY <1>1, <1>2, <1>4, <1>5, <1>7, <1>8, <1>9, NewsSent

\* Only bootstraps end with a connection.
LEMMA DisconnectTrue ==
    ASSUME Shape, AllTrue, NEW o \in Operators, Disconnect(o)
    PROVE  AllTrue'
<1> USE DEF Shape
<1>1. /\ offered' = offered \ {o} /\ muddled' = muddled \ {o} /\ UNCHANGED rows
      /\ Ends(Bootstrapping(o))
      /\ \A q \in Requests \ Bootstrapping(o) : request'[q] = request[q]
      /\ \A q \in Requests \cap Bootstrapping(o) : request'[q] = Idle
  BY DEF Disconnect, Leave
<1>2. Holder' = Holder /\ (IsFree' <=> IsFree) BY <1>1, IsFreeKept
<1>3. \A q \in Requests : earlier'[q] \subseteq earlier[q] BY <1>1 DEF Ends, Ordered
<1>4. SUFFICES ASSUME NEW x \in Operators PROVE NewsTrue(x)' BY DEF AllTrue
<1>5. NewsTrue(x) BY DEF AllTrue
<1>6. \A q \in Bootstrapping(o) :
         request[q].at \in {"join", "readMine", "readPool", "snapshot"}
  BY DEF Bootstrapping, WellFormed, ShapeOf
<1>7. /\ Tells(x)' = Tells(x) /\ Tells(x) \subseteq Requests \ Bootstrapping(o)
      /\ PoolNews' = PoolNews /\ PoolNews \subseteq Requests \ Bootstrapping(o)
  BY <1>1, <1>6 DEF Tells, PoolNews, Idle
<1>8. \A q \in Tells(x) : PersonalTrue(request[q], x) => PersonalTrue(request[q], x)'
  BY <1>1, <1>2, <1>7 DEF PersonalTrue
<1>9. \A q \in PoolNews : PublicTrue(request[q], x) => PublicTrue(request[q], x)'
  BY <1>1, <1>2, <1>7 DEF PublicTrue
<1>10. TellsTrue(x)' BY <1>3, <1>5, <1>7, <1>8, TellsStay DEF NewsTrue
<1>11. PoolTrue(x)' BY <1>3, <1>5, <1>7, <1>9, PoolStays DEF NewsTrue
<1>12. NoFalseOffer(x)' BY <1>1, <1>2, <1>5, <1>7 DEF NewsTrue, NoFalseOffer
<1>13. QED BY <1>10, <1>11, <1>12 DEF NewsTrue

LEMMA RestartTrue ==
    ASSUME Shape, Restart
    PROVE  AllTrue'
<1>1. offered' = {} /\ \A q \in Requests : request'[q] = Idle
  BY DEF Restart, Leave, Shape, Typed
<1>2. PoolNews' = {} /\ \A o \in Operators : Tells(o)' = {} BY <1>1 DEF PoolNews, Tells, Idle
<1>3. QED BY <1>1, <1>2 DEF AllTrue, NewsTrue, TellsTrue, PoolTrue, NoFalseOffer, Latest

-----------------------------------------------------------------------------
(* The invariant and what follows from it.                                 *)

LEMMA NewsInvParts == NewsInv <=> Shape /\ AllTrue /\ AllInformed
BY TypeParts DEF NewsInv, Shape, AllTrue, AllInformed

LEMMA NewsInvNext == Shape' /\ AllTrue' /\ AllInformed' => NewsInv'
BY DEF NewsInv, Shape, AllTrue, AllInformed, Typed, Ordered, TypeOK

LEMMA InitNewsInv == Init => NewsInv
<1> SUFFICES ASSUME Init PROVE Shape /\ AllTrue /\ AllInformed
  BY NewsInvParts
<1>1. \A p \in Requests : request[p] = Idle BY DEF Init
<1>2. Unsent = {} BY <1>1 DEF Unsent, Idle
<1>3. Typed BY IdleTyped DEF Init, Typed
<1>4. Ordered BY <1>2 DEF Ordered, Init
<1>5. WellFormed BY <1>1 DEF WellFormed, ShapeOf, Idle
<1>6. AllTrue
  BY <1>1 DEF Init, AllTrue, NewsTrue, TellsTrue, PoolTrue, NoFalseOffer, Tells, PoolNews, Latest, Idle
<1>7. QED BY <1>3, <1>4, <1>5, <1>6 DEF Init, Shape, Joined, AbsentUnassigned, AllInformed

LEMMA StutterKeeps ==
    ASSUME NewsInv, UNCHANGED vars
    PROVE  NewsInv'
<1>1. UNCHANGED <<status, assignee, request, earlier, online, listening, mine, offered, withheld,
                  misled, muddled, unbriefed>>
  BY DEF vars, rows, apps
<1>2. Shape'
  BY <1>1, NewsInvParts
     DEF Shape, Typed, Ordered, Unsent, WellFormed, ShapeOf, Joined, Bootstrapping, AbsentUnassigned
<1>3. AllInformed'
  BY <1>1, NewsInvParts
     DEF AllInformed, Reading, Bootstrapping, Informed, OwnNewsComes, OwnNewsCame, OfferComes, OfferCame,
         Latest, PersonalNews, PublicNews, Connecting, PersonalTrue, PublicTrue, Holder, IsFree
<1>4. AllTrue'
  BY <1>1, NewsInvParts
     DEF AllTrue, NewsTrue, TellsTrue, PoolTrue, NoFalseOffer, Tells, PoolNews, Latest,
         PersonalTrue, PublicTrue, Holder, IsFree
<1>5. QED BY <1>2, <1>3, <1>4, NewsInvNext

LEMMA NextNewsInv == NewsInv /\ [Next]_vars => NewsInv'
<1> SUFFICES ASSUME NewsInv, [Next]_vars PROVE NewsInv'
  OBVIOUS
<1> USE NewsInvParts
<1>0. SUFFICES ASSUME Next PROVE Shape' /\ AllTrue' /\ AllInformed'
  BY StutterKeeps, NewsInvNext
<1>1. ASSUME NEW p \in Requests,
             \/ \E kind \in Kinds, o \in Operators \cup {NoOperator} : Receive(p, kind, o)
             \/ Refuse(p) \/ \E o \in Operators : Connect(p, o)
             \/ JoinOnShift(p)
      PROVE  Shape' /\ AllTrue' /\ AllInformed'
  BY <1>1, EarlyShape, EarlyInformed, QuietSteps
<1>2. ASSUME NEW p \in Requests, Write(p) \/ Raise(p) \/ ReadMine(p)
      PROVE  Shape' /\ AllTrue' /\ AllInformed'
  BY <1>2, CommitShape, CommitInformed, CommitTrue, QuietSteps
<1>3. ASSUME NEW p \in Requests, AskBusy(p) \/ ReadPool(p)
      PROVE  Shape' /\ AllTrue' /\ AllInformed'
  BY <1>3, QueryShape, QueryInformed, QuietSteps
<1>4. ASSUME NEW p \in Requests, Tell(p) \/ Offer(p) \/ Snapshot(p)
      PROVE  Shape' /\ AllTrue' /\ AllInformed'
  BY <1>4, TellInformed, OfferInformed, SnapshotInformed, TellTrue, OfferTrue, SnapshotTrue
<1>5. ASSUME NEW p \in Requests, BootstrapFails(p)
      PROVE  Shape' /\ AllTrue' /\ AllInformed'
  BY <1>5, FailShape, FailInformed, QuietSteps
<1>6. ASSUME NEW o \in Operators, Disconnect(o)
      PROVE  Shape' /\ AllTrue' /\ AllInformed'
  BY <1>6, DisconnectShape, DisconnectInformed, DisconnectTrue
<1>7. CASE Restart BY <1>7, RestartShape, RestartTrue DEF AllInformed
<1>8. QED BY <1>0, <1>1, <1>2, <1>3, <1>4, <1>5, <1>6, <1>7 DEF Next

\* NewsInv holds throughout: whoever is connected and has not the truth on the
\* screen has it coming, or is marked.
THEOREM Invariance == Spec => []NewsInv
<1>1. QED BY InitNewsInv, NextNewsInv, PTL DEF Spec

\* Every variable keeps its type, and the handlers with events to send stand in
\* one order, that of their commits.
THEOREM TypeCorrect == Spec => []TypeOK
<1>1. NewsInv => TypeOK BY DEF NewsInv
<1>2. QED BY <1>1, Invariance, PTL

\* Nothing is on its way to a settled operator.
LEMMA SettledHasNoNews ==
    ASSUME NewsInv, NEW o \in Operators, Settled(o)
    PROVE  /\ o \in online /\ Informed(o)
           /\ PersonalNews(o) = {} /\ PublicNews(o) = {}
<1>1. o \in online /\ ~Reading(o) BY DEF Settled, Reading
<1>2. PersonalNews(o) = {} /\ PublicNews(o) = {} BY NewsUnsent DEF Settled
<1>3. QED BY <1>1, <1>2 DEF NewsInv

\* When all events are sent an operator sees the call as their own exactly while
\* they hold it, unless the last event to them came late or never, or their
\* bootstrap failed and no event has come since.
THEOREM OwnCallIsKnown == Spec => []KnowsOwnCall
<1>1. NewsInv => KnowsOwnCall BY SettledHasNoNews DEF KnowsOwnCall, Informed, OwnNewsCame
<1>2. QED BY <1>1, Invariance, PTL

\* Then nobody is left with the offer of a call that is not free, unless a late
\* event brought it back.
THEOREM OffersEnd == Spec => []OffersAreFree
<1>1. NewsInv => OffersAreFree BY SettledHasNoNews DEF OffersAreFree, Informed, OfferCame
<1>2. QED BY <1>1, Invariance, PTL

\* Then a free call is in front of every operator who was not busy when it was
\* offered, unless a late event took it away, or their bootstrap failed and no news
\* of the pool has come since.
THEOREM FreeCallsAreSeen == Spec => []FreeCallIsOffered
<1>1. NewsInv => FreeCallIsOffered BY SettledHasNoNews DEF FreeCallIsOffered, Informed, OfferCame
<1>2. QED BY <1>1, Invariance, PTL

-----------------------------------------------------------------------------
(* What the comments promise, when events do not overlap.                  *)

\* All events of one commit are sent before the next one.
NewsInOrder == \A p, q \in Unsent : p = q

\* Nobody changes the operator between the read of the previous one and the commit.
PreviousIsCurrent ==
    \A p \in Requests :
        request[p].at = "write" /\ request[p].kind \in TellPrevious => request[p].prev = assignee

\* No query of a bootstrap throws.
BootstrapsSucceed == \A p \in Requests : ~BootstrapFails(p)

\* Whom the call is offered to once all events are sent, with no exception.
PoolIsShown ==
    \A o \in Operators : Settled(o) =>
        (o \in offered => IsFree) /\ (IsFree => o \in offered \cup withheld)

\* Whose the call is in the apps, with no exception.
OwnCallIsShown == \A o \in Operators : Settled(o) => (o \in mine <=> Holder = o)

NoneOvertaken == muddled = {} /\ \A p \in Requests : request[p].overtaken = {}

\* Whoever loses the call is among those who will be told.
LosersAreTold ==
    /\ misled = {}
    /\ \A p \in Requests : request[p].at = "tell" => request[p].lost \in request[p].to \cup {NoOperator}

LEMMA NothingEarlier ==
    ASSUME TypeOK, NewsInOrder, NEW p \in Requests
    PROVE  earlier[p] = {}
<1>1. CASE p \notin Unsent BY <1>1 DEF TypeOK
<1>2. CASE p \in Unsent
  <2>1. earlier[p] \subseteq {p} BY <1>2 DEF TypeOK, NewsInOrder
  <2>2. p \notin earlier[p] BY <1>2 DEF TypeOK
  <2>3. QED BY <2>1, <2>2
<1>3. QED BY <1>1, <1>2

\* With nothing on its way that committed before, a send makes nothing late.
LEMMA NextNoneOvertaken ==
    ASSUME TypeOK, NewsInOrder, NoneOvertaken, [Next]_vars
    PROVE  NoneOvertaken'
<1> USE NothingEarlier DEF NoneOvertaken, apps, Idle
<1>0. request \in [Requests -> RequestState] BY DEF TypeOK
<1> USE <1>0 DEF RequestState
<1>1. ASSUME NEW p \in Requests, NEW kind \in Kinds, NEW o \in Operators \cup {NoOperator},
             Receive(p, kind, o)
      PROVE  NoneOvertaken'
  BY <1>1 DEF Receive
<1>2. ASSUME NEW p \in Requests, Write(p) \/ Refuse(p) \/ Raise(p) PROVE NoneOvertaken'
  <2>1. CASE Write(p) BY <2>1 DEF Write
  <2>2. CASE Refuse(p) BY <2>2 DEF Refuse
  <2>3. CASE Raise(p) BY <2>3 DEF Raise
  <2>4. QED BY <1>2, <2>1, <2>2, <2>3
<1>3. ASSUME NEW p \in Requests, Tell(p) PROVE NoneOvertaken' BY <1>3 DEF Tell, Sends
<1>4. ASSUME NEW p \in Requests, AskBusy(p) PROVE NoneOvertaken' BY <1>4 DEF AskBusy
<1>5. ASSUME NEW p \in Requests, Offer(p) PROVE NoneOvertaken' BY <1>5 DEF Offer, Sends
<1>6. ASSUME NEW p \in Requests, NEW o \in Operators, Connect(p, o) PROVE NoneOvertaken'
  BY <1>6 DEF Connect
<1>7. ASSUME NEW p \in Requests, JoinOnShift(p) \/ ReadMine(p) \/ ReadPool(p) PROVE NoneOvertaken'
  <2>1. CASE JoinOnShift(p) BY <2>1 DEF JoinOnShift
  <2>2. CASE ReadMine(p) BY <2>2 DEF ReadMine
  <2>3. CASE ReadPool(p) BY <2>3 DEF ReadPool
  <2>4. QED BY <1>7, <2>1, <2>2, <2>3
<1>8. ASSUME NEW p \in Requests, Snapshot(p) \/ BootstrapFails(p) PROVE NoneOvertaken'
  <2>1. CASE Snapshot(p) BY <2>1 DEF Snapshot, Sends
  <2>2. CASE BootstrapFails(p) BY <2>2 DEF BootstrapFails
  <2>3. QED BY <1>8, <2>1, <2>2
<1>9. ASSUME NEW o \in Operators, Disconnect(o) PROVE NoneOvertaken' BY <1>9 DEF Disconnect, Leave
<1>10. CASE Restart BY <1>10 DEF Restart, Leave
<1>11. CASE UNCHANGED vars BY <1>11 DEF vars
<1>12. QED
  BY <1>1, <1>2, <1>3, <1>4, <1>5, <1>6, <1>7, <1>8, <1>9, <1>10, <1>11 DEF Next

LEMMA NextLosersAreTold ==
    ASSUME TypeOK, NewsInOrder, PreviousIsCurrent, NoneOvertaken, LosersAreTold, [Next]_vars,
           [BootstrapsSucceed]_vars
    PROVE  LosersAreTold'
<1> USE NothingEarlier DEF NoneOvertaken, LosersAreTold, apps, Idle
<1>0. request \in [Requests -> RequestState] BY DEF TypeOK
<1> USE <1>0 DEF RequestState
<1>1. ASSUME NEW p \in Requests, NEW kind \in Kinds, NEW o \in Operators \cup {NoOperator},
             Receive(p, kind, o)
      PROVE  LosersAreTold'
  BY <1>1 DEF Receive
<1>2. ASSUME NEW p \in Requests, Write(p) PROVE LosersAreTold'
  <2>1. request'[p].lost \in request'[p].to \cup {NoOperator}
    BY <1>2, NullAssumption
       DEF Write, Where, StatusAfter, AssigneeAfter, SessionRooms, Holder, PreviousIsCurrent, TypeOK,
           TellPrevious, Kinds, GivingKinds, FreeingKinds, ClosingKinds, KeepingKinds, OpenAssigned
  <2>2. QED BY <1>2, <2>1 DEF Write
<1>3. ASSUME NEW p \in Requests, Tell(p) PROVE LosersAreTold'
  BY <1>3, NullAssumption DEF Tell, Sends, TypeOK
<1>4. ASSUME NEW p \in Requests, Refuse(p) \/ Raise(p) \/ AskBusy(p) PROVE LosersAreTold'
  <2>1. CASE Refuse(p) BY <2>1 DEF Refuse
  <2>2. CASE Raise(p) BY <2>2 DEF Raise
  <2>3. CASE AskBusy(p) BY <2>3 DEF AskBusy
  <2>4. QED BY <1>4, <2>1, <2>2, <2>3
<1>5. ASSUME NEW p \in Requests, Offer(p) PROVE LosersAreTold' BY <1>5 DEF Offer, Sends
<1>6. ASSUME NEW p \in Requests, NEW o \in Operators, Connect(p, o) PROVE LosersAreTold'
  BY <1>6 DEF Connect
<1>7. ASSUME NEW p \in Requests, JoinOnShift(p) \/ ReadMine(p) \/ ReadPool(p) PROVE LosersAreTold'
  <2>1. CASE JoinOnShift(p) BY <2>1 DEF JoinOnShift
  <2>2. CASE ReadMine(p) BY <2>2 DEF ReadMine
  <2>3. CASE ReadPool(p) BY <2>3 DEF ReadPool
  <2>4. QED BY <1>7, <2>1, <2>2, <2>3
<1>8. ASSUME NEW p \in Requests, Snapshot(p) PROVE LosersAreTold' BY <1>8 DEF Snapshot, Sends
<1>9. ASSUME NEW o \in Operators, Disconnect(o) PROVE LosersAreTold' BY <1>9 DEF Disconnect, Leave
<1>10. CASE Restart BY <1>10 DEF Restart, Leave
<1>11. CASE UNCHANGED vars BY <1>11 DEF vars
<1>12. QED
  BY <1>1, <1>2, <1>3, <1>4, <1>5, <1>6, <1>7, <1>8, <1>9, <1>10, <1>11 DEF Next, BootstrapsSucceed

\* Nobody is left without a snapshot then.
LEMMA NextBriefed ==
    ASSUME unbriefed = {}, [Next]_vars, [BootstrapsSucceed]_vars
    PROVE  unbriefed' = {}
<1>1. CASE UNCHANGED vars BY <1>1 DEF vars, apps
<1>2. ASSUME NEW p \in Requests,
             \/ \E kind \in Kinds, o \in Operators \cup {NoOperator} : Receive(p, kind, o)
             \/ Write(p) \/ Refuse(p) \/ Raise(p) \/ AskBusy(p) \/ ReadMine(p) \/ ReadPool(p)
      PROVE  unbriefed' = {}
  BY <1>2 DEF Receive, Write, Refuse, Raise, AskBusy, ReadMine, ReadPool, apps
<1>3. ASSUME NEW p \in Requests,
             \/ \E o \in Operators : Connect(p, o)
             \/ Tell(p) \/ Offer(p) \/ JoinOnShift(p) \/ Snapshot(p)
      PROVE  unbriefed' = {}
  BY <1>3 DEF Connect, Tell, Offer, JoinOnShift, Snapshot
<1>4. ASSUME NEW p \in Requests, BootstrapFails(p) PROVE unbriefed' = {}
  <2>1. UNCHANGED vars BY <1>4 DEF BootstrapsSucceed
  <2>2. QED BY <2>1 DEF vars, apps
<1>5. ASSUME NEW o \in Operators, Disconnect(o) PROVE unbriefed' = {} BY <1>5 DEF Disconnect, Leave
<1>6. CASE Restart BY <1>6 DEF Restart, Leave
<1>7. QED BY <1>1, <1>2, <1>3, <1>4, <1>5, <1>6 DEF Next

LEMMA InOrderInvariance == Spec /\ []NewsInOrder => []NoneOvertaken
<1>1. Init => NoneOvertaken BY DEF Init, NoneOvertaken, Idle
<1>2. TypeOK /\ NewsInOrder /\ NoneOvertaken /\ [Next]_vars => NoneOvertaken' BY NextNoneOvertaken
<1>3. QED BY <1>1, <1>2, TypeCorrect, PTL DEF Spec

\* As long as the events of each commit are sent before the next commit, and no
\* bootstrap fails, every settled app offers the call exactly while it is free (but
\* for the busy).
THEOREM InOrderPoolIsShown ==
    Spec /\ []NewsInOrder /\ [][BootstrapsSucceed]_vars => []PoolIsShown
<1> DEFINE Briefed == unbriefed = {}
<1>1. Init => Briefed BY DEF Init
<1>2. Briefed /\ [Next]_vars /\ [BootstrapsSucceed]_vars => Briefed' BY NextBriefed
<1>3. OffersAreFree /\ FreeCallIsOffered /\ NoneOvertaken /\ Briefed => PoolIsShown
  BY DEF OffersAreFree, FreeCallIsOffered, NoneOvertaken, PoolIsShown
<1> HIDE DEF Briefed
<1>4. QED BY <1>1, <1>2, <1>3, OffersEnd, FreeCallsAreSeen, InOrderInvariance, PTL DEF Spec

\* closeSession's "we take the card away from everyone to whom it was offered"
\* holds whenever the events of each commit are sent before the next commit.
THEOREM InOrderOfferEnds == Spec /\ []NewsInOrder => []OfferEndsWithCall
<1>1. OffersAreFree /\ NoneOvertaken => OfferEndsWithCall
  BY DEF OffersAreFree, NoneOvertaken, OfferEndsWithCall, IsFree
<1>2. QED BY <1>1, OffersEnd, InOrderInvariance, PTL

\* If moreover the previous operator is still the one to be told, and no bootstrap
\* fails, every app that is settled shows the call as its operator's own exactly
\* while it is.
THEOREM InOrderOwnCallIsShown ==
    Spec /\ []NewsInOrder /\ []PreviousIsCurrent /\ [][BootstrapsSucceed]_vars => []OwnCallIsShown
<1>1. Init => LosersAreTold BY DEF Init, LosersAreTold, Idle
<1>2. TypeOK /\ NewsInOrder /\ PreviousIsCurrent /\ NoneOvertaken /\ LosersAreTold /\ [Next]_vars
      /\ [BootstrapsSucceed]_vars => LosersAreTold'
  BY NextLosersAreTold
<1>3. KnowsOwnCall /\ LosersAreTold => OwnCallIsShown
  BY DEF KnowsOwnCall, LosersAreTold, OwnCallIsShown
<1>4. QED BY <1>1, <1>2, <1>3, OwnCallIsKnown, TypeCorrect, InOrderInvariance, PTL DEF Spec

=============================================================================
