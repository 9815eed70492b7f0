--------------------------- MODULE Subscriptions ---------------------------
(***************************************************************************)
(* Personal subscriptions: a user asks, an administrator decides, an hourly *)
(* job puts out what has run out, and a deleted account loses everything.  *)
(*                                                                         *)
(* A decision is one transaction of two UPDATEs, on the request's row and  *)
(* then on the account's; the deletion of an account goes over the same    *)
(* rows in the same order.  A row that is written stays locked until the   *)
(* transaction ends, and whoever wants it waits and then looks again       *)
(* (READ COMMITTED).  Dates are small numbers, NULL is 0.  Comments,       *)
(* reasons and what the administrators' pages list are left out.           *)
(***************************************************************************)
EXTENDS Naturals

CONSTANTS
    Users, Rows,   \* ids of User and SubscriptionRequest
    Handlers,      \* HTTP requests running at the same time
    Workers,       \* backend processes, each with its hourly job
    MaxNow,        \* bound: the last moment of the model
    Production,    \* configuration nodeEnv = 'production'
    NoUser, NoRow, \* a row that does not exist, a handler about no row
    Nobody,        \* the job's lock is free
    LostReply      \* it was set for a worker that never learnt of it

ASSUME NullAssumption ==
    /\ NoUser \notin Users /\ NoRow \notin Rows
    /\ Nobody \notin Workers /\ LostReply \notin Workers

ASSUME TimeAssumption == MaxNow \in Nat \ {0} /\ Production \in BOOLEAN

VARIABLES
    now,        \* the clock
    active,     \* [Users -> BOOLEAN], individualSubscriptionActive
    until,      \* [Users -> dates or NULL], subscriptionExpiresAt
    gone,       \* users with User.deletedAt
    asked,      \* [Rows -> [user, status]], SubscriptionRequest
    handler,    \* [Handlers -> HandlerState]
    lock,       \* whose token is under cron:expire-subscriptions
    job,        \* [Workers -> JobState], expireSubscriptions in progress
    granted,    \* history: the date the last approval has promised, 0 if none
    overtaken   \* history: deleted users whose own request the deletion did not see

accounts == <<active, until, gone>>
history == <<granted, overtaken>>
vars == <<now, accounts, asked, handler, lock, job, history>>

-----------------------------------------------------------------------------
Null == 0
Dates == 1..MaxNow

NoRequest == [user |-> NoUser, status |-> "ABSENT"]

\* "row" is before the first statement of a transaction, "account" before the
\* second, with the first one's rows locked; "tell" is after the COMMIT.
Idle == [kind |-> "none", at |-> "idle", user |-> NoUser, row |-> NoRow, date |-> Null]

HandlerState ==
    [kind : {"none", "create", "demo", "approve", "reject", "delete"},
     at   : {"idle", "row", "account", "tell"},
     user : Users \cup {NoUser},
     row  : Rows \cup {NoRow},
     date : Dates \cup {Null}]

NoJob == [at |-> "idle", stamp |-> Null]

TypeOK ==
    /\ now \in Dates
    /\ active \in [Users -> BOOLEAN]
    /\ until \in [Users -> Dates \cup {Null}]
    /\ gone \subseteq Users
    /\ asked \in [Rows -> [user : Users \cup {NoUser},
                           status : {"ABSENT", "PENDING", "APPROVED", "REJECTED"}]]
    /\ \A q \in Rows : asked[q].user = NoUser <=> asked[q].status = "ABSENT"
    /\ \A p, q \in Rows :
          asked[p].status = "PENDING" /\ asked[q].status = "PENDING"
          /\ asked[p].user = asked[q].user => p = q
    /\ handler \in [Handlers -> HandlerState]
    /\ lock \in Workers \cup {Nobody, LostReply}
    /\ job \in [Workers -> [at : {"idle", "update", "release"}, stamp : Dates \cup {Null}]]
    /\ granted \in [Users -> Dates \cup {Null}]
    /\ overtaken \subseteq Users

Init ==
    /\ now = 1
    /\ active = [u \in Users |-> FALSE]
    /\ until = [u \in Users |-> Null]
    /\ gone = {}
    /\ asked = [q \in Rows |-> NoRequest]
    /\ handler = [h \in Handlers |-> Idle]
    /\ lock = Nobody
    /\ job = [w \in Workers |-> NoJob]
    /\ granted = [u \in Users |-> Null]
    /\ overtaken = {}

-----------------------------------------------------------------------------
At(h, kind, at) == handler[h].kind = kind /\ handler[h].at = at

Goes(h, at) == handler' = [handler EXCEPT ![h].at = at]

Answer(h) == handler' = [handler EXCEPT ![h] = Idle]

Receive(h, kind, u, q, d) ==
    /\ handler[h] = Idle
    /\ handler' = [handler EXCEPT ![h] =
                     [kind |-> kind, at |-> "row", user |-> u, row |-> q, date |-> d]]
    /\ UNCHANGED <<now, accounts, asked, lock, job, history>>

\* Row q is written by a transaction that has not ended.
Locked(q) == \E h \in Handlers : handler[h].at = "account" /\ handler[h].row = q

\* The rows of u that are PENDING.
PendingOf(u) == {q \in Rows : asked[q].user = u /\ asked[q].status = "PENDING"}

\* The personal half of startSessionLocked: a subscription in force.  No date
\* means for ever.
Entitled(u) == active[u] /\ (until[u] = Null \/ until[u] > now)

-----------------------------------------------------------------------------
(* The user asks.  JwtStrategy.validate has found the account, not deleted. *)

ReceiveOwn(h, kind, u) == u \notin gone /\ Receive(h, kind, u, NoRow, Null)

NonePending(u) == PendingOf(u) = {}

\* INSERT; an index entry that is being decided on is waited for.
Create(h, q) ==
    LET u == handler[h].user IN
    /\ At(h, "create", "row")
    /\ asked[q] = NoRequest
    /\ NonePending(u)
    /\ asked' = [asked EXCEPT ![q] = [user |-> u, status |-> "PENDING"]]
    /\ overtaken' = IF u \in gone THEN overtaken \cup {u} ELSE overtaken
    /\ Answer(h)
    /\ UNCHANGED <<now, accounts, lock, job, granted>>

\* activateDemoIndividualSubscription: the date stays as it is.
ActivateDemo(h) ==
    LET u == handler[h].user IN
    /\ At(h, "demo", "row")
    /\ ~Production
    /\ active' = [active EXCEPT ![u] = TRUE]
    /\ overtaken' = IF u \in gone THEN overtaken \cup {u} ELSE overtaken
    /\ Answer(h)
    /\ UNCHANGED <<now, until, gone, asked, lock, job, granted>>

-----------------------------------------------------------------------------
(* An administrator decides, from a page that may be old.                  *)

\* A date of the past is refused; it may have become one by the COMMIT.
ReceiveApprove(h, q, d) ==
    /\ asked[q].status # "ABSENT"
    /\ d > now
    /\ Receive(h, "approve", NoUser, q, d)

ReceiveReject(h, q) ==
    /\ asked[q].status # "ABSENT"
    /\ Receive(h, "reject", NoUser, q, Null)

\* Mutant: the WHERE asks for the id only.
AnyStatus(q) == asked[q].status # "ABSENT"

\* REL-4: the WHERE of both decisions.
StillPending(q) == asked[q].status = "PENDING"

\* First UPDATE of approveSubscriptionRequest; the row is locked from here on.
ApproveRow(h) ==
    LET q == handler[h].row IN
    /\ At(h, "approve", "row")
    /\ ~Locked(q)
    /\ StillPending(q)
    /\ handler' = [handler EXCEPT ![h].at = "account", ![h].user = asked[q].user]
    /\ UNCHANGED <<now, accounts, asked, lock, job, history>>

\* Mutant: the date of the account is left as it was.
GrantFlagOnly(u, d) ==
    /\ active' = [active EXCEPT ![u] = TRUE]
    /\ UNCHANGED until

\* tx.user.update
Grant(u, d) ==
    /\ active' = [active EXCEPT ![u] = TRUE]
    /\ until' = [until EXCEPT ![u] = d]

\* Second UPDATE and COMMIT; nothing asks whether the account is deleted.
ApproveAccount(h) ==
    LET q == handler[h].row
        u == handler[h].user
    IN
    /\ At(h, "approve", "account")
    /\ Grant(u, handler[h].date)
    /\ asked' = [asked EXCEPT ![q].status = "APPROVED"]
    /\ granted' = [granted EXCEPT ![u] = handler[h].date]
    /\ Goes(h, "tell")
    /\ UNCHANGED <<now, gone, lock, job, overtaken>>

RejectRow(h) ==
    LET q == handler[h].row IN
    /\ At(h, "reject", "row")
    /\ ~Locked(q)
    /\ StillPending(q)
    /\ asked' = [asked EXCEPT ![q].status = "REJECTED"]
    /\ Goes(h, "tell")
    /\ UNCHANGED <<now, accounts, lock, job, history>>

\* emitSubscriptionApproved or ...Rejected, and sendSubscriptionDecision.
Decision(h) == IF handler[h].kind = "approve" THEN "APPROVED" ELSE "REJECTED"

\* The event and the push, after the COMMIT.
Tell(h) ==
    /\ handler[h].at = "tell"
    /\ Answer(h)
    /\ UNCHANGED <<now, accounts, asked, lock, job, history>>

-----------------------------------------------------------------------------
(* deleteAccount: the PENDING row, then the account.                       *)

\* deleteMany: the row of the statement's snapshot, once it is not locked; with
\* none there is nothing to lock.
DeleteRow(h) ==
    LET u == handler[h].user IN
    /\ At(h, "delete", "row")
    /\ \A q \in PendingOf(u) : ~Locked(q)
    /\ handler' = [handler EXCEPT ![h].at = "account",
                     ![h].row = IF PendingOf(u) = {} THEN NoRow ELSE CHOOSE q \in PendingOf(u) : TRUE]
    /\ UNCHANGED <<now, accounts, asked, lock, job, history>>

\* Mutant: the requests are left to the administrators.
Kept(q) == asked

\* What the deletion has removed.
Without(q) == IF q = NoRow THEN asked ELSE [asked EXCEPT ![q] = NoRequest]

DeleteAccount(h) ==
    LET u == handler[h].user IN
    /\ At(h, "delete", "account")
    /\ asked' = Without(handler[h].row)
    /\ active' = [active EXCEPT ![u] = FALSE]
    /\ until' = [until EXCEPT ![u] = Null]
    /\ gone' = gone \cup {u}
    /\ granted' = [granted EXCEPT ![u] = Null]
    /\ overtaken' = IF PendingOf(u) \subseteq {handler[h].row} THEN overtaken
                    ELSE overtaken \cup {u}
    /\ Answer(h)
    /\ UNCHANGED <<now, lock, job>>

\* 409, 404, 403, a rollback or a dead process: nothing is committed, and of a
\* decision that is, nobody is told.
Fail(h) ==
    /\ handler[h] # Idle
    /\ Answer(h)
    /\ UNCHANGED <<now, accounts, asked, lock, job, history>>

-----------------------------------------------------------------------------
(* The hourly job.                                                         *)

Tick ==
    /\ now < MaxNow
    /\ now' = now + 1
    /\ UNCHANGED <<accounts, asked, handler, lock, job, history>>

\* SET NX; the date in the WHERE is taken before the statement is sent.
StartJob(w) ==
    /\ job[w].at = "idle"
    /\ lock = Nobody
    /\ lock' = w
    /\ job' = [job EXCEPT ![w] = [at |-> "update", stamp |-> now]]
    /\ UNCHANGED <<now, accounts, asked, handler, history>>

\* Mutant: gte for lt.
StillRuns(u, stamp) == active[u] /\ until[u] # Null /\ until[u] >= stamp

Lapsed(u, stamp) == active[u] /\ until[u] # Null /\ until[u] < stamp

ExpireSubscriptions(w) ==
    /\ job[w].at = "update"
    /\ active' = [u \in Users |-> IF Lapsed(u, job[w].stamp) THEN FALSE ELSE active[u]]
    /\ job' = [job EXCEPT ![w].at = "release"]
    /\ UNCHANGED <<now, until, gone, asked, handler, lock, history>>

\* The compare-and-delete of releaseLock.
ReleaseLock(w) ==
    /\ job[w].at = "release"
    /\ lock' = IF lock = w THEN Nobody ELSE lock
    /\ job' = [job EXCEPT ![w] = NoJob]
    /\ UNCHANGED <<now, accounts, asked, handler, history>>

\* Redis, the database or the process fails: the run ends with the lock set.
JobFails(w) ==
    /\ job[w].at # "idle"
    /\ job' = [job EXCEPT ![w] = NoJob]
    /\ UNCHANGED <<now, accounts, asked, handler, lock, history>>

LockUnheard ==
    /\ lock = Nobody
    /\ lock' = LostReply
    /\ UNCHANGED <<now, accounts, asked, handler, job, history>>

LockExpires ==
    /\ lock # Nobody
    /\ lock' = Nobody
    /\ UNCHANGED <<now, accounts, asked, handler, job, history>>

-----------------------------------------------------------------------------
Receives(h) ==
    \/ \E u \in Users, kind \in {"create", "demo", "delete"} : ReceiveOwn(h, kind, u)
    \/ \E q \in Rows : ReceiveReject(h, q) \/ \E d \in Dates : ReceiveApprove(h, q, d)

Proceeds(h) ==
    \/ \E q \in Rows : Create(h, q)
    \/ ActivateDemo(h) \/ ApproveRow(h) \/ ApproveAccount(h) \/ RejectRow(h) \/ Tell(h)
    \/ DeleteRow(h) \/ DeleteAccount(h)

JobStep(w) == StartJob(w) \/ ExpireSubscriptions(w) \/ ReleaseLock(w)

Next ==
    \/ \E h \in Handlers : Receives(h) \/ Proceeds(h) \/ Fail(h)
    \/ \E w \in Workers : JobStep(w) \/ JobFails(w)
    \/ Tick \/ LockUnheard \/ LockExpires

Spec == Init /\ [][Next]_vars

\* The schedule comes round and keys expire.  The job may fail any number of
\* times, but not every time.
Fairness ==
    /\ WF_vars(LockExpires)
    /\ \A w \in Workers :
          WF_vars(JobStep(w)) /\ SF_vars(StartJob(w)) /\ SF_vars(ExpireSubscriptions(w))

FairSpec == Spec /\ Fairness

-----------------------------------------------------------------------------
\* What was approved is in force until its date: neither an expiry that was on
\* its way when the subscription was renewed nor a second request undoes it.
InForce ==
    \A u \in Users : granted[u] > now => Entitled(u) /\ until[u] = granted[u]

\* Of two administrators who decide one request, one is refused (REL-4); a
\* decision is final.
DecidedOnce ==
    [][\A q \in Rows : asked[q].status \in {"APPROVED", "REJECTED"} => asked'[q] = asked[q]]_vars

\* Nobody is told what did not become of their request: the loser of a race, or
\* a transaction that is rolled back, tells nothing.
ToldTheTruth ==
    \A h \in Handlers : handler[h].at = "tell" =>
        asked[handler[h].row].status = Decision(h)

\* A deleted account gets no subscription from a request it has left behind,
\* unless one of its own requests was in flight at the deletion.
DeletedNotEntitled ==
    \A u \in gone \ overtaken : ~active[u] /\ PendingOf(u) = {}

\* «без этой задачи копятся пользователи, формально числящиеся подписчиками»: the
\* flag of a subscription that has run out goes out.
FlagGoesOut ==
    \A u \in Users :
        active[u] /\ until[u] # Null /\ until[u] < now ~>
            ~active[u] \/ until[u] = Null \/ until[u] >= now
=============================================================================
