# Aalam security backend: TLA+ models and proofs

The repository is the backend of an emergency service: a NestJS process over
PostgreSQL (Prisma), Redis and Socket.IO. People raise an SOS from a phone,
operators on shift accept and work on it, administrators watch and step in, and a
cron worker takes calls back from operators who have gone silent.

It runs as **one process** (`src/README.md:51-64`), and still nearly everything
interesting is concurrent. Each HTTP handler, socket handler and cron run awaits
its SQL and Redis statements one by one, so handlers interleave between any two
awaits. The code answers with conditional `UPDATE`s, a row lock on the operator
(`operator-lock.ts`) and a Redis lock on the person raising an SOS. These models
ask whether that is enough, for all orders of the statements.

## 1. Inventory

Paths are relative to `src/src/modules/` unless they start with `src/`.

| Component | State | Operations | Hard behaviour | What makes it correct |
|---|---|---|---|---|
| **Dispatching**: `dispatch/`, parts of `admin/`, `cron/`, `emergency/` | `User.onShift`, `EmergencySession.status`, `.assignedOperatorId` | accept, start progress, resolve, start/end shift; assign, reassign, unassign, close, set shift, delete operator; reclaim, drop shift; raise and close by the caller | a dozen writers of the same three columns, from pages and lists that are out of date | one call per operator; nobody off shift with a call; closed is final; a call is not taken over by accident |
| **Raising an SOS**: `emergency/`, `src/src/redis/` | key `sos:trigger:<user>`, open sessions, `User.deletedAt` | `startSession`, `closeSession`, `deleteAccount` | double taps, retries, Redis down, lock expiring under its holder, crash with the lock taken | one alarm per person; a deleted account has none |
| **Sockets and rooms**: `websocket/` | connections, `operator_<id>`, `on_shift_operators` | handshake, bootstrap, `setOperatorShiftRoom`, `disconnectUser` | commit and room change are two steps; sockets come and go between them | an operator is in the room exactly while on shift; a deleted one has no socket |
| **Offers and notices**: `websocket/` and every caller of it | events under way, what an app shows | `emergency:new`, `assigned`, `in_progress`, `location_update`, `reassigned`, `closed`, `pool_removed`, `bootstrap` | events overtake each other; the recipient list is older than the send | nobody works on a call that is not theirs; a free call is seen; a closed one is not |
| **Presence**: `cron/`, `src/src/common/constants/operator-presence.ts` | heartbeat keys, cron locks, thresholds | heartbeat, refresh by socket, reclaim (120 s), drop (180 s) | fixed lock time against run time; Redis down; ABA between read and write | a silent operator's call comes back; a live one keeps theirs |
| **Organizations, venues, members**: `organization/`, `venue/`, `admin/` | organizations, venues, members with roles, invite codes | create, bind by code, add/update/remove member, delete | checks before transactions; two appointments at once; deletion with an open call | one membership per person, one owner per organization, a code names one thing |
| **Applications**: `organization-application/`, `admin/` | application status | submit, approve, reject | two decisions at once; approval replaces a membership | decided once; an approved applicant owns the new organization |
| **Subscriptions**: `subscription-request/`, `admin/`, `cron/` | request status, plan, expiry | request, approve, reject, hourly expiry | approval against expiry, two decisions | decided once; a renewal is not undone |
| **Authentication**: `auth/`, `refresh-token/` | refresh and reset tokens, password | login, refresh, logout, forgot/reset/change password | rotation races, tokens stored after a revocation | a used token is dead; nothing outlives a password change |
| **Phone verification**: `auth/`, Redis | verification token, phone, Telegram id | request, confirm | profile changed in between | the confirmed phone is the account's |
| **Push tokens**: `users/`, `push/` | `expoPushToken` | register, clear, send | two accounts on one telephone | one telephone, one owner |
| **Call locations**: `emergency/` | `Location` rows | `addLocation` | event older than a reassign | a step of Notices |
| Contacts, mail, health, configuration, error filter, schema, seed | rows nobody else reads, or none | create/list/delete; I/O | none | - |

How they interact: HTTP handlers of operators, administrators and callers write the
tables of dispatching and then call the gateway; the cron worker reads heartbeats from
Redis and the list of connected sockets, writes the same tables and calls the same
gateway; the gateway itself reads the tables again, for the snapshot of a connecting
operator and for the list of busy operators. The JWT guard reads `deletedAt` once, at
the start of a request.

`PROJECT.json` has the hazards of all of these, each at its line.

## 2. Modules

| Module | Models | Proofs |
|---|---|---|
| `CallBoard` | the abstract promise of dispatching: every operation one indivisible step | |
| `Dispatch` | every writer of `onShift`, `status` and `assignedOperatorId`, statement by statement | `DispatchProofs` |
| `Presence` | heartbeats, the cron worker's lock and run, reclaim and drop, against time and failures | `PresenceProofs` |
| `SosTrigger` | `startSession` with its Redis lock, and `deleteAccount` | `AlarmProofs` |
| `ShiftRooms` | `User.onShift` against the Socket.IO room | `ShiftRoomsProofs` |
| `Notices` | what operators are shown of one call | `AlarmProofs` |
| `Credentials` | passwords, refresh tokens, reset links, revocation | `CredentialsProofs` |
| `Membership` | organizations, venues, members, applications, and the calls placed in them | `MembershipProofs` |
| `Subscriptions` | requests, decisions, the hourly expiry | `SubscriptionsProofs` |
| `Profile` | telephone number, its mark, Telegram, push tokens | `ProfileProofs` |
| `MC*` | the instances TLC runs on | |

`Dispatch` and `Presence` both instantiate `CallBoard` (`INSTANCE ... WITH`): the first for all
the handlers that compete for row locks, the second for the cron worker in time. The other
modules divide the system and name what they leave to each other: `Dispatch` says which
commits are possible and takes any operator for silent, `Presence` says who is silent and makes each
commit one step, `ShiftRooms` lets any commit be refused and follows the sockets, `Notices`
takes operators on shift and lets any operator take the call, `SosTrigger` decides who may
raise one. The deletion of an account runs through six modules, each with the rows it
keeps: calls (`SosTrigger`, `Dispatch`), sockets (`ShiftRooms`), sessions and links
(`Credentials`), membership and applications (`Membership`), the subscription
(`Subscriptions`), personal data (`Profile`).

All handlers have one shape. "Receive" is the step that passes the JWT guard and makes the first
reads; the record of the handler then says where it stands (`at`) and what it has read; a
"commit" is a statement or a transaction; `Fail` ends a handler anywhere. Between any
two of these, others run. Where the code does not keep what it says under every interleaving, a
*history* variable marks exactly the rows that the bad interleaving has touched, and the property
holds for all others; section 5 has the unqualified statements.

### Dispatch

The variables `account`, `onShift`, `status` and `assignee` are columns. `request` holds
the handlers under way, a record of what each is about and where it stands:

    idle -> lock -> locked -> (checked ->) idle    a transaction under lockOperatorRow
    idle -> update -> idle                         one conditional UPDATE

PostgreSQL runs at READ COMMITTED, so a statement sees what is committed when it starts;
the checks of a transaction are a step (`Check`) apart from its write
(`AcceptSession`, `AssignSession`, ...), and other handlers may commit between the two.
The `WHERE` of each `UPDATE` is a predicate (`FreeInPool`, `Unassigned`,
`HeldByAnother`, `AssignedTo`, ...); when it does not hold nothing is written, as after
P2025. `{ not: operatorId }` is SQL's `<>`, which NULL does not satisfy, hence
`HeldByAnother` asks for an operator. The guard of a request is the JWT guard's view at
its start. `startShift` takes no lock of its own, but its `UPDATE` waits for the row when
it has something to change. `Fail` ends any handler before its commit: a crash, a dropped
connection, or the timeout of an interactive transaction. The cron worker may find any
operator silent; the thresholds are `Presence`'s matter.

### SosTrigger

`lock` is the Redis key, `call` the handlers. `SET NX` may succeed, find the key taken,
or fail with the key set all the same (`AcquireFails`); the code then goes on without
the lock. `ExpireLock` takes the key away at any time, from a working holder too: the
holder does not notice, and its compare-and-delete (`StillOurs`) must not release
somebody else's key. A process that dies, or a `SET` whose reply is lost, leaves a key that nobody
owns, and every start before its TTL is refused (`LockIsTaken`, `AnswerInFlight`). The history `unprotected` marks users for whom a start ran without
the lock; the code gives no promise for them. NEW, ASSIGNED and IN_PROGRESS are one
status here, because this code asks only whether a session is CLOSED. Entitlement is any
outcome.

### ShiftRooms

A handler commits, then moves the operator's sockets one await later; a socket
reads `onShift`, then joins one await later; `dropDeadShifts` commits operator by
operator and tells them after its loop, and a thrown transaction skips the telling
(`CronThrows`). The awaits between a commit and the sockets may throw as well
(`CutShort`: the second read and the heartbeat of `startShift`, the revocation of
`deleteOperator`, the lost answer of any commit), and so may the bootstrap's query
(`ReadFails`); the code answers 500 or logs, and repairs nothing. The history `disturbed` marks
operators whose handlers overlapped or were cut short since they last had no
connection. It separates what the code does keep (`RoomFollowsShift`) from what its
comments promise without that condition (section 5).

### Notices

One call, and the operators' apps. A handler reads the previous operator where the code
does (`TellPrevious`), commits and takes along the row it got (`Write`), sends
(`Tell`), and, when the call is free again, asks for the busy operators and offers it
(`AskBusy`, `Offer`). A connecting operator joins, reads their own calls, reads the
pool, and gets the snapshot (`Connect` ... `Snapshot`); when one of the queries throws, the
error is logged, the socket stays where it is and nothing is sent (`BootstrapFails`). The app is not in this
repository: `mine` and `offered` record the last thing it was told, which is what the
comments of the gateway assume of it. `Unsent` are the handlers that have committed and not
yet sent all their events; of each of them `earlier` says which of the others committed before it, and
`overtaken` the operators for whom newer news has gone out; so the histories `misled`, `muddled` and `withheld` name exactly those whose last event
was stale, missing or withheld, and `unbriefed` those whose snapshot failed and who have had no news of
the pool since.

### Presence

`age` is the number of ticks since an operator's last sign of life, up to the TTL at which
Redis drops the key; `lock` and `lockLeft` are `cron:stale-assignments` and its TTL; `run` is where
each worker's `checkStaleAssignments` stands: `refresh`, `list`, then for each call of the
list `reclaim` (read the heartbeat) and `write` (the conditional `UPDATE`), `listIdle`, `ask`
(one `MGET`), `drop` (a transaction each), `release`. Thresholds are constants, and
`ThresholdAssumption` is the order that the comments of `operator-presence.ts` demand; the lock's
TTL is at most the reclaim threshold (45 s and 120 s). Failures are those the `catch` blocks name: the lock set
and the reply lost, a failed read of one operator, a failed list, update or drop, some of the refreshing `SET`s
failed, the process dead. `starting` are the operators between the `UPDATE` of `startShift`
and the heartbeat it seeds one await later, or never when Redis is down. The
record of a run keeps, for the properties, how long it has lasted, who has been in the room
throughout (`steady`) and who gave a sign of life after theirs was read (`back`).

### Credentials

A session is a row of `RefreshToken`; `subject` is what is signed into a token for ever, `rows`
what is still in the table. `register`, `login` and `refresh` insert their row at the
very end (`Store`); a change of password or a deletion commits and revokes in a later
statement (`Revoke`), which a crash may skip (`Fail` at `revoke`). A password is the number of the write that
set it, so `openedBy` can say by which one a session was opened, through all its rotations.
`slipped` marks the sessions a revocation could not reach, `overtaken` the accounts deleted
while a link was being made or an administrator's password was on its way.

### Membership

Rows are records, foreign keys are guards and cascades (`Unbind`, `CommitDeleteOrg`), the
unique index on `userId` is `NoRowYet`. A request remembers what it read; a commit that changes
the owner of an organization or the rows of a user marks those still in flight as `outdated`,
and what an outdated one writes is excused (`disordered`, `overtaken`) until the organization has one owner again.
`demoteCurrentOwner` is its two statements: `FindOwner`, and the update of whatever row that was
(`Demoted`). Invite codes are the choice of an organization or a venue in `CommitBind`; the
approval of an application with all its branches is one transaction (`CommitApprove`). The deletion
of an account is its statements: `DeleteRows`, `DeleteApplications`, and `CommitDelete` for the account and
the commit. Each sees what was committed when it began; what it found is gone at the
commit if it is still there, and what came in behind it stays. From the second statement on the row of
the first is `Locked` against every other writer; until then a writer who came first is
waited for. `deleteOperator` does the same with the operator's row locked from the start and no
application to remove, so it has fewer of these interleavings.

### Subscriptions

A decision is one transaction of two `UPDATE`s: the request's row is locked from the first
(`ApproveRow`) to the commit (`ApproveAccount`); the deletion of an account goes over the same
rows in the same order. The partial unique index is `NonePending`. `Tell` is the event and the push after the commit.
The hourly job takes its timestamp, then the lock may expire, then the statement runs. Dates are
moments of a clock that stops at `MaxNow`.

### Profile

`updateMe` reads the number and writes it one await later, with the mark kept or cleared by
what it read; the bot's confirmation checks the user, then the Telegram id, then writes, then
deletes its key; `registerPushToken` is a transaction of two `UPDATE`s whose first one locks the rows it
clears. `unproven`, `doubled` and `clean` are the histories: a number the panel or an overtaken request has
changed, a device registered twice at once, an account deleted with nothing of its own on its way.

## 3. Runs

| Run | Question | Instance | Result |
|---|---|---|---|
| `dispatch` | Do competing transactions keep the board in order, and does every statement look like a step of `CallBoard`? | 2 operators, 2 calls, 2 handlers; 284 885 states | holds |
| `sos_trigger` | Does the lock keep one alarm per person, and does everybody who keeps pressing get past the keys nobody owns? | 1 user, 3 sessions, 3 requests, no symmetry; 267 788 states | holds |
| `shift_rooms` | Do the sockets follow the shift, through handlers that are cut short and overlaps? | 2 operators (one deleted), 2 sockets, 2 requests and the cron run; 1 013 906 states | holds |
| `notices` | Do apps show the truth once all events are sent, unless an event came late or a snapshot failed? | 2 operators, 2 handlers; 2 198 132 states | holds |
| `credentials` | Do sessions, links and passwords end when the code says so? | 1 account, 3 tokens, 1 link, 3 passwords, 2 handlers; 2 254 492 states | holds |
| `membership` | Do owners, venues, applications and placed calls survive overlapping handlers? | 2 users, 2 organizations, 1 venue, 1 application, 1 call, 2 handlers, in three worlds; 1 161 098 states | holds |
| `membership_deletion` | Does the deletion of an account take its memberships with it? | as `membership` | no (finding) |
| `presence` | Does only silence cost a call or a shift, and is the worker a player of `CallBoard`? | 2 operators, 1 call, 1 worker, thresholds 1, 2, 3; 426 148 states | holds |
| `presence_live` | Does silence always cost them in the end, although runs fail, crash and overlap? | 1 operator, 1 call, 2 workers, no symmetry; 208 392 states | holds |
| `subscriptions` | Is each request decided once, in force until its date, and put out after it? | 1 user, 2 requests, 2 handlers, 1 worker, 4 moments; 1 237 284 states | holds |
| `profile` | Is the proven number the account's, the device one person's, the deleted row empty? | 2 users, 2 numbers, 1 Telegram account, 2 devices, 2 keys, 2 handlers; 952 495 states | holds |
| `profile_deleted` | Is the row of every deleted account empty? | 1 of each | no (finding) |

**Why these bounds.** In `Dispatch` every rule relates at most two handlers, two calls and two
operators: a double assignment needs two calls of one operator, a take-over two operators
of one call, and each transaction reads and writes one operator's row and one call. In `SosTrigger` users
never share a key or a session, so one is enough; three requests let a lock expire under one holder, be taken
by the next and be waited for by the third, and three sessions let two follow a closed
one. The proofs remove the bounds of every module altogether (for safety). In `ShiftRooms` two operators let a cron run fail between them, and two sockets are one
operator's two devices; the room of one operator never depends on another's, so that the second
one may be a deleted account, which has no sockets and can still be put on shift. In
`Notices` one event overtakes one other: two handlers suffice, and two operators are the
old one and the new one of a call. In `Credentials` accounts share nothing; three tokens are a login, its refresh and one
more, three passwords two changes after the first. `Membership` has two people, so
that an owner can be replaced, two organizations, so that one can be left for the other, and three
member rows, so that a new one is never one a handler in flight has read; two handlers with
everything at once are too many states, so the initial states are three smaller worlds: two people
and no venue; one person with a venue and an application; one person with a venue and a
call in one organization. What a world does not use is deleted, rejected or closed from the start. In `Presence` only the order of the
thresholds matters, so they are 1, 2 and 3 ticks; overlapping runs need two workers and one
operator, take-overs one worker and two operators. In `Subscriptions` four moments are: asked,
granted, lapsed, renewed. In `Profile` two users compete for a device and a Telegram account.

Symmetry is used where the sets are interchangeable and only safety is checked; the runs with
liveness have none. `CHECK_DEADLOCK FALSE` is set for `SosTrigger`, `Credentials`, `Membership` and `Profile` only: once every
account is deleted and nothing is under way, no request can come any more.

**Fairness.**

- `Dispatch`: none, and no liveness is claimed of it. No handler locks the rows of two operators, so
  waiters cannot wait for each other in a circle.
- `SosTrigger`: weak fairness of a key's TTL and of each handler's next statement, and
  `<>[][~ProperFail]_vars` for each handler: processes may die and queries fail any number of times, but not for ever
  (if every start died before its release, every one would leave a key). Nothing is
  assumed of the person: `RetriesGetThrough` speaks of whoever keeps asking. Its mutant is a `SET` without `EX`.
- `Presence`: weak fairness of the clock and of each worker's next statement (`@Cron` every 30
  seconds; a run that can go on does), and `<>[][~ProperFailure]_vars`: any number of failures
  at any point, but not for ever. That is what lets the run after a crashed one find the
  lock expired. Nothing is assumed of operators. A failure that looks like an ordinary step
  (a read that fails where the call would be passed over) is no failure.
- `Subscriptions`: the job may fail any number of times, but not every time: strong fairness of
  its start and of its `UPDATE`, weak fairness of its steps and of the lock's TTL.

**Mutants.** For every property of a passing run, `PROJECT.json` names a bug under which
the run finds that property violated. The mutated definitions stand beside the ones they
replace, marked *Mutant*, and are used by nothing else.

## 4. Proofs

All are for any sets of operators, calls, users, rows, workers and handlers, any thresholds in the
right order, any length of time. They rest on `NullAssumption` (null values are not ids), in
`Presence` on `ThresholdAssumption` and in `Subscriptions` on `TimeAssumption` (the last moment is a
positive number). Each module proves that an inductive invariant holds initially and is kept by
every step, one lemma per action or per way an action disturbs it, and takes the properties from it.

`DispatchProofs`

- `TypeCorrect`: `Spec => []TypeOK`. `TypeOK` includes `WellFormed`: a handler is at a point its kind
  passes and names what it is about. Without it no step can be resolved to a row.
- `OneCallEach`, `CallsHeldOnShift`, `StatusAndAssigneeAgree`, `ChecksStayTrue`: from

      IInv == TypeOK /\ StatusMatchesAssignee /\ OneCallPerOperator
                     /\ OpenCallHeldOnShift /\ RowLockProtectsChecks

  `OneCallPerOperator` alone is not inductive: an accept writes on the word of a
  check it made one step earlier. `RowLockProtectsChecks` closes the gap: who stands at
  `checked` holds the row alone and what it checked is still true. The proof has a lemma per
  way a step disturbs it: steps that only move a handler (`QuietIInv`), the lock, the check, the
  writes that give a call (`TakeIInv`), the writes that only take calls away (`MoveIInv`),
  going on shift, and leaving it, where the leaver holds the row and so no other handler's
  check about that operator can be standing.
- `ClosedStaysClosed`, `TakenOverByReassignOnly`, `WorkIsLeftAlone`, `DeletedGetNoCall`: the action properties
  `ClosedIsFinal`, `OnlyReassignTakesOver`, `CronLeavesWorkAlone` and `NeverGivenToDeleted`, one case per
  action, from the conditions of each `UPDATE` and, for the last one, from the check under the lock.
- `Refinement`: `Spec => Board!Spec`. `IInv` supplies the guards of the abstract steps: an
  accept's `MayTake` from the check that still holds, `Take` against `HandOver` from whether the call has an
  operator, and `GoOffShift` from the empty hands under the lock.

`PresenceProofs`

- `TypeCorrect`, `OneRunAtATime` (`OverlapNeedsExpiry`), `SilenceCosts` (`OnlySilentLoseCalls`), `LongSilenceCosts`
  (`DropNeedsSilence`), `SocketsProtect` (`ConnectedKeepsCall`), `OnTheWayIsSafe` (`EnRouteUntouched`). The
  invariant is `PInv == Typed /\ HolderMatches /\ RunsOK`. `RunsOK` says what a run knows: whom it
  has picked was silent when it looked and is, unless they have come back; whom it has seen in the
  room throughout is no older than the run; and for the first `LockTTL` ticks of a run
  the lock is its own, with so many ticks left. The last part makes overlap impossible; the middle
  one needs `ReclaimAfter < DropAfter` and `DropAfter <= HeartbeatTTL`.
- `Refinement`: the worker and the clock make moves of `CallBoard` only. A reclaim is the
  abstract release because its `WHERE` asks for the status again; a drop is `GoOffShift` because
  its transaction does.

`AlarmProofs` extends two modules that share no variable, `Notices` and `SosTrigger`.

- Of `SosTrigger`: `SosTypeCorrect`; `LockIsOwn`: a protected start that is deciding owns the key; `DecisionHolds`: what
  it found is still so; `OneOpenSessionEach`: one open session per protected user. The inductive invariant is all
  four: the insert is safe because no other session appeared since the search, because whoever might
  have inserted one would own the same key.
- Of `Notices`: `TypeCorrect`; `OwnCallIsKnown` (`KnowsOwnCall`); `OffersEnd` (`OffersAreFree`); `FreeCallsAreSeen`
  (`FreeCallIsOffered`). The three speak of an app once all events are sent, and the first and the
  last except whoever had a failed bootstrap and nothing since; the invariant has to say what
  holds until then:

      NewsInv == TypeOK /\ WellFormed /\ Joined /\ AbsentUnassigned
                 /\ \A o \in online : Reading(o) \/ Informed(o)

  An operator whose bootstrap has not read yet will read the truth. Of any other one, `Informed` says, for their own
  call and for the offer alike: of all handlers that will still tell `o` something (`PersonalNews`, `PublicNews`) the
  latest to commit tells the truth, or `o` has newer news already; when no such handler is left, what the app shows is
  true, or `o` is marked. "Latest" needs no counting: it is the one all the others are `earlier` than. A
  commit is the latest news from then on and must be true of the row as it leaves it (`OwnNewsAdded`, `OfferAdded`); a
  send removes its handler, and if that was the latest, all the others have just been overtaken (`OwnNewsSent`,
  `OfferSent`); a step without events moves nothing (`NoEventsInformed`). The two stages of an offer, the
  query for the busy operators and the sending, keep their place in the order of commits; a
  disconnection takes the bootstraps of one operator away and leaves the others' news as it was.

`ShiftRoomsProofs`

- `TypeCorrect`; `SocketsFollow` (`RoomFollowsShift`); `DeletionDisconnects` (`DeletedAreDisconnected`). The invariant is
  `RoomInv == TypeOK /\ Shaped /\ \A o \in Operators \ disturbed : Orderly(o)`. `Orderly` says of one operator that one
  handler at a time concerns them (`OneHandler`: a request, a bootstrap or a run of the cron worker, which is what
  `disturbed` is about), that whoever is about to move their sockets will move them the right way, and
  until somebody is they stand where they belong (`InStep`), and that a deleted one has no socket or a request
  about to close it (`Gone`). The lemma the rest leans on is `UnconcernedKeeps`: a step about
  another operator leaves `Orderly` as it was, so that each action is a case about one operator only.

`CredentialsProofs`

- `TypeCorrect`; `SessionsEnd` (`OldSessionsEnd`); `StaysLocked` (`DeletedStaysLocked`); `LinkOnce` (`LinkWorksOnce`);
  `StaysDead` (`NoResurrection`). `CredInv` adds to the properties `RequestsOK` (a token about to be stored is of the current
  password, or of one whose revocation is still to come, or has been missed by it),
  `LinksOK` (a link that is gone stays gone and belongs to an account), `AbsentOwnsNothing` and `NoWayBack`: of a deleted account
  no link is left and no request is under way that could set its password, unless it is marked.

`MembershipProofs`

- `TypeCorrect`; `VenuesMatch` (`VenueOfOwnOrg`); `ApprovedOnce` (`OneOrgPerApplication`); `OwnerIsOne` (`OneOwner`);
  `DeletedIsOut` (`DeletedBelongsNowhere`); `OwnerIsKept` (`OwnerStays`); `OpenCallStays` (`OpenCallKeepsOrg`). The
  invariant is `MemInv == TypeOK /\ RequestsOK /\ VenueOfOwnOrg /\ OneOrgPerApplication /\ OneOwner /\ NothingLeft /\
  PendingHasApplicant`. `RequestsOK` says of a request what it knows for ever (`Known`: whose a row is, of which
  organization a venue) and what it has checked and still stands unless it is outdated (`Stands`). The heart is
  `KnowsOwner`: a request that appoints an owner has read the present one, unless there is none or the
  row it needs is gone and it will be refused. With `OneOwner`, demoting the one row it read then leaves
  no second owner. `NothingLeft` adds to `DeletedBelongsNowhere` that no application of a deleted account
  is pending and that what it has under way is outdated; without that a later approval could give it a row.
  `FoundAll` says of a deletion under way that it has found every membership, or is outdated.

`SubscriptionsProofs`

- `TypeCorrect`, `ApprovedIsInForce` (`InForce`), `DecisionIsTold` (`ToldTheTruth`), `DeletedStayWithout`
  (`DeletedNotEntitled`), `DecisionsAreFinal` (`DecidedOnce`). `SubInv` adds to the properties `WellFormed`,
  `LocksHold` (a locked row is still the PENDING row its holder found, and locked by nobody else) and
  `StampsArePast` (the job compares with a moment that has been). The second is why a decision cannot be
  made twice, the third why an expiry under way spares a renewal.

`ProfileProofs`

- `TypeCorrect`, `MarkIsEarned` (`VerifiedMeansConfirmed`), `TelegramIsPersonal` (`OneTelegramOneUser`),
  `DeviceHasOneOwner` (`OneOwnerPerDevice`), `CleanDeletionLasts` (`CleanStaysWiped`). `ProfInv` adds what
  a handler in flight may rely on (`HandlersOK`): a number it will keep is the account's, and who
  else has the device is about to lose it, unless it is marked `outdated`; that no row is
  locked twice, no key is left of a cleanly deleted user, and every mark was made for a number.

What the comments promise without an exception (section 5) is proved under the condition that takes the exception away:
`DeletedHasNoCall` in `DispatchProofs`, `DeletedHasNoSos`, `InOrderPoolIsShown`, `InOrderOfferEnds` and
`InOrderOwnCallIsShown` in `AlarmProofs`, `InOrderRoomsFollow` in `ShiftRoomsProofs`, `SessionsEndWithPassword` in
`CredentialsProofs`, `OwnerIsNeverLost` and `DeletionTakesAll` in `MembershipProofs`, `DeletedIsWipedForGood` in `ProfileProofs`. The arguments show that the history
variable marks nothing: `disturbed` stays empty because a handler that starts beside another, or is cut short, would break the condition at once; nothing is
`slipped`, because a request that a revocation has passed by is not about to store a row (`WillNotStore`); `disordered` holds
only organizations that have no owner to lose (`Unowned`).

Type correctness is proved of every module and, but for `Membership` and `Notices`, not among the properties of the runs.

Only model-checked: liveness (`RetriesGetThrough`, `SilentLosesCall`,
`DeadShiftEnds`, `FlagGoesOut`), because fairness and `ENABLED` are beyond the prover. Every other property of the passing runs
has a theorem.

## 5. Where the code and its comments part

Two runs end with a counterexample, and `PROJECT.json` quotes the lines that promise
otherwise.

`profile_deleted`: deletion keeps the row of an account, and `confirmTelegramVerification` rejects only when the row is
missing. A key issued before the deletion lives on in Redis; the bot's confirmation then
writes number, mark and Telegram id to the anonymized account, and the unique index keeps this Telegram
account from verifying any other.

`membership_deletion`: the comment of `deleteAccount` says that the memberships are removed; the statement that
removes them is the first of six at READ COMMITTED, and what is committed for the user behind it (an organization
they create, an invite code, the panel, an approval whose application the fourth statement then finds decided)
stays, so that a deleted account may own an organization. `DeletedBelongsNowhere` excludes the `overtaken`. *It takes*
(`MembershipProofs.DeletionTakesAll`): no request commits that is outdated (serializable isolation).

The modules keep further statements, at their ends, that comments of the code make and TLC
refutes on the instances above when they are added as a property. They are the
unqualified forms of properties that are checked and hold with an exception:

1. `Dispatch.NoCallOnDeleted`: an accept that passed the JWT guard before a deletion, for an operator whom
   `setOperatorShift` put on shift again, leaves an open call on the deleted account
   (`startShift` in flight puts a deleted operator on shift in the same way).
   `NeverGivenToDeleted` is what holds: only such an accept does it. *It takes* (`DispatchProofs.DeletedHasNoCall`): no
   accept stands at its commit for an operator deleted since the guard; asking `deletedAt` under the row lock would do.
2. `SosTrigger.NoOpenSosOfDeleted`: `deleteAccount` looks for an open session once, hashes a
   password, and commits without looking again: a call raised in between stays open. *It takes*
   (`AlarmProofs.DeletedHasNoSos`): no start of the same user beside the commit of the deletion.
3. `ShiftRooms.OnShiftAlerted`: room changes can be applied in the other order than their commits: an operator on shift
   is left outside the broadcast room and gets no alarms. One handler alone does it too: `startShift`
   when its second read or its heartbeat fails after the commit (`dispatch.service.ts:154-161`), and the bootstrap
   when its query fails (`websocket.gateway.ts:214-219`). `RoomFollowsShift` excludes the `disturbed`.
4. `ShiftRooms.NoSocketOfDeleted`: a handshake that read its account before the deletion joins its rooms after
   `disconnectUser` has run, and a revocation that throws (`admin.service.ts:545`) skips `disconnectUser` altogether.
   `DeletedAreDisconnected` excludes the `disturbed`. *Both take*
   (`ShiftRoomsProofs.InOrderRoomsFollow`): one handler at a time for each operator, and none that is cut short: no
   request after its commit, no bootstrap before its join, no run of the worker.
5. `Notices.LoserIsTold`: a reassign reads the previous operator before its transaction, so that the one who accepted
   in between is never told of the loss. An app whose bootstrap failed is not told either. `KnowsOwnCall` excludes the `misled`. What the sends are for,
   that every app shows exactly whose the call is once they are done, *takes*
   (`AlarmProofs.InOrderOwnCallIsShown`): the previous operator read is the one at the commit, and the events of a commit
   are sent before the next, and no bootstrap fails.
6. `Notices.OfferEndsWithCall`: `pool_removed` of a closed call can overtake its `emergency:new`: the offer
   stays on the screens. `OffersAreFree` excludes the `muddled`. *It takes* (`AlarmProofs.InOrderOfferEnds`) that
   the events of a commit are sent before the next, and for the whole pool (`InOrderPoolIsShown`), which
   `FreeCallIsOffered` promises but to the `muddled` and the `unbriefed`, that no bootstrap fails besides.
7. `Credentials.OldSessionsEndWithPassword`: a login or refresh in flight stores its token after the revocation, and
   a process that dies between the new password and the revocation leaves every session.
   `OldSessionsEnd` excludes the `slipped`. *It takes* (`CredentialsProofs.SessionsEndWithPassword`): every
   revocation runs, and beside it no login, and no refresh past its check of the row, is under way for the account; until it has run the old sessions stand.
8. `Membership.OwnerNeverLost`: approving an application of an owner, or deleting the owner's account, leaves an
   organization without one, as do two handlers that overlap. `OwnerStays` excludes the `disordered`. *It takes*
   (`MembershipProofs.OwnerIsNeverLost`): no request commits that is outdated (serializable isolation), and whoever is
   deleted or given an organization owns none.

The statement of `profile_deleted` is `Profile.DeletedIsWiped`; *it takes* (`ProfileProofs.DeletedIsWipedForGood`) that a deletion
commits when no request of the user is past the guard and no key is theirs.

The conditions are what the code would have to ensure, and does not. They speak of what the
handlers do and not of the history variables by which the checked properties make their exceptions (`outdated`, in 8, is a mark on
the request itself). TLC finds the statements true under them on the instances of the runs and of these counterexamples.

Three weaknesses no comment denies are in the models as steps. A start
of an SOS is answered "already being processed" while a crashed holder's key stands
(`SosTrigger.LockIsTaken` after `Fail`): nothing ends the wait but the TTL, and `RetriesGetThrough` says only that it ends. `startShift` commits before it seeds the heartbeat
(`dispatch.service.ts:150-161`) and `setOperatorShift(true)` writes none at all, so that the worker may end a shift that has just
begun (`Presence.SeedFails`, `AdminStartsShift`). `updateOperator` (`admin.service.ts:451`) keeps `phoneVerifiedAt` for a new
number, where `updateMe` (`users.service.ts:59-61`) clears it (`Profile.unproven`).

## 6. Not modelled

- Wording, validation, pagination, logging, mail and Expo calls: pure I/O.
- Events to administrators and callers: the same sends to rooms that never change hands.
- `updateOrganization` and `updateVenue`, display names, statistics and history: columns nobody decides
  by, or reads. The texts of invite codes and how they are drawn.
- Emergency contacts: rows only their owner reads and writes, one statement each.
- Configuration, validation of the environment, the error filter, health checks, bootstrap: no state.
- Schema, migrations and seed: the models take types, defaults, unique constraints and referential
  actions from them. The seed is run on an empty database.
- The clients: `Notices` has what an app was last told, `Profile` what the bot calls.

## 7. Plan

What is left: `Presence` composed with the rooms of `ShiftRooms`. Now a socket joins and leaves in one step, and the
list of connected operators that the worker's refresh reads is what `Presence` says it is.
