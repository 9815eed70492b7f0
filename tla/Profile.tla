------------------------------ MODULE Profile ------------------------------
(***************************************************************************)
(* What an account says about its person: the telephone number and whether *)
(* it is proven, the Telegram account that proved it, the device that gets *)
(* the push messages.                                                      *)
(*                                                                         *)
(* A user edits the number, asks for a Telegram link whose key waits in    *)
(* Redis, logs in and out on devices; the bot confirms; an administrator   *)
(* edits an operator; Expo reports dead devices; the account is deleted.   *)
(* All of them read first and write the row of the account some awaits     *)
(* later.  Only registerPushToken writes two rows: the ones it has cleared *)
(* stay locked until it commits.  Names and the texts sent are left out.   *)
(***************************************************************************)
CONSTANTS
    Users, Phones, Telegrams, Devices,   \* a device is an Expo token
    Keys,       \* random tokens of phone-verify:<token>
    Handlers,   \* requests running at the same time
    None        \* NULL

ASSUME NullAssumption ==
    /\ None \notin Users \cup Phones \cup Telegrams \cup Devices \cup Keys
    /\ {"new", "gone"} \cap Users = {}

VARIABLES
    deleted,    \* users with User.deletedAt
    phone,      \* [Users -> Phones or NULL]
    verified,   \* users with phoneVerifiedAt
    telegram,   \* [Users -> Telegrams or NULL], unique
    push,       \* [Users -> Devices or NULL], pushToken
    key,        \* [Keys -> "new", "gone" or the user under the Redis key]
    handler,    \* [Handlers -> HandlerState]
    confirmed,  \* history: the number the bot has confirmed for the account
    unproven,   \* history: users whose number was changed by the panel, or by a
                \* request that had read it before somebody else changed it
    doubled,    \* history: devices registered twice at the same time
    clean       \* history: users deleted with nothing of theirs on its way

person == <<deleted, phone, verified, telegram, push>>
history == <<confirmed, unproven, doubled, clean>>
vars == <<person, key, handler, history>>

-----------------------------------------------------------------------------
Idle == [kind |-> "none", at |-> "idle", user |-> None, phone |-> None, telegram |-> None,
         device |-> None, key |-> None, keep |-> FALSE, rows |-> {}, outdated |-> FALSE]

HandlerState ==
    [kind     : {"none", "updateMe", "updateOperator", "startKey", "confirm",
                 "register", "logout", "delete"},
     at       : {"idle", "read", "found", "write", "own", "forget"},
     user     : Users \cup {None},
     phone    : Phones \cup {None},
     telegram : Telegrams \cup {None},
     device   : Devices \cup {None},
     key      : Keys \cup {None},
     keep     : BOOLEAN,           \* the number read is the one to be written
     rows     : SUBSET Users,      \* cleared and locked
     outdated : BOOLEAN]           \* what it has read has changed since

Holders(d) == {u \in Users : push[u] = d}

Shared(d) == \E u, v \in Holders(d) : u # v

TypeOK ==
    /\ deleted \subseteq Users
    /\ phone \in [Users -> Phones \cup {None}]
    /\ verified \subseteq Users
    /\ telegram \in [Users -> Telegrams \cup {None}]
    /\ push \in [Users -> Devices \cup {None}]
    /\ key \in [Keys -> Users \cup {"new", "gone"}]
    /\ handler \in [Handlers -> HandlerState]
    /\ \A h \in Handlers : handler[h].at = "own" =>
          \A u \in handler[h].rows : push[u] = handler[h].device
    /\ confirmed \in [Users -> Phones \cup {None}]
    /\ unproven \subseteq Users
    /\ doubled \subseteq Devices
    /\ clean \subseteq deleted

Init ==
    /\ deleted = {}
    /\ phone = [u \in Users |-> None]
    /\ verified = {}
    /\ telegram = [u \in Users |-> None]
    /\ push = [u \in Users |-> None]
    /\ key = [k \in Keys |-> "new"]
    /\ handler = [h \in Handlers |-> Idle]
    /\ confirmed = [u \in Users |-> None]
    /\ unproven = {}
    /\ doubled = {}
    /\ clean = {}

-----------------------------------------------------------------------------
At(h, kind, at) == handler[h].kind = kind /\ handler[h].at = at

Answer(h) == handler' = [handler EXCEPT ![h] = Idle]

Receive(h, new) ==
    /\ handler[h] = Idle
    /\ handler' = [handler EXCEPT ![h] = new]
    /\ UNCHANGED <<person, key, history>>

\* JwtStrategy.validate lets deleted accounts do nothing more.
ReceiveOwn(h, u, new) == u \notin deleted /\ Receive(h, [new EXCEPT !.user = u])

\* The row of u is locked by a registration that has not committed.
RowFree(u) == \A h \in Handlers : u \notin handler[h].rows

\* The number of u becomes p: what an updateMe in flight has read is old.
Noticed(u, p) ==
    [h \in Handlers |->
       IF At(h, "updateMe", "write") /\ handler[h].user = u /\ phone[u] # p
       THEN [handler[h] EXCEPT !.outdated = TRUE] ELSE handler[h]]

\* A number is excused as long as it is marked and not the confirmed one.
Excuse(u, yes) ==
    unproven' = {v \in unproven \cup (IF yes THEN {u} ELSE {}) :
                   v \in verified' /\ phone'[v] # confirmed'[v]}

-----------------------------------------------------------------------------
(* The number.                                                             *)

\* updateMe: the number comes with every PATCH.
ReadPhone(h) ==
    LET r == handler[h] IN
    /\ At(h, "updateMe", "read")
    /\ handler' = [handler EXCEPT ![h].at = "write", ![h].keep = phone[r.user] = r.phone]
    /\ UNCHANGED <<person, key, history>>

\* Mutant: the mark survives a new number.
MarkStays(u, keep) == verified

\* "The mark belongs to one number": another number, no mark.
MarkAfter(u, keep) == IF keep THEN verified ELSE verified \ {u}

UpdateMe(h) ==
    LET r == handler[h] IN
    /\ At(h, "updateMe", "write")
    /\ RowFree(r.user)
    /\ phone' = [phone EXCEPT ![r.user] = r.phone]
    /\ verified' = MarkAfter(r.user, r.keep)
    /\ handler' = [Noticed(r.user, r.phone) EXCEPT ![h] = Idle]
    /\ UNCHANGED <<deleted, telegram, push, key, confirmed, doubled, clean>>
    /\ Excuse(r.user, r.outdated)

\* updateOperator leaves phoneVerifiedAt alone.
UpdateOperator(h) ==
    LET r == handler[h] IN
    /\ At(h, "updateOperator", "write")
    /\ RowFree(r.user)
    /\ phone' = [phone EXCEPT ![r.user] = r.phone]
    /\ handler' = [Noticed(r.user, r.phone) EXCEPT ![h] = Idle]
    /\ UNCHANGED <<deleted, verified, telegram, push, key, confirmed, doubled, clean>>
    /\ Excuse(r.user, TRUE)

-----------------------------------------------------------------------------
(* Telegram.                                                               *)

StartTelegramVerification(h, k) ==
    /\ At(h, "startKey", "write")
    /\ key[k] = "new"
    /\ key' = [key EXCEPT ![k] = handler[h].user]
    /\ Answer(h)
    /\ UNCHANGED <<person, history>>

KeyExpires(k) ==
    /\ key[k] \in Users
    /\ key' = [key EXCEPT ![k] = "gone"]
    /\ UNCHANGED <<person, handler, history>>

\* The bot calls confirmTelegramVerification, which asks Redis for the user.
ReceiveConfirm(h, k, p, t) ==
    /\ key[k] \in Users
    /\ Receive(h, [Idle EXCEPT !.kind = "confirm", !.at = "read", !.user = key[k],
                               !.phone = p, !.telegram = t, !.key = k])

TelegramFree(u, t) == \A v \in Users \ {u} : telegram[v] # t

\* The row exists, deleted or not; its number, if any, is the bot's.
FindUser(h) ==
    LET r == handler[h] IN
    /\ At(h, "confirm", "read")
    /\ phone[r.user] \in {None, r.phone}
    /\ handler' = [handler EXCEPT ![h].at = "found"]
    /\ UNCHANGED <<person, key, history>>

\* Nobody else has this Telegram account.
FindTelegram(h) ==
    LET r == handler[h] IN
    /\ At(h, "confirm", "found")
    /\ TelegramFree(r.user, r.telegram)
    /\ handler' = [handler EXCEPT ![h].at = "write"]
    /\ UNCHANGED <<person, key, history>>

\* The unique index looks again.
IndexAllows(u, t) == TelegramFree(u, t)

WriteConfirm(h) ==
    LET r == handler[h] IN
    /\ At(h, "confirm", "write")
    /\ RowFree(r.user)
    /\ IndexAllows(r.user, r.telegram)
    /\ phone' = [phone EXCEPT ![r.user] = r.phone]
    /\ verified' = verified \cup {r.user}
    /\ telegram' = [telegram EXCEPT ![r.user] = r.telegram]
    /\ confirmed' = [confirmed EXCEPT ![r.user] = r.phone]
    /\ handler' = [Noticed(r.user, r.phone) EXCEPT ![h].at = "forget"]
    /\ UNCHANGED <<deleted, push, key, doubled, clean>>
    /\ Excuse(r.user, FALSE)

\* The key is deleted last.
ForgetKey(h) ==
    /\ At(h, "confirm", "forget")
    /\ key' = [key EXCEPT ![handler[h].key] = "gone"]
    /\ Answer(h)
    /\ UNCHANGED <<person, history>>

-----------------------------------------------------------------------------
(* Devices.                                                                *)

\* First UPDATE of registerPushToken: the token is taken from everybody else.
TakeDevice(h) ==
    LET r == handler[h]
        others == Holders(r.device) \ {r.user}
    IN
    /\ At(h, "register", "write")
    /\ \A u \in others : RowFree(u)
    /\ handler' = [handler EXCEPT ![h].at = "own", ![h].rows = others]
    /\ UNCHANGED <<person, key, history>>

\* Mutant: the others keep the token.
ClearedNot(us) == push

Cleared(us) == [u \in Users |-> IF u \in us THEN None ELSE push[u]]

\* Second UPDATE and COMMIT.  A registration of the same device that is between
\* its two UPDATEs has not seen this one.
OwnDevice(h) ==
    LET r == handler[h]
        d == r.device
    IN
    /\ At(h, "register", "own")
    /\ RowFree(r.user)
    /\ push' = [Cleared(r.rows) EXCEPT ![r.user] = d]
    /\ handler' = [g \in Handlers |->
                     IF g = h THEN Idle
                     ELSE IF At(g, "register", "own") /\ handler[g].device = d
                          THEN [handler[g] EXCEPT !.outdated = TRUE]
                          ELSE handler[g]]
    /\ doubled' = {e \in doubled \cup (IF r.outdated THEN {d} ELSE {}) : Shared(e)'}
    /\ UNCHANGED <<deleted, phone, verified, telegram, key, confirmed, unproven, clean>>

\* What takes tokens away: logout of us = {u}, clearDeadTokens of a device.
Unregister(us) ==
    /\ \A u \in us : RowFree(u)
    /\ push' = Cleared(us)
    /\ doubled' = {e \in doubled : Shared(e)'}
    /\ UNCHANGED <<deleted, phone, verified, telegram, key, confirmed, unproven, clean>>

Logout(h) ==
    /\ At(h, "logout", "write")
    /\ Unregister({handler[h].user})
    /\ Answer(h)

\* DeviceNotRegistered
ClearDeadTokens(d) ==
    /\ Holders(d) # {}
    /\ Unregister(Holders(d))
    /\ UNCHANGED handler

-----------------------------------------------------------------------------
(* deleteAccount and deleteOperator.                                       *)

\* Something of u's may still be written: a request past the guard, a live key.
OnItsWay(h, u) ==
    \/ \E g \in Handlers \ {h} : handler[g].user = u
    \/ \E k \in Keys : key[k] = u

\* Mutant: pushToken is forgotten.
PushStays(u) == push

PushWiped(u) == Cleared({u})

DeleteAccount(h) ==
    LET u == handler[h].user IN
    /\ At(h, "delete", "write")
    /\ RowFree(u)
    /\ deleted' = deleted \cup {u}
    /\ phone' = [phone EXCEPT ![u] = None]
    /\ verified' = verified \ {u}
    /\ telegram' = [telegram EXCEPT ![u] = None]
    /\ push' = PushWiped(u)
    /\ confirmed' = [confirmed EXCEPT ![u] = None]
    /\ unproven' = unproven \ {u}
    /\ doubled' = {e \in doubled : Shared(e)'}
    /\ clean' = IF OnItsWay(h, u) THEN clean ELSE clean \cup {u}
    /\ handler' = [Noticed(u, None) EXCEPT ![h] = Idle]
    /\ UNCHANGED key

\* An error answer, a rollback, a deadlock of two registrations, a dead process.
Fail(h) ==
    /\ handler[h] # Idle
    /\ Answer(h)
    /\ UNCHANGED <<person, key, history>>

-----------------------------------------------------------------------------
New(kind, at) == [Idle EXCEPT !.kind = kind, !.at = at]

Receives(h) ==
    \/ \E u \in Users :
        \/ \E kind \in {"startKey", "logout", "delete"} : ReceiveOwn(h, u, New(kind, "write"))
        \/ \E p \in Phones :
            \/ ReceiveOwn(h, u, [New("updateMe", "read") EXCEPT !.phone = p])
            \/ ReceiveOwn(h, u, [New("updateOperator", "write") EXCEPT !.phone = p])
        \/ \E d \in Devices : ReceiveOwn(h, u, [New("register", "write") EXCEPT !.device = d])
    \/ \E k \in Keys, p \in Phones, t \in Telegrams : ReceiveConfirm(h, k, p, t)

Proceeds(h) ==
    \/ ReadPhone(h) \/ UpdateMe(h) \/ UpdateOperator(h)
    \/ \E k \in Keys : StartTelegramVerification(h, k)
    \/ FindUser(h) \/ FindTelegram(h) \/ WriteConfirm(h) \/ ForgetKey(h)
    \/ TakeDevice(h) \/ OwnDevice(h) \/ Logout(h) \/ DeleteAccount(h)

Next ==
    \/ \E h \in Handlers : Receives(h) \/ Proceeds(h) \/ Fail(h)
    \/ \E k \in Keys : KeyExpires(k)
    \/ \E d \in Devices : ClearDeadTokens(d)

Spec == Init /\ [][Next]_vars

-----------------------------------------------------------------------------
\* A marked number is the one the bot has confirmed for this account, unless the
\* panel changed it or two requests of the user changed it at the same time.
VerifiedMeansConfirmed ==
    \A u \in verified \ unproven : phone[u] # None /\ phone[u] = confirmed[u]

\* One Telegram account proves one user, although two confirmations may both
\* find it free.
OneTelegramOneUser ==
    \A u, v \in Users : telegram[u] # None /\ telegram[u] = telegram[v] => u = v

\* «Один физический телефон — один владелец токена», unless the device was
\* registered for two users at the same time, and then until one of them goes.
OneOwnerPerDevice == \A d \in Devices \ doubled : \A u, v \in Holders(d) : u = v

Wiped(u) == phone[u] = None /\ u \notin verified /\ telegram[u] = None /\ push[u] = None

\* What deletion has wiped stays wiped, if nothing of the user's was on its way:
\* the guard keeps everything later out.
CleanStaysWiped == \A u \in clean : Wiped(u)

-----------------------------------------------------------------------------
(* What the code says and does not keep: see section 5 of README.md.       *)

\* deleteAccount: «all PII fields are wiped»; confirmTelegramVerification: «Token
\* outlived the user account — clean up and reject».
DeletedIsWiped == \A u \in deleted : Wiped(u)
=============================================================================
