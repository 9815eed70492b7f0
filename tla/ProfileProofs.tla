---------------------------- MODULE ProfileProofs ----------------------------
(* Profile for any number of users, numbers, Telegram accounts, devices and  *)
(* requests.                                                                 *)
EXTENDS Profile, TLAPS

\* What a request in flight may rely on.  The last two are what it has read and
\* would be marked for, had it changed: the number updateMe keeps is the
\* account's, and who else has the device is about to lose it.
HandlerOK(r) ==
    /\ r = Idle \/ (r.at # "idle" /\ r.user \in Users \ clean)
    /\ r.kind \in {"updateMe", "updateOperator", "confirm"} => r.phone \in Phones
    /\ r.kind = "confirm" => r.telegram \in Telegrams
    /\ r.kind = "register" => r.device \in Devices
    /\ r.rows # {} => r.at = "own"
    /\ r.at = "own" =>
          r.kind = "register" /\ \A u \in r.rows : push[u] = r.device
    /\ r.kind = "updateMe" /\ r.at = "write" /\ r.keep /\ ~r.outdated => phone[r.user] = r.phone
    /\ r.at = "own" /\ ~r.outdated => Holders(r.device) \subseteq r.rows \cup {r.user}

HandlersOK == \A h \in Handlers : HandlerOK(handler[h])

\* No row is locked twice.
RowsApart == \A g, h \in Handlers : g # h => handler[g].rows \cap handler[h].rows = {}

\* No key in Redis is left of a user who went with nothing on its way.
NoKeyOfClean == \A k \in Keys : key[k] \notin clean

\* A mark was made for a number.
MarkHasNumber == \A u \in verified : confirmed[u] # None

ProfInv ==
    /\ TypeOK
    /\ HandlersOK
    /\ RowsApart
    /\ NoKeyOfClean
    /\ MarkHasNumber
    /\ VerifiedMeansConfirmed
    /\ OneTelegramOneUser
    /\ OneOwnerPerDevice
    /\ CleanStaysWiped

LEMMA IdleIsOK == Idle \in HandlerState /\ HandlerOK(Idle) /\ Idle.rows = {}
  BY DEF Idle, HandlerState, HandlerOK

LEMMA InitProfInv == Init => ProfInv
<1> SUFFICES ASSUME Init PROVE ProfInv
  OBVIOUS
<1> USE NullAssumption DEF Init
<1>1. HandlersOK /\ RowsApart BY IdleIsOK DEF HandlersOK, RowsApart
<1>2. TypeOK BY IdleIsOK DEF TypeOK, Idle
<1>3. /\ NoKeyOfClean /\ MarkHasNumber /\ VerifiedMeansConfirmed
      /\ OneTelegramOneUser /\ CleanStaysWiped
  BY DEF NoKeyOfClean, MarkHasNumber, VerifiedMeansConfirmed, OneTelegramOneUser, CleanStaysWiped
<1>4. OneOwnerPerDevice BY DEF OneOwnerPerDevice, Holders
<1>5. QED BY <1>1, <1>2, <1>3, <1>4 DEF ProfInv

-----------------------------------------------------------------------------
(* Steps that write no account.                                            *)

LEMMA MoveKeeps ==
    ASSUME ProfInv, NEW h \in Handlers, NEW new \in HandlerState,
           handler' = [handler EXCEPT ![h] = new],
           UNCHANGED <<person, history>>,
           key' \in [Keys -> Users \cup {"new", "gone"}],
           \A k \in Keys : key'[k] \notin clean,
           HandlerOK(new),
           \A g \in Handlers \ {h} : new.rows \cap handler[g].rows = {}
    PROVE  ProfInv'
<1> USE DEF ProfInv, person, history
<1>1. \A g \in Handlers : handler'[g] = IF g = h THEN new ELSE handler[g]
  BY DEF TypeOK
<1>2. \A r \in HandlerState : HandlerOK(r) => HandlerOK(r)'
  BY DEF HandlerOK, Holders
<1>3. handler \in [Handlers -> HandlerState] /\ handler' \in [Handlers -> HandlerState]
  BY DEF TypeOK
<1>4. HandlersOK'
  <2> SUFFICES ASSUME NEW g \in Handlers PROVE HandlerOK(handler[g])'
    BY DEF HandlersOK
  <2>1. HandlerOK(handler'[g]) BY <1>1 DEF HandlersOK
  <2>2. handler'[g] \in HandlerState BY <1>3
  <2>3. QED BY <2>1, <2>2 DEF HandlerOK, Holders
<1>5. RowsApart' BY <1>1 DEF RowsApart
<1>6. TypeOK' BY <1>3, <1>4 DEF TypeOK, HandlersOK, HandlerOK
<1>7. NoKeyOfClean' BY DEF NoKeyOfClean
<1>8. MarkHasNumber' /\ VerifiedMeansConfirmed' /\ OneTelegramOneUser' /\ CleanStaysWiped'
  BY DEF MarkHasNumber, VerifiedMeansConfirmed, OneTelegramOneUser, CleanStaysWiped, Wiped
<1>9. OneOwnerPerDevice' BY DEF OneOwnerPerDevice, Holders
<1>10. QED BY <1>4, <1>5, <1>6, <1>7, <1>8, <1>9

LEMMA AnswerKeeps ==
    ASSUME ProfInv, NEW h \in Handlers, Answer(h), UNCHANGED <<person, history>>,
           key' \in [Keys -> Users \cup {"new", "gone"}],
           \A k \in Keys : key'[k] \notin clean
    PROVE  ProfInv'
  BY MoveKeeps, IdleIsOK DEF Answer

LEMMA ReceiveKeeps ==
    ASSUME ProfInv, NEW h \in Handlers, NEW new \in HandlerState, Receive(h, new),
           HandlerOK(new), new.rows = {}
    PROVE  ProfInv'
  BY MoveKeeps DEF Receive, ProfInv, TypeOK, NoKeyOfClean

LEMMA ReceivesKeep ==
    ASSUME ProfInv, NEW h \in Handlers, Receives(h)
    PROVE  ProfInv'
<1> USE NullAssumption DEF Idle, HandlerState, HandlerOK
<1>0. clean \subseteq deleted /\ deleted \subseteq Users BY DEF ProfInv, TypeOK
<1>1. ASSUME NEW u \in Users, NEW kind \in {"startKey", "logout", "delete"},
             ReceiveOwn(h, u, New(kind, "write"))
      PROVE  ProfInv'
  <2> DEFINE new == [New(kind, "write") EXCEPT !.user = u]
  <2>1. new \in HandlerState /\ HandlerOK(new) /\ new.rows = {}
    BY <1>0, <1>1 DEF New, ReceiveOwn
  <2>2. Receive(h, new) BY <1>1 DEF ReceiveOwn
  <2> HIDE DEF new
  <2>3. QED BY <2>1, <2>2, ReceiveKeeps
<1>2. ASSUME NEW u \in Users, NEW p \in Phones,
             ReceiveOwn(h, u, [New("updateMe", "read") EXCEPT !.phone = p])
      PROVE  ProfInv'
  <2> DEFINE new == [[New("updateMe", "read") EXCEPT !.phone = p] EXCEPT !.user = u]
  <2>1. new \in HandlerState /\ HandlerOK(new) /\ new.rows = {}
    BY <1>0, <1>2 DEF New, ReceiveOwn
  <2>2. Receive(h, new) BY <1>2 DEF ReceiveOwn
  <2> HIDE DEF new
  <2>3. QED BY <2>1, <2>2, ReceiveKeeps
<1>3. ASSUME NEW u \in Users, NEW p \in Phones,
             ReceiveOwn(h, u, [New("updateOperator", "write") EXCEPT !.phone = p])
      PROVE  ProfInv'
  <2> DEFINE new == [[New("updateOperator", "write") EXCEPT !.phone = p] EXCEPT !.user = u]
  <2>1. new \in HandlerState /\ HandlerOK(new) /\ new.rows = {}
    BY <1>0, <1>3 DEF New, ReceiveOwn
  <2>2. Receive(h, new) BY <1>3 DEF ReceiveOwn
  <2> HIDE DEF new
  <2>3. QED BY <2>1, <2>2, ReceiveKeeps
<1>4. ASSUME NEW u \in Users, NEW d \in Devices,
             ReceiveOwn(h, u, [New("register", "write") EXCEPT !.device = d])
      PROVE  ProfInv'
  <2> DEFINE new == [[New("register", "write") EXCEPT !.device = d] EXCEPT !.user = u]
  <2>1. new \in HandlerState /\ HandlerOK(new) /\ new.rows = {}
    BY <1>0, <1>4 DEF New, ReceiveOwn
  <2>2. Receive(h, new) BY <1>4 DEF ReceiveOwn
  <2> HIDE DEF new
  <2>3. QED BY <2>1, <2>2, ReceiveKeeps
<1>5. ASSUME NEW k \in Keys, NEW p \in Phones, NEW t \in Telegrams, ReceiveConfirm(h, k, p, t)
      PROVE  ProfInv'
  <2> DEFINE new == [Idle EXCEPT !.kind = "confirm", !.at = "read", !.user = key[k],
                                 !.phone = p, !.telegram = t, !.key = k]
  <2>1. key[k] \in Users \ clean BY <1>5 DEF ReceiveConfirm, ProfInv, NoKeyOfClean
  <2>2. new \in HandlerState /\ HandlerOK(new) /\ new.rows = {} BY <2>1
  <2>3. Receive(h, new) BY <1>5 DEF ReceiveConfirm
  <2> HIDE DEF new
  <2>4. QED BY <2>2, <2>3, ReceiveKeeps
<1>6. QED BY <1>1, <1>2, <1>3, <1>4, <1>5 DEF Receives

LEMMA MovesOnKeep ==
    ASSUME ProfInv, NEW h \in Handlers,
           ReadPhone(h) \/ FindUser(h) \/ FindTelegram(h) \/ TakeDevice(h)
    PROVE  ProfInv'
<1> DEFINE r == handler[h]
<1>0. r \in HandlerState /\ HandlerOK(r) /\ r # Idle
  BY DEF ProfInv, TypeOK, HandlersOK, ReadPhone, FindUser, FindTelegram, TakeDevice, At, Idle
<1> HIDE DEF r
<1> USE DEF At
<1>1. /\ UNCHANGED <<person, history>>
      /\ key' \in [Keys -> Users \cup {"new", "gone"}] /\ \A k \in Keys : key'[k] \notin clean
  BY DEF ReadPhone, FindUser, FindTelegram, TakeDevice, ProfInv, TypeOK, NoKeyOfClean
<1>2. CASE ReadPhone(h)
  <2> DEFINE new == [r EXCEPT !.at = "write", !.keep = phone[r.user] = r.phone]
  <2>1. /\ handler' = [handler EXCEPT ![h] = new] /\ r.kind = "updateMe" /\ r.at = "read"
    BY <1>2 DEF ReadPhone, r
  <2>2. new \in HandlerState /\ HandlerOK(new) /\ new.rows = {}
    BY <1>0, <2>1 DEF Idle, HandlerState, HandlerOK
  <2> HIDE DEF new
  <2>3. QED BY <1>1, <2>1, <2>2, MoveKeeps
<1>3. CASE FindUser(h) \/ FindTelegram(h)
  <2> DEFINE to == IF FindUser(h) THEN "found" ELSE "write"
             new == [r EXCEPT !.at = to]
  <2>1. /\ handler' = [handler EXCEPT ![h] = new] /\ r.kind = "confirm"
        /\ r.at \in {"read", "found"}
    BY <1>3 DEF FindUser, FindTelegram, r
  <2>2. to \in {"found", "write"} OBVIOUS
  <2> HIDE DEF to
  <2>3. new \in HandlerState /\ HandlerOK(new) /\ new.rows = {}
    BY <1>0, <2>1, <2>2 DEF Idle, HandlerState, HandlerOK
  <2> HIDE DEF new
  <2>4. QED BY <1>1, <2>1, <2>3, MoveKeeps
<1>4. CASE TakeDevice(h)
  <2> DEFINE others == Holders(r.device) \ {r.user}
             new == [r EXCEPT !.at = "own", !.rows = others]
  <2>1. /\ handler' = [handler EXCEPT ![h] = new]
        /\ r.kind = "register" /\ r.at = "write" /\ \A u \in others : RowFree(u)
    BY <1>4 DEF TakeDevice, r
  <2>2. others \subseteq Users /\ Holders(r.device) \subseteq others \cup {r.user}
        /\ \A u \in others : push[u] = r.device
    BY DEF Holders
  <2>3. \A g \in Handlers \ {h} : others \cap handler[g].rows = {} BY <2>1 DEF RowFree
  <2> HIDE DEF others
  <2>4. new \in HandlerState /\ HandlerOK(new) /\ new.rows = others
    BY <1>0, <2>1, <2>2 DEF Idle, HandlerState, HandlerOK
  <2> HIDE DEF new
  <2>5. QED BY <1>1, <2>1, <2>3, <2>4, MoveKeeps
<1>5. QED BY <1>2, <1>3, <1>4

LEMMA KeysKeep ==
    ASSUME ProfInv, NEW h \in Handlers, NEW k \in Keys, StartTelegramVerification(h, k)
    PROVE  ProfInv'
<1> USE NullAssumption
<1>0. clean \subseteq Users /\ key \in [Keys -> Users \cup {"new", "gone"}]
  BY DEF ProfInv, TypeOK
<1>1. handler[h].user \in Users \ clean
  BY DEF StartTelegramVerification, At, ProfInv, HandlersOK, HandlerOK, Idle
<1>2. QED BY <1>0, <1>1, AnswerKeeps DEF StartTelegramVerification, ProfInv, NoKeyOfClean

LEMMA EndKeeps ==
    ASSUME ProfInv, NEW h \in Handlers, ForgetKey(h) \/ Fail(h)
    PROVE  ProfInv'
<1>0. clean \subseteq Users /\ key \in [Keys -> Users \cup {"new", "gone"}]
  BY DEF ProfInv, TypeOK
<1>1. QED BY <1>0, AnswerKeeps, NullAssumption DEF ForgetKey, Fail, ProfInv, NoKeyOfClean

LEMMA ExpiryKeeps ==
    ASSUME ProfInv, NEW k \in Keys, KeyExpires(k)
    PROVE  ProfInv'
<1> USE NullAssumption DEF KeyExpires, person, history
<1>0. clean \subseteq Users /\ key' \in [Keys -> Users \cup {"new", "gone"}]
  BY DEF ProfInv, TypeOK
<1>1. TypeOK' /\ HandlersOK' /\ RowsApart'
  BY <1>0 DEF ProfInv, TypeOK, HandlersOK, HandlerOK, RowsApart, Holders
<1>2. NoKeyOfClean' BY <1>0 DEF ProfInv, TypeOK, NoKeyOfClean
<1>3. MarkHasNumber' /\ VerifiedMeansConfirmed' /\ OneTelegramOneUser' /\ OneOwnerPerDevice'
      /\ CleanStaysWiped'
  BY DEF ProfInv, MarkHasNumber, VerifiedMeansConfirmed, OneTelegramOneUser, OneOwnerPerDevice,
         CleanStaysWiped, Wiped, Holders
<1>4. QED BY <1>1, <1>2, <1>3 DEF ProfInv

-----------------------------------------------------------------------------
(* Steps that write an account.                                            *)

LEMMA AgedFields ==
    ASSUME NEW r \in HandlerState, NEW s, s = [r EXCEPT !.outdated = TRUE]
    PROVE  /\ s \in HandlerState /\ s.outdated = TRUE
           /\ s.kind = r.kind /\ s.at = r.at /\ s.user = r.user /\ s.phone = r.phone
           /\ s.telegram = r.telegram /\ s.device = r.device /\ s.rows = r.rows /\ s.keep = r.keep
  BY DEF HandlerState

\* Handler h writes; those in Old have read what it changes, and are marked.
LEMMA OthersAge ==
    ASSUME ProfInv, NEW h \in Handlers, NEW Old \in SUBSET Handlers,
           \A g \in Old : handler[g].at # "idle",
           \A g \in Handlers \ {h} :
               handler'[g] = IF g \in Old THEN [handler[g] EXCEPT !.outdated = TRUE] ELSE handler[g],
           handler' \in [Handlers -> HandlerState],
           HandlerOK(handler[h])', handler'[h].rows = {},
           \A g \in Handlers \ {h} : handler[g] # Idle => handler[g].user \notin clean',
           \A g \in Handlers \ {h} : \A v \in handler[g].rows : push'[v] = push[v],
           \A g \in Handlers \ {h} : g \notin Old /\ At(g, "updateMe", "write") =>
               phone'[handler[g].user] = phone[handler[g].user],
           \A g \in Handlers \ {h} : g \notin Old /\ handler[g].at = "own" =>
               Holders(handler[g].device)' \subseteq Holders(handler[g].device)
    PROVE  HandlersOK' /\ RowsApart'
           /\ \A g \in Handlers : handler'[g].at = "own" =>
                 \A u \in handler'[g].rows : push'[u] = handler'[g].device
<1>0. handler \in [Handlers -> HandlerState] BY DEF ProfInv, TypeOK
<1>1. \A g \in Handlers \ {h} :
        /\ handler'[g].kind = handler[g].kind /\ handler'[g].at = handler[g].at
        /\ handler'[g].user = handler[g].user /\ handler'[g].phone = handler[g].phone
        /\ handler'[g].telegram = handler[g].telegram /\ handler'[g].device = handler[g].device
        /\ handler'[g].rows = handler[g].rows /\ handler'[g].keep = handler[g].keep
        /\ g \in Old => handler'[g].outdated = TRUE
        /\ g \notin Old => handler'[g] = handler[g]
  <2> SUFFICES ASSUME NEW g \in Handlers \ {h} PROVE <1>1!(g)
    OBVIOUS
  <2>1. CASE g \in Old
    <3>1. handler[g] \in HandlerState /\ handler'[g] = [handler[g] EXCEPT !.outdated = TRUE]
      BY <1>0, <2>1
    <3> HIDE <1>0
    <3>2. QED BY <2>1, <3>1, AgedFields
  <2>2. QED BY <2>1
<1>2. ASSUME NEW g \in Handlers \ {h} PROVE HandlerOK(handler[g])'
  <2>0. HandlerOK(handler[g]) BY DEF ProfInv, HandlersOK
  <2>1. handler'[g] = Idle \/ (handler'[g].at # "idle" /\ handler'[g].user \in Users \ clean')
    BY <1>1, <2>0 DEF HandlerOK, Idle
  <2>2. handler[g].at = "own" => \A u \in handler'[g].rows : push'[u] = handler'[g].device
    BY <1>1, <2>0 DEF HandlerOK
  <2>3. handler'[g].kind = "updateMe" /\ handler'[g].at = "write" /\ handler'[g].keep
        /\ ~handler'[g].outdated => phone'[handler'[g].user] = handler'[g].phone
    BY <1>1, <2>0 DEF HandlerOK, At
  <2>4. handler'[g].at = "own" /\ ~handler'[g].outdated =>
          Holders(handler[g].device)' \subseteq handler[g].rows \cup {handler[g].user}
    BY <1>1, <2>0 DEF HandlerOK
  <2>5. QED BY <1>1, <2>0, <2>1, <2>2, <2>3, <2>4 DEF HandlerOK
<1>3. HandlersOK' BY <1>2 DEF HandlersOK
<1>4. RowsApart' BY <1>1 DEF ProfInv, RowsApart
<1>5. QED BY <1>3, <1>4 DEF HandlersOK, HandlerOK

\* u's number becomes p; h ends or goes on to nothing but its last step.
LEMMA NumberWritten ==
    ASSUME ProfInv, NEW h \in Handlers, NEW u \in Users, NEW p \in Phones \cup {None},
           NEW new \in HandlerState,
           handler' = [Noticed(u, p) EXCEPT ![h] = new],
           new = Idle \/ (new.at = "forget" /\ new.user \in Users \ clean /\ new.phone \in Phones
                          /\ new.telegram \in Telegrams /\ new.rows = {}
                          /\ new.kind = "confirm"),
           new = Idle \/ clean' = clean,
           phone' = [phone EXCEPT ![u] = p],
           \A g \in Handlers \ {h} : handler[g] # Idle => handler[g].user \notin clean',
           \A g \in Handlers \ {h} : \A v \in handler[g].rows : push'[v] = push[v],
           \A d \in Devices : Holders(d)' \subseteq Holders(d)
    PROVE  /\ HandlersOK' /\ RowsApart' /\ handler' \in [Handlers -> HandlerState]
           /\ \A g \in Handlers : handler'[g].at = "own" =>
                 \A v \in handler'[g].rows : push'[v] = handler'[g].device
<1> DEFINE Old == {g \in Handlers : At(g, "updateMe", "write") /\ handler[g].user = u /\ phone[u] # p}
<1>0. handler \in [Handlers -> HandlerState] /\ phone \in [Users -> Phones \cup {None}]
  BY DEF ProfInv, TypeOK
<1>1. Noticed(u, p) =
        [g \in Handlers |-> IF g \in Old THEN [handler[g] EXCEPT !.outdated = TRUE] ELSE handler[g]]
  BY DEF Noticed
<1>2. Noticed(u, p) \in [Handlers -> HandlerState]
  <2> SUFFICES ASSUME NEW g \in Handlers PROVE [handler[g] EXCEPT !.outdated = TRUE] \in HandlerState
    BY <1>0, <1>1
  <2>1. handler[g] \in HandlerState BY <1>0
  <2>2. QED BY <2>1, AgedFields
<1>3. /\ handler' \in [Handlers -> HandlerState]
      /\ handler'[h] = new
      /\ \A g \in Handlers \ {h} : handler'[g] = Noticed(u, p)[g]
  BY <1>2
<1>4. \A g \in Handlers \ {h} :
        handler'[g] = IF g \in Old THEN [handler[g] EXCEPT !.outdated = TRUE] ELSE handler[g]
  BY <1>1, <1>3
<1>5. HandlerOK(handler[h])' /\ handler'[h].rows = {}
  BY <1>3 DEF HandlerOK, Idle
<1>6. Old \in SUBSET Handlers /\ \A g \in Old : handler[g].at # "idle" BY DEF At
<1>7. \A g \in Handlers \ {h} : g \notin Old /\ At(g, "updateMe", "write") =>
        phone'[handler[g].user] = phone[handler[g].user]
  BY <1>0
<1>8. \A g \in Handlers \ {h} : g \notin Old /\ handler[g].at = "own" =>
        Holders(handler[g].device)' \subseteq Holders(handler[g].device)
  <2> SUFFICES ASSUME NEW g \in Handlers \ {h}, g \notin Old, handler[g].at = "own"
               PROVE  Holders(handler[g].device)' \subseteq Holders(handler[g].device)
    OBVIOUS
  <2>1. handler'[g] = handler[g] BY <1>4
  <2>2. handler[g].device \in Devices BY DEF ProfInv, HandlersOK, HandlerOK
  <2>3. QED BY <2>1, <2>2 DEF Holders
<1> HIDE DEF Old
<1>9. QED BY <1>3, <1>4, <1>5, <1>6, <1>7, <1>8, OthersAge

\* What the writers of a number leave: the mark is right or excused.
LEMMA NumberKeeps ==
    ASSUME ProfInv, NEW h \in Handlers, NEW yes \in BOOLEAN, NEW p \in Phones,
           At(h, "updateMe", "write") \/ At(h, "updateOperator", "write"),
           phone' = [phone EXCEPT ![handler[h].user] = p],
           verified' \subseteq verified,
           handler[h].user \in verified' /\ ~yes => phone[handler[h].user] = p,
           handler' = [Noticed(handler[h].user, p) EXCEPT ![h] = Idle],
           UNCHANGED <<deleted, telegram, push, key, confirmed, doubled, clean>>,
           Excuse(handler[h].user, yes)
    PROVE  ProfInv'
<1> PICK u \in Users \ clean : u = handler[h].user
  BY DEF At, ProfInv, HandlersOK, HandlerOK, Idle
<1>0. phone \in [Users -> Phones \cup {None}] /\ clean \subseteq Users /\ verified \subseteq Users
  BY DEF ProfInv, TypeOK
<1>1. phone' \in [Users -> Phones \cup {None}] /\ \A v \in Users \ {u} : phone'[v] = phone[v]
  BY <1>0
<1>2. unproven' = {v \in unproven \cup (IF yes THEN {u} ELSE {}) :
                     v \in verified' /\ phone'[v] # confirmed'[v]}
  BY DEF Excuse
<1>3. /\ HandlersOK' /\ RowsApart' /\ handler' \in [Handlers -> HandlerState]
      /\ \A g \in Handlers : handler'[g].at = "own" =>
            \A v \in handler'[g].rows : push'[v] = handler'[g].device
  <2>1. \A g \in Handlers \ {h} : handler[g] # Idle => handler[g].user \notin clean'
    BY DEF ProfInv, HandlersOK, HandlerOK
  <2>2. \A d \in Devices : Holders(d)' \subseteq Holders(d) BY DEF Holders
  <2>3. QED BY <2>1, <2>2, IdleIsOK, NumberWritten
<1>4. TypeOK' BY <1>0, <1>1, <1>2, <1>3 DEF ProfInv, TypeOK
<1>5. NoKeyOfClean' /\ MarkHasNumber' /\ OneTelegramOneUser' /\ OneOwnerPerDevice'
  BY DEF ProfInv, NoKeyOfClean, MarkHasNumber, OneTelegramOneUser, OneOwnerPerDevice, Holders
<1>6. CleanStaysWiped'
  BY <1>0, <1>1 DEF ProfInv, CleanStaysWiped, Wiped
<1>7. VerifiedMeansConfirmed'
  <2> SUFFICES ASSUME NEW v \in verified', v \notin unproven'
               PROVE  phone'[v] # None /\ phone'[v] = confirmed[v]
    BY DEF VerifiedMeansConfirmed
  <2>1. v \in Users /\ v \in verified /\ confirmed[v] # None
    BY <1>0 DEF ProfInv, MarkHasNumber
  <2>2. CASE v \in unproven \cup (IF yes THEN {u} ELSE {}) BY <1>2, <2>1, <2>2
  <2>3. CASE v \notin unproven /\ ~(yes /\ v = u)
    <3>1. phone'[v] = phone[v] BY <1>0, <1>1, <2>1, <2>3
    <3>2. QED BY <2>1, <2>3, <3>1 DEF ProfInv, VerifiedMeansConfirmed
  <2>4. QED BY <2>2, <2>3
<1>8. QED BY <1>3, <1>4, <1>5, <1>6, <1>7 DEF ProfInv

LEMMA UpdateKeeps ==
    ASSUME ProfInv, NEW h \in Handlers, UpdateMe(h) \/ UpdateOperator(h)
    PROVE  ProfInv'
<1>0. handler[h] \in HandlerState /\ HandlerOK(handler[h]) BY DEF ProfInv, TypeOK, HandlersOK
<1> PICK p \in Phones : p = handler[h].phone
  BY <1>0 DEF UpdateMe, UpdateOperator, At, HandlerOK
<1>1. CASE UpdateMe(h)
  <2> PICK yes \in BOOLEAN : yes = handler[h].outdated BY <1>0 DEF HandlerState
  <2>1. /\ At(h, "updateMe", "write")
        /\ phone' = [phone EXCEPT ![handler[h].user] = p]
        /\ verified' = MarkAfter(handler[h].user, handler[h].keep)
        /\ handler' = [Noticed(handler[h].user, p) EXCEPT ![h] = Idle]
        /\ UNCHANGED <<deleted, telegram, push, key, confirmed, doubled, clean>>
        /\ Excuse(handler[h].user, yes)
    BY <1>1 DEF UpdateMe
  <2>2. verified' \subseteq verified BY <2>1 DEF MarkAfter
  <2>3. handler[h].user \in verified' /\ ~yes => phone[handler[h].user] = p
    BY <1>0, <2>1 DEF MarkAfter, HandlerOK, At
  <2>4. QED BY <2>1, <2>2, <2>3, NumberKeeps
<1>2. CASE UpdateOperator(h)
  <2>1. /\ At(h, "updateOperator", "write")
        /\ phone' = [phone EXCEPT ![handler[h].user] = p]
        /\ verified' \subseteq verified
        /\ handler' = [Noticed(handler[h].user, p) EXCEPT ![h] = Idle]
        /\ UNCHANGED <<deleted, telegram, push, key, confirmed, doubled, clean>>
        /\ Excuse(handler[h].user, TRUE)
    BY <1>2 DEF UpdateOperator
  <2>2. QED BY <2>1, NumberKeeps
<1>3. QED BY <1>1, <1>2

LEMMA WriteConfirmKeeps ==
    ASSUME ProfInv, NEW h \in Handlers, WriteConfirm(h)
    PROVE  ProfInv'
<1>0. handler[h] \in HandlerState /\ HandlerOK(handler[h]) /\ handler[h] # Idle
  BY DEF ProfInv, TypeOK, HandlersOK, WriteConfirm, At, Idle
<1> PICK u \in Users \ clean : u = handler[h].user BY <1>0 DEF HandlerOK
<1> PICK p \in Phones : p = handler[h].phone BY <1>0 DEF HandlerOK, WriteConfirm, At
<1> PICK t \in Telegrams : t = handler[h].telegram BY <1>0 DEF HandlerOK, WriteConfirm, At
<1>1. /\ At(h, "confirm", "write")
      /\ TelegramFree(u, t)
      /\ phone' = [phone EXCEPT ![u] = p]
      /\ verified' = verified \cup {u}
      /\ telegram' = [telegram EXCEPT ![u] = t]
      /\ confirmed' = [confirmed EXCEPT ![u] = p]
      /\ handler' = [Noticed(u, p) EXCEPT ![h].at = "forget"]
      /\ UNCHANGED <<deleted, push, key, doubled, clean>>
      /\ unproven' = {v \in unproven : v \in verified' /\ phone'[v] # confirmed'[v]}
  BY DEF WriteConfirm, IndexAllows, Excuse
<1>2. /\ HandlersOK' /\ RowsApart' /\ handler' \in [Handlers -> HandlerState]
      /\ \A g \in Handlers : handler'[g].at = "own" =>
            \A v \in handler'[g].rows : push'[v] = handler'[g].device
  <2> DEFINE new == [handler[h] EXCEPT !.at = "forget"]
  <2>1. Noticed(u, p)[h] = handler[h] BY <1>1 DEF Noticed, At
  <2>2. handler' = [Noticed(u, p) EXCEPT ![h] = new] BY <1>1, <2>1
  <2>3. new \in HandlerState /\ new.at = "forget" /\ new.user = u /\ new.phone = p
        /\ new.telegram = t /\ new.rows = handler[h].rows /\ new.kind = "confirm"
    BY <1>0, <1>1 DEF HandlerState, At
  <2>4. new.rows = {} BY <1>0, <1>1, <2>3 DEF HandlerOK, At
  <2>5. \A g \in Handlers \ {h} : handler[g] # Idle => handler[g].user \notin clean'
    BY <1>1 DEF ProfInv, HandlersOK, HandlerOK
  <2>6. \A d \in Devices : Holders(d)' \subseteq Holders(d) BY <1>1 DEF Holders
  <2>7. /\ new.user \in Users \ clean /\ new.phone \in Phones /\ new.telegram \in Telegrams
        /\ clean' = clean /\ phone' = [phone EXCEPT ![u] = p]
        /\ \A g \in Handlers \ {h} : \A v \in handler[g].rows : push'[v] = push[v]
    BY <1>1, <2>3
  <2> HIDE DEF new
  <2>8. QED BY <2>2, <2>3, <2>4, <2>5, <2>6, <2>7, NumberWritten
<1>3. /\ phone' \in [Users -> Phones \cup {None}] /\ telegram' \in [Users -> Telegrams \cup {None}]
      /\ confirmed' \in [Users -> Phones \cup {None}]
      /\ phone'[u] = p /\ telegram'[u] = t /\ confirmed'[u] = p
      /\ \A v \in Users \ {u} :
            phone'[v] = phone[v] /\ telegram'[v] = telegram[v] /\ confirmed'[v] = confirmed[v]
  BY <1>1 DEF ProfInv, TypeOK
<1>4. TypeOK' BY <1>1, <1>2, <1>3 DEF ProfInv, TypeOK
<1>5. NoKeyOfClean' /\ OneOwnerPerDevice'
  BY <1>1 DEF ProfInv, NoKeyOfClean, OneOwnerPerDevice, Holders
<1>6. MarkHasNumber' /\ VerifiedMeansConfirmed'
  BY <1>1, <1>3, NullAssumption
     DEF ProfInv, TypeOK, MarkHasNumber, VerifiedMeansConfirmed
<1>7. OneTelegramOneUser'
  BY <1>1, <1>3 DEF ProfInv, OneTelegramOneUser, TelegramFree
<1>8. CleanStaysWiped' BY <1>1, <1>3 DEF ProfInv, TypeOK, CleanStaysWiped, Wiped
<1>9. QED BY <1>2, <1>4, <1>5, <1>6, <1>7, <1>8 DEF ProfInv

\* Nothing but the devices of some users changes, and those whose row is locked
\* by a request in flight keep theirs.
LEMMA DevicesKeep ==
    ASSUME ProfInv, UNCHANGED <<deleted, phone, verified, telegram, confirmed, unproven, key, clean>>,
           push' \in [Users -> Devices \cup {None}], doubled' \subseteq Devices,
           HandlersOK', RowsApart', handler' \in [Handlers -> HandlerState],
           \A u \in clean : push'[u] = None,
           OneOwnerPerDevice'
    PROVE  ProfInv'
<1>1. TypeOK' BY DEF ProfInv, TypeOK, HandlersOK, HandlerOK
<1>2. NoKeyOfClean' /\ MarkHasNumber' /\ VerifiedMeansConfirmed' /\ OneTelegramOneUser'
  BY DEF ProfInv, NoKeyOfClean, MarkHasNumber, VerifiedMeansConfirmed, OneTelegramOneUser
<1>3. CleanStaysWiped' BY DEF ProfInv, CleanStaysWiped, Wiped
<1>4. QED BY <1>1, <1>2, <1>3 DEF ProfInv

\* A registration that nobody has overtaken leaves its user as the only holder.
LEMMA OwnDeviceKeeps ==
    ASSUME ProfInv, NEW h \in Handlers, OwnDevice(h)
    PROVE  ProfInv'
<1>0. handler[h] \in HandlerState /\ HandlerOK(handler[h]) /\ handler[h] # Idle
      /\ handler \in [Handlers -> HandlerState] /\ push \in [Users -> Devices \cup {None}]
  BY DEF ProfInv, TypeOK, HandlersOK, OwnDevice, At, Idle
<1> PICK u \in Users \ clean : u = handler[h].user BY <1>0 DEF HandlerOK
<1> PICK d \in Devices : d = handler[h].device BY <1>0 DEF HandlerOK, OwnDevice, At
<1> DEFINE rows == handler[h].rows
           Old == {g \in Handlers \ {h} : At(g, "register", "own") /\ handler[g].device = d}
<1>1. /\ At(h, "register", "own") /\ RowFree(u)
      /\ push' = [Cleared(rows) EXCEPT ![u] = d]
      /\ handler' = [g \in Handlers |->
                       IF g = h THEN Idle
                       ELSE IF At(g, "register", "own") /\ handler[g].device = d
                            THEN [handler[g] EXCEPT !.outdated = TRUE] ELSE handler[g]]
      /\ doubled' = {e \in doubled \cup (IF handler[h].outdated THEN {d} ELSE {}) : Shared(e)'}
      /\ UNCHANGED <<deleted, phone, verified, telegram, key, confirmed, unproven, clean>>
  BY DEF OwnDevice
<1>2. /\ push' \in [Users -> Devices \cup {None}] /\ push'[u] = d
      /\ \A v \in Users \ {u} : push'[v] = IF v \in rows THEN None ELSE push[v]
  BY <1>0, <1>1 DEF Cleared
<1>3. handler' \in [Handlers -> HandlerState]
  <2>1. \A g \in Handlers : [handler[g] EXCEPT !.outdated = TRUE] \in HandlerState
    <3> TAKE g \in Handlers
    <3>1. handler[g] \in HandlerState BY <1>0
    <3>2. QED BY <3>1, AgedFields
  <2>2. QED BY <1>0, <1>1, <2>1, IdleIsOK
<1>4. handler'[h] = Idle /\ \A g \in Handlers \ {h} :
        handler'[g] = IF g \in Old THEN [handler[g] EXCEPT !.outdated = TRUE] ELSE handler[g]
  BY <1>1
<1>5. HandlersOK' /\ RowsApart'
  <2>1. HandlerOK(handler[h])' /\ handler'[h].rows = {} BY <1>4 DEF HandlerOK, Idle
  <2>2. Old \in SUBSET Handlers /\ \A g \in Old : handler[g].at # "idle" BY DEF At
  <2>3. \A g \in Handlers \ {h} : handler[g] # Idle => handler[g].user \notin clean'
    BY <1>1 DEF ProfInv, HandlersOK, HandlerOK
  <2>4. \A g \in Handlers \ {h} : \A v \in handler[g].rows : push'[v] = push[v]
    <3> SUFFICES ASSUME NEW g \in Handlers \ {h}, NEW v \in handler[g].rows PROVE push'[v] = push[v]
      OBVIOUS
    <3>1. v \in Users BY <1>0 DEF HandlerState
    <3>2. v # u BY <1>1 DEF RowFree
    <3>3. v \notin rows BY DEF ProfInv, RowsApart
    <3>4. QED BY <1>2, <3>1, <3>2, <3>3
  <2>5. \A g \in Handlers \ {h} : g \notin Old /\ At(g, "updateMe", "write") =>
          phone'[handler[g].user] = phone[handler[g].user]
    BY <1>1
  <2>6. \A g \in Handlers \ {h} : g \notin Old /\ handler[g].at = "own" =>
          Holders(handler[g].device)' \subseteq Holders(handler[g].device)
    <3> SUFFICES ASSUME NEW g \in Handlers \ {h}, g \notin Old, handler[g].at = "own"
                 PROVE  Holders(handler[g].device)' \subseteq Holders(handler[g].device)
      OBVIOUS
    <3>1. handler[g].device \in Devices \ {d} /\ handler'[g] = handler[g]
      BY <1>4 DEF ProfInv, HandlersOK, HandlerOK, At
    <3>2. QED BY <1>2, <3>1, NullAssumption DEF Holders
  <2> HIDE DEF Old
  <2>7. QED BY <1>3, <1>4, <2>1, <2>2, <2>3, <2>4, <2>5, <2>6, OthersAge
<1>6. OneOwnerPerDevice'
  <2> SUFFICES ASSUME NEW e \in Devices, e \notin doubled', NEW v \in Holders(e)', NEW w \in Holders(e)'
               PROVE  v = w
    BY DEF OneOwnerPerDevice
  <2>0. v \in Users /\ w \in Users /\ push'[v] = e /\ push'[w] = e BY DEF Holders
  <2>1. CASE e \in doubled \cup (IF handler[h].outdated THEN {d} ELSE {})
    BY <1>1, <2>1 DEF Shared
  <2>2. CASE e \notin doubled /\ e # d
    <3>1. v \in Holders(e) /\ w \in Holders(e) BY <1>2, <2>0, <2>2, NullAssumption DEF Holders
    <3>2. QED BY <2>2, <3>1 DEF ProfInv, OneOwnerPerDevice
  <2>3. CASE e = d /\ ~handler[h].outdated
    <3>1. Holders(d) \subseteq rows \cup {u} BY <1>0, <1>1, <2>3 DEF HandlerOK, At
    <3>2. \A x \in Users \ {u} : push'[x] # d BY <1>2, <3>1, NullAssumption DEF Holders
    <3>3. QED BY <2>0, <2>3, <3>2
  <2>4. QED BY <2>1, <2>2, <2>3
<1>7. doubled' \subseteq Devices BY <1>1 DEF ProfInv, TypeOK
<1>8. \A v \in clean : push'[v] = None
  BY <1>2 DEF ProfInv, TypeOK, CleanStaysWiped, Wiped
<1>9. QED BY <1>1, <1>2, <1>3, <1>5, <1>6, <1>7, <1>8, DevicesKeep

\* Logout and a dead device take tokens away, from rows nobody has locked.
LEMMA UnregisterKeeps ==
    ASSUME ProfInv, NEW us \in SUBSET Users, Unregister(us), UNCHANGED key,
           handler' = handler \/ \E h \in Handlers : handler' = [handler EXCEPT ![h] = Idle]
    PROVE  ProfInv'
<1>0. handler \in [Handlers -> HandlerState] /\ push \in [Users -> Devices \cup {None}]
  BY DEF ProfInv, TypeOK
<1>1. /\ \A v \in us : RowFree(v)
      /\ push' = Cleared(us)
      /\ doubled' = {e \in doubled : Shared(e)'}
      /\ UNCHANGED <<deleted, phone, verified, telegram, key, confirmed, unproven, clean>>
  BY DEF Unregister
<1>2. /\ push' \in [Users -> Devices \cup {None}]
      /\ \A v \in Users : push'[v] = IF v \in us THEN None ELSE push[v]
  BY <1>0, <1>1 DEF Cleared
<1>3. /\ handler' \in [Handlers -> HandlerState]
      /\ \A g \in Handlers : handler'[g] \in {handler[g], Idle}
  BY <1>0, IdleIsOK
<1>4. \A e \in Devices : Holders(e)' \subseteq Holders(e)
  BY <1>2, NullAssumption DEF Holders
<1>5. HandlersOK'
  <2> SUFFICES ASSUME NEW g \in Handlers PROVE HandlerOK(handler[g])'
    BY DEF HandlersOK
  <2>1. CASE handler'[g] = Idle BY <2>1 DEF HandlerOK, Idle
  <2>2. CASE handler'[g] = handler[g]
    <3>1. HandlerOK(handler[g]) /\ handler[g] \in HandlerState
      BY <1>0 DEF ProfInv, HandlersOK
    <3>2. \A v \in handler[g].rows : push'[v] = push[v]
      BY <1>1, <1>2, <3>1 DEF RowFree, HandlerState
    <3>3. handler[g].at = "own" => Holders(handler[g].device)' \subseteq Holders(handler[g].device)
      BY <1>2, <2>2, <3>1, NullAssumption DEF Holders, HandlerOK
    <3>4. QED BY <1>1, <2>2, <3>1, <3>2, <3>3 DEF HandlerOK
  <2>3. QED BY <1>3, <2>1, <2>2
<1>6. RowsApart' BY <1>3 DEF ProfInv, RowsApart, Idle
<1>7. OneOwnerPerDevice'
  <2> SUFFICES ASSUME NEW e \in Devices, e \notin doubled', NEW v \in Holders(e)', NEW w \in Holders(e)'
               PROVE  v = w
    BY DEF OneOwnerPerDevice
  <2>1. CASE e \in doubled BY <1>1, <2>1 DEF Shared
  <2>2. CASE e \notin doubled BY <1>4, <2>2 DEF ProfInv, OneOwnerPerDevice
  <2>3. QED BY <2>1, <2>2
<1>8. doubled' \subseteq Devices BY <1>1 DEF ProfInv, TypeOK
<1>9. \A v \in clean : push'[v] = None
  BY <1>2 DEF ProfInv, TypeOK, CleanStaysWiped, Wiped
<1>10. QED BY <1>1, <1>2, <1>3, <1>5, <1>6, <1>7, <1>8, <1>9, DevicesKeep

\* Whoever goes with nothing on its way is named by no request and no key, and
\* the guard keeps it so.
LEMMA DeleteAccountKeeps ==
    ASSUME ProfInv, NEW h \in Handlers, DeleteAccount(h)
    PROVE  ProfInv'
<1>0. /\ HandlerOK(handler[h]) /\ handler[h] # Idle /\ handler \in [Handlers -> HandlerState]
      /\ phone \in [Users -> Phones \cup {None}] /\ telegram \in [Users -> Telegrams \cup {None}]
      /\ push \in [Users -> Devices \cup {None}] /\ confirmed \in [Users -> Phones \cup {None}]
      /\ key \in [Keys -> Users \cup {"new", "gone"}]
  BY DEF ProfInv, TypeOK, HandlersOK, DeleteAccount, At, Idle
<1> PICK u \in Users \ clean : u = handler[h].user BY <1>0 DEF HandlerOK
<1>1. /\ RowFree(u)
      /\ deleted' = deleted \cup {u}
      /\ phone' = [phone EXCEPT ![u] = None]
      /\ verified' = verified \ {u}
      /\ telegram' = [telegram EXCEPT ![u] = None]
      /\ push' = Cleared({u})
      /\ confirmed' = [confirmed EXCEPT ![u] = None]
      /\ unproven' = unproven \ {u}
      /\ doubled' = {e \in doubled : Shared(e)'}
      /\ clean' = IF OnItsWay(h, u) THEN clean ELSE clean \cup {u}
      /\ handler' = [Noticed(u, None) EXCEPT ![h] = Idle]
      /\ key' = key
  BY DEF DeleteAccount, PushWiped
<1>2. /\ phone' \in [Users -> Phones \cup {None}] /\ telegram' \in [Users -> Telegrams \cup {None}]
      /\ push' \in [Users -> Devices \cup {None}] /\ confirmed' \in [Users -> Phones \cup {None}]
      /\ phone'[u] = None /\ telegram'[u] = None /\ push'[u] = None /\ confirmed'[u] = None
      /\ \A v \in Users \ {u} : /\ phone'[v] = phone[v] /\ telegram'[v] = telegram[v]
                               /\ push'[v] = push[v] /\ confirmed'[v] = confirmed[v]
  BY <1>0, <1>1 DEF Cleared
<1>3. /\ \A g \in Handlers \ {h} : handler[g] # Idle => handler[g].user \notin clean'
      /\ NoKeyOfClean'
  BY <1>1 DEF ProfInv, HandlersOK, HandlerOK, NoKeyOfClean, OnItsWay
<1>4. \A e \in Devices : Holders(e)' \subseteq Holders(e)
  BY <1>2, NullAssumption DEF Holders
<1>5. /\ HandlersOK' /\ RowsApart' /\ handler' \in [Handlers -> HandlerState]
      /\ \A g \in Handlers : handler'[g].at = "own" =>
            \A v \in handler'[g].rows : push'[v] = handler'[g].device
  <2>1. \A g \in Handlers \ {h} : \A v \in handler[g].rows : push'[v] = push[v]
    <3> SUFFICES ASSUME NEW g \in Handlers \ {h}, NEW v \in handler[g].rows PROVE push'[v] = push[v]
      OBVIOUS
    <3>1. handler[g] \in HandlerState BY <1>0
    <3>2. v \in Users /\ v # u BY <1>1, <3>1 DEF RowFree, HandlerState
    <3>3. QED BY <1>2, <3>2
  <2>2. QED BY <1>1, <1>3, <1>4, <2>1, IdleIsOK, NumberWritten
<1>6. TypeOK' BY <1>1, <1>2, <1>5 DEF ProfInv, TypeOK
<1>7. MarkHasNumber' /\ VerifiedMeansConfirmed' /\ OneTelegramOneUser'
  BY <1>1, <1>2 DEF ProfInv, TypeOK, MarkHasNumber, VerifiedMeansConfirmed, OneTelegramOneUser
<1>8. OneOwnerPerDevice'
  <2> SUFFICES ASSUME NEW e \in Devices, e \notin doubled', NEW v \in Holders(e)', NEW w \in Holders(e)'
               PROVE  v = w
    BY DEF OneOwnerPerDevice
  <2>1. CASE e \in doubled BY <1>1, <2>1 DEF Shared
  <2>2. CASE e \notin doubled BY <1>4, <2>2 DEF ProfInv, OneOwnerPerDevice
  <2>3. QED BY <2>1, <2>2
<1>9. CleanStaysWiped'
  <2> SUFFICES ASSUME NEW v \in clean' PROVE Wiped(v)'
    BY DEF CleanStaysWiped
  <2>1. CASE v = u BY <1>1, <1>2, <2>1 DEF Wiped
  <2>2. CASE v \in clean /\ v # u
    <3>1. v \in Users /\ Wiped(v) BY <2>2 DEF ProfInv, TypeOK, CleanStaysWiped
    <3>2. QED BY <1>1, <1>2, <2>2, <3>1 DEF Wiped
  <2>3. QED BY <1>1, <2>1, <2>2
<1>10. QED BY <1>3, <1>5, <1>6, <1>7, <1>8, <1>9 DEF ProfInv

-----------------------------------------------------------------------------
LEMMA NextProfInv == ProfInv /\ [Next]_vars => ProfInv'
<1> SUFFICES ASSUME ProfInv, [Next]_vars PROVE ProfInv'
  OBVIOUS
<1>1. ASSUME NEW h \in Handlers, Receives(h) PROVE ProfInv'
  BY <1>1, ReceivesKeep
<1>2. ASSUME NEW h \in Handlers, Proceeds(h) PROVE ProfInv'
  <2>1. CASE ReadPhone(h) \/ FindUser(h) \/ FindTelegram(h) \/ TakeDevice(h)
    BY <2>1, MovesOnKeep
  <2>2. CASE \E k \in Keys : StartTelegramVerification(h, k)
    BY <2>2, KeysKeep
  <2>3. CASE ForgetKey(h)
    BY <2>3, EndKeeps
  <2>4. CASE UpdateMe(h) \/ UpdateOperator(h) BY <2>4, UpdateKeeps
  <2>5. CASE WriteConfirm(h) BY <2>5, WriteConfirmKeeps
  <2>6. CASE OwnDevice(h) BY <2>6, OwnDeviceKeeps
  <2>7. CASE Logout(h)
    <3>1. {handler[h].user} \in SUBSET Users
      BY <2>7 DEF Logout, At, ProfInv, HandlersOK, HandlerOK, Idle
    <3>2. QED BY <2>7, <3>1, UnregisterKeeps DEF Logout, Answer, Unregister
  <2>8. CASE DeleteAccount(h) BY <2>8, DeleteAccountKeeps
  <2>9. QED BY <1>2, <2>1, <2>2, <2>3, <2>4, <2>5, <2>6, <2>7, <2>8 DEF Proceeds
<1>3. ASSUME NEW h \in Handlers, Fail(h) PROVE ProfInv'
  BY <1>3, EndKeeps
<1>4. ASSUME NEW k \in Keys, KeyExpires(k) PROVE ProfInv'
  BY <1>4, ExpiryKeeps
<1>5. ASSUME NEW d \in Devices, ClearDeadTokens(d) PROVE ProfInv'
  <2>1. Holders(d) \in SUBSET Users BY DEF Holders
  <2>2. QED BY <1>5, <2>1, UnregisterKeeps DEF ClearDeadTokens, Unregister
<1>6. CASE UNCHANGED vars
  <2> USE <1>6 DEF vars, person, history
  <2>1. TypeOK' /\ HandlersOK' /\ RowsApart' /\ NoKeyOfClean'
    BY DEF ProfInv, TypeOK, HandlersOK, HandlerOK, RowsApart, NoKeyOfClean, Holders
  <2>2. MarkHasNumber' /\ VerifiedMeansConfirmed' /\ OneTelegramOneUser' /\ OneOwnerPerDevice'
        /\ CleanStaysWiped'
    BY DEF ProfInv, MarkHasNumber, VerifiedMeansConfirmed, OneTelegramOneUser, OneOwnerPerDevice,
           CleanStaysWiped, Wiped, Holders
  <2>3. QED BY <2>1, <2>2 DEF ProfInv
<1>7. QED BY <1>1, <1>2, <1>3, <1>4, <1>5, <1>6 DEF Next

LEMMA Invariance == Spec => []ProfInv
<1>1. QED BY InitProfInv, NextProfInv, PTL DEF Spec

\* Every variable keeps its type, and a row that a registration has cleared is
\* still as that registration has left it.
THEOREM TypeCorrect == Spec => []TypeOK
<1>1. ProfInv => TypeOK BY DEF ProfInv
<1>2. QED BY <1>1, Invariance, PTL

\* The mark belongs to the number the bot has confirmed: an updateMe that keeps
\* the mark keeps the number, unless the number has changed since it was read.
THEOREM MarkIsEarned == Spec => []VerifiedMeansConfirmed
<1>1. ProfInv => VerifiedMeansConfirmed BY DEF ProfInv
<1>2. QED BY <1>1, Invariance, PTL

\* One Telegram account proves one user.
THEOREM TelegramIsPersonal == Spec => []OneTelegramOneUser
<1>1. ProfInv => OneTelegramOneUser BY DEF ProfInv
<1>2. QED BY <1>1, Invariance, PTL

\* One device has one owner, unless two registrations of it overlapped.
THEOREM DeviceHasOneOwner == Spec => []OneOwnerPerDevice
<1>1. ProfInv => OneOwnerPerDevice BY DEF ProfInv
<1>2. QED BY <1>1, Invariance, PTL

\* What deletion has wiped stays wiped, if nothing of the user's was on its way.
THEOREM CleanDeletionLasts == Spec => []CleanStaysWiped
<1>1. ProfInv => CleanStaysWiped BY DEF ProfInv
<1>2. QED BY <1>1, Invariance, PTL

-----------------------------------------------------------------------------
(* What the comments promise, and what it takes.                           *)

\* An account is deleted with nothing of its own on its way: no request past the
\* guard, no key.
DeletesCleanly == \A h \in Handlers : DeleteAccount(h) => ~OnItsWay(h, handler[h].user)

AllClean == deleted \subseteq clean

LEMMA NextAllClean ==
    ASSUME AllClean, [Next]_vars, [DeletesCleanly]_vars
    PROVE  AllClean'
<1>1. CASE UNCHANGED <<deleted, clean>> BY <1>1 DEF AllClean
<1>2. ASSUME NEW h \in Handlers, DeleteAccount(h), DeletesCleanly PROVE AllClean'
  <2>1. ~OnItsWay(h, handler[h].user) BY <1>2 DEF DeletesCleanly
  <2>2. QED BY <1>2, <2>1 DEF DeleteAccount, AllClean
<1>3. CASE UNCHANGED vars BY <1>1, <1>3 DEF vars, person, history
<1>4. ASSUME NEW h \in Handlers, Receives(h) \/ Fail(h) PROVE UNCHANGED <<deleted, clean>>
  BY <1>4 DEF Receives, ReceiveOwn, ReceiveConfirm, Receive, Fail, person, history
<1>5. ASSUME NEW h \in Handlers, Proceeds(h) PROVE UNCHANGED <<deleted, clean>> \/ DeleteAccount(h)
  BY <1>5 DEF Proceeds, ReadPhone, UpdateMe, UpdateOperator, StartTelegramVerification, FindUser,
              FindTelegram, WriteConfirm, ForgetKey, TakeDevice, OwnDevice, Logout, Unregister, person, history
<1>6. ASSUME NEW k \in Keys, KeyExpires(k) PROVE UNCHANGED <<deleted, clean>>
  BY <1>6 DEF KeyExpires, person, history
<1>7. ASSUME NEW d \in Devices, ClearDeadTokens(d) PROVE UNCHANGED <<deleted, clean>>
  BY <1>7 DEF ClearDeadTokens, Unregister
<1>8. QED BY <1>1, <1>2, <1>3, <1>4, <1>5, <1>6, <1>7 DEF Next

\* "All PII fields are wiped", for good, if the deletion waits for the requests
\* under way and takes the keys back.
THEOREM DeletedIsWipedForGood ==
    Spec /\ [][DeletesCleanly]_vars => []DeletedIsWiped
<1>1. Init => AllClean BY DEF Init, AllClean
<1>2. AllClean /\ [Next]_vars /\ [DeletesCleanly]_vars => AllClean' BY NextAllClean
<1>3. AllClean /\ CleanStaysWiped => DeletedIsWiped BY DEF AllClean, CleanStaysWiped, DeletedIsWiped
<1>4. QED BY <1>1, <1>2, <1>3, CleanDeletionLasts, PTL DEF Spec
=============================================================================
