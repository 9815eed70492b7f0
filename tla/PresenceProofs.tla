-------------------------- MODULE PresenceProofs --------------------------
(* Presence for any number of operators, calls and workers, and any          *)
(* thresholds in the right order.                                            *)
EXTENDS Presence, FiniteSetTheorems, TLAPS

\* A call in the pool has no operator, a held one has.
HolderMatches ==
    \A c \in Calls :
        /\ status[c] \in {"ABSENT", "NEW"} => holder[c] = NoOperator
        /\ status[c] \in OpenAssigned => holder[c] \in Operators

\* What a run knows: whom it has found silent was, and is unless they have come
\* back; whom it has seen in the room all the time is no older than the run; and
\* for the first LockTTL ticks of it the lock is its own.
RunOK(w, r) ==
    /\ r.at = "write" => \E c \in Calls, o \in Operators : r.picked = {<<c, o>>}
    /\ r.at # "write" => r.picked = {}
    /\ \A c \in Calls, o \in Operators : <<c, o>> \in r.picked =>
          /\ age[o] >= ReclaimAfter \/ o \in r.back
          /\ o \in r.steady => r.took = ReclaimAfter
    /\ r.at = "drop" => \A o \in r.idle :
          /\ age[o] >= DropAfter \/ o \in r.back
          /\ o \in r.steady => r.took = ReclaimAfter
    /\ r.at \notin {"idle", "refresh"} => \A o \in r.steady :
          age[o] <= r.took \/ r.took = ReclaimAfter
    /\ r.at # "idle" /\ r.took < LockTTL => lock = w /\ lockLeft = LockTTL - r.took

RunsOK ==
    /\ run \in [Workers -> Run]
    /\ \A w \in Workers : RunOK(w, run[w])

Typed ==
    /\ age \in [Operators -> 0..HeartbeatTTL]
    /\ onShift \in [Operators -> BOOLEAN]
    /\ starting \subseteq Operators
    /\ inRoom \subseteq Operators
    /\ status \in [Calls -> Status]
    /\ holder \in [Calls -> Operators \cup {NoOperator}]
    /\ lock \in Workers \cup {Nobody, LostReply}
    /\ lockLeft \in 0..LockTTL
    /\ lock = Nobody <=> lockLeft = 0

PInv == Typed /\ HolderMatches /\ RunsOK

LEMMA PInvTypeOK == PInv => TypeOK
<1> SUFFICES ASSUME PInv PROVE TypeOK
  OBVIOUS
<1>1. ASSUME NEW w \in Workers PROVE run[w].at = "write" <=> Cardinality(run[w].picked) = 1
  <2>1. CASE run[w].at = "write"
    <3> PICK c \in Calls, o \in Operators : run[w].picked = {<<c, o>>}
      BY <2>1 DEF PInv, RunsOK, RunOK
    <3>1. Cardinality({<<c, o>>}) = 1 BY FS_Singleton
    <3>2. QED BY <2>1, <3>1
  <2>2. CASE run[w].at # "write"
    <3>1. run[w].picked = {} BY <2>2 DEF PInv, RunsOK, RunOK
    <3>2. Cardinality(run[w].picked) = 0 BY <3>1, FS_EmptySet
    <3>3. QED BY <2>2, <3>2
  <2>3. QED BY <2>1, <2>2
<1>2. QED BY <1>1 DEF PInv, Typed, RunsOK, TypeOK

LEMMA InitPInv == Init => PInv
<1> SUFFICES ASSUME Init PROVE PInv
  OBVIOUS
<1> USE NullAssumption, ThresholdAssumption DEF Init
<1>1. Typed BY DEF Typed, Status, OpenAssigned
<1>2. HolderMatches BY DEF HolderMatches, OpenAssigned
<1>3. NoRun \in Run BY DEF NoRun, Run, Points
<1>4. RunsOK BY <1>3 DEF RunsOK, RunOK, NoRun
<1>5. QED BY <1>1, <1>2, <1>4 DEF PInv

-----------------------------------------------------------------------------
(* Steps that change runs, clocks and the lock.                            *)

\* One run goes on, the clock and the lock stay.
LEMMA OneRun ==
    ASSUME Typed, RunsOK, NEW w \in Workers, NEW r \in Run,
           run' = [run EXCEPT ![w] = r],
           UNCHANGED <<age, lock, lockLeft>>, RunOK(w, r)
    PROVE  RunsOK'
<1>1. run' \in [Workers -> Run] BY DEF RunsOK
<1>2. \A v \in Workers : RunOK(v, run[v])'
  <2>1. RunOK(w, run[w])' BY DEF RunOK, RunsOK
  <2>2. \A v \in Workers \ {w} : RunOK(v, run[v])' BY DEF RunOK, RunsOK
  <2>3. QED BY <2>1, <2>2
<1>3. QED BY <1>1, <1>2 DEF RunsOK

\* A sign of life reaches every run.
LEMMA HeardRuns ==
    ASSUME Typed, RunsOK, NEW ops \in SUBSET Operators, Heard(ops),
           run' = SignOfLife(ops), UNCHANGED <<lock, lockLeft>>
    PROVE  RunsOK'
<1> USE DEF RunsOK
<1>1. run' = [w \in Workers |-> [run[w] EXCEPT !.back = @ \cup ops]] BY DEF SignOfLife
<1>2. run' \in [Workers -> Run]
  <2>1. ASSUME NEW w \in Workers PROVE [run[w] EXCEPT !.back = @ \cup ops] \in Run
    <3>1. run[w] \in Run OBVIOUS
    <3>2. run[w].back \cup ops \in SUBSET Operators BY <3>1 DEF Run
    <3>3. QED BY <3>1, <3>2 DEF Run
  <2>2. QED BY <1>1, <2>1
<1>3. ASSUME NEW w \in Workers PROVE RunOK(w, run[w])'
  <2>1. /\ run'[w].at = run[w].at /\ run'[w].picked = run[w].picked
        /\ run'[w].idle = run[w].idle /\ run'[w].took = run[w].took
        /\ run'[w].steady = run[w].steady /\ run'[w].back = run[w].back \cup ops
    BY <1>1 DEF Run
  <2>2. \A o \in Operators : age'[o] = IF o \in ops THEN 0 ELSE age[o] BY DEF Heard
  <2>3. run[w] \in Run OBVIOUS
  <2>4. RunOK(w, run[w]) OBVIOUS
  <2>5. QED BY <2>1, <2>2, <2>3, <2>4, ThresholdAssumption DEF RunOK, Run
<1>4. QED BY <1>2, <1>3

\* Somebody leaves the room: one less whom the runs have seen in it all the time.
LEMMA LeaveRuns ==
    ASSUME Typed, RunsOK, NEW o \in Operators,
           run' = LeaveRoom(o), UNCHANGED <<age, lock, lockLeft>>
    PROVE  RunsOK'
<1> USE DEF RunsOK
<1>1. run' = [w \in Workers |-> [run[w] EXCEPT !.steady = @ \ {o}]] BY DEF LeaveRoom
<1>2. run' \in [Workers -> Run]
  <2>1. ASSUME NEW w \in Workers PROVE [run[w] EXCEPT !.steady = @ \ {o}] \in Run
    <3>1. run[w] \in Run OBVIOUS
    <3>2. run[w].steady \ {o} \in SUBSET Operators BY <3>1 DEF Run
    <3>3. QED BY <3>1, <3>2 DEF Run
  <2>2. QED BY <1>1, <2>1
<1>3. ASSUME NEW w \in Workers PROVE RunOK(w, run[w])'
  <2>1. /\ run'[w].at = run[w].at /\ run'[w].picked = run[w].picked
        /\ run'[w].idle = run[w].idle /\ run'[w].took = run[w].took
        /\ run'[w].steady = run[w].steady \ {o} /\ run'[w].back = run[w].back
    BY <1>1 DEF Run
  <2>2. RunOK(w, run[w]) OBVIOUS
  <2>3. QED BY <2>1, <2>2 DEF RunOK
<1>4. QED BY <1>2, <1>3

LEMMA TickRuns ==
    ASSUME Typed, RunsOK, Tick
    PROVE  RunsOK' /\ Typed'
<1> USE ThresholdAssumption
<1>1. \A o \in Operators : /\ age[o] \in 0..HeartbeatTTL
                           /\ age'[o] = IF age[o] < HeartbeatTTL THEN age[o] + 1 ELSE age[o]
  BY DEF Tick, Later, Typed
<1>2. Typed'
  <2>1. age' \in [Operators -> 0..HeartbeatTTL] BY <1>1 DEF Tick, Later, Typed
  <2>2. lockLeft' \in 0..LockTTL /\ (lock' = Nobody <=> lockLeft' = 0)
    BY DEF Tick, Typed
  <2>3. QED BY <2>1, <2>2 DEF Tick, Typed, operatorVars, callVars
<1>3. run' = [w \in Workers |->
                IF run[w].at = "idle" THEN NoRun
                ELSE [run[w] EXCEPT !.took = Later(@, ReclaimAfter)]]
  BY DEF Tick
<1>4. ASSUME NEW w \in Workers PROVE run'[w] \in Run /\ RunOK(w, run[w])'
  <2>1. run[w] \in Run /\ RunOK(w, run[w]) /\ run[w].took \in 0..ReclaimAfter BY DEF RunsOK, Run
  <2>2. CASE run[w].at = "idle"
    <3>1. run'[w] = NoRun BY <1>3, <2>2
    <3>2. QED BY <3>1 DEF NoRun, Run, Points, RunOK
  <2>3. CASE run[w].at # "idle"
    <3>1. /\ run'[w] \in Run
          /\ run'[w].at = run[w].at /\ run'[w].picked = run[w].picked
          /\ run'[w].idle = run[w].idle /\ run'[w].took = Later(run[w].took, ReclaimAfter)
          /\ run'[w].steady = run[w].steady /\ run'[w].back = run[w].back
      BY <1>3, <2>1, <2>3 DEF Run, Later
    <3>2. /\ run[w].took <= run'[w].took /\ run'[w].took <= ReclaimAfter
          /\ run'[w].took = run[w].took + 1 \/ run'[w].took = ReclaimAfter
          /\ run[w].took = ReclaimAfter => run'[w].took = ReclaimAfter
      BY <2>1, <3>1 DEF Later
    <3>3. run'[w].took < LockTTL => lock' = w /\ lockLeft' = LockTTL - run'[w].took
      <4> SUFFICES ASSUME run'[w].took < LockTTL PROVE lock' = w /\ lockLeft' = LockTTL - run'[w].took
        OBVIOUS
      <4>1. run'[w].took = run[w].took + 1 BY <3>2
      <4>2. lock = w /\ lockLeft = LockTTL - run[w].took /\ lockLeft > 1
        BY <2>1, <2>3, <4>1 DEF RunOK
      <4>3. QED BY <4>1, <4>2, <2>1 DEF Tick, Typed
    <3>4. \A o \in Operators : age[o] <= age'[o] /\ age'[o] <= age[o] + 1 BY <1>1
    <3>5. \A o \in run[w].steady : o \in Operators BY <2>1 DEF Run
    <3>6. \A o \in run[w].idle : o \in Operators BY <2>1 DEF Run
    <3>7. run[w].at \notin {"idle", "refresh"} => \A o \in run'[w].steady :
             age'[o] <= run'[w].took \/ run'[w].took = ReclaimAfter
      BY <1>1, <2>1, <3>1, <3>2, <3>4, <3>5 DEF RunOK
    <3>8. QED BY <1>1, <2>1, <3>1, <3>2, <3>3, <3>4, <3>5, <3>6, <3>7 DEF RunOK
  <2>4. QED BY <2>2, <2>3
<1>5. QED BY <1>2, <1>3, <1>4 DEF RunsOK

-----------------------------------------------------------------------------
(* Steps of a run.                                                         *)

\* A run that waits for nothing in particular and has picked nobody.
LEMMA RunGoesOn ==
    ASSUME Typed, RunsOK, NEW w \in Workers, NEW r \in Run,
           run' = [run EXCEPT ![w] = r], UNCHANGED <<age, lock, lockLeft>>,
           run[w].at \notin {"idle", "refresh"},
           r.at \notin {"write", "drop"} \/ (r.at = "drop" /\ run[w].at = "drop"
                                             /\ r.idle \subseteq run[w].idle /\ r.back = run[w].back),
           r.picked = {}, r.took = run[w].took, r.steady \subseteq run[w].steady
    PROVE  RunsOK'
<1>1. RunOK(w, run[w]) /\ run[w] \in Run BY DEF RunsOK
<1>2. RunOK(w, r) BY <1>1 DEF RunOK
<1>3. QED BY <1>2, OneRun

LEMMA EndOfRun ==
    ASSUME Typed, RunsOK, NEW w \in Workers,
           run' = [run EXCEPT ![w] = NoRun], UNCHANGED <<age, lock, lockLeft>>
    PROVE  RunsOK'
<1>1. NoRun \in Run BY ThresholdAssumption DEF NoRun, Run, Points
<1>2. RunOK(w, NoRun) BY DEF RunOK, NoRun
<1>3. QED BY <1>1, <1>2, OneRun

LEMMA AcquireRuns ==
    ASSUME Typed, RunsOK, NEW w \in Workers, Acquire(w)
    PROVE  RunsOK'
<1> USE DEF RunsOK
<1> DEFINE r == [NoRun EXCEPT !.at = "refresh", !.steady = inRoom]
<1>1. r \in Run /\ r.at = "refresh" /\ r.picked = {} /\ r.took = 0
  <2>1. inRoom \in SUBSET Operators BY DEF Typed
  <2>2. NoRun \in Run /\ NoRun.picked = {} /\ NoRun.took = 0
    BY ThresholdAssumption DEF NoRun, Run, Points
  <2>3. QED BY <2>1, <2>2 DEF Run, Points
<1> HIDE DEF r
<1>2. run' = [run EXCEPT ![w] = r] /\ lock = Nobody /\ lock' = w /\ lockLeft' = LockTTL /\ age' = age
  BY DEF Acquire, Goes, r
<1>3. \A v \in Workers : run[v] \in Run /\ RunOK(v, run[v]) OBVIOUS
<1>4. \A v \in Workers \ {w} : RunOK(v, run[v])'
  BY <1>2, <1>3, NullAssumption DEF RunOK
<1>5. RunOK(w, run[w])'
  BY <1>1, <1>2, ThresholdAssumption DEF RunOK
<1>6. QED BY <1>1, <1>2, <1>4, <1>5

LEMMA UnheardRuns ==
    ASSUME Typed, RunsOK, AcquireUnheard
    PROVE  RunsOK'
BY NullAssumption DEF RunsOK, RunOK, AcquireUnheard

LEMMA HeardRecord ==
    ASSUME NEW r \in Run, NEW ops \in SUBSET Operators
    PROVE  LET x == [r EXCEPT !.back = @ \cup ops] IN
           /\ x \in Run /\ x.back = r.back \cup ops
           /\ x.at = r.at /\ x.picked = r.picked /\ x.idle = r.idle
           /\ x.took = r.took /\ x.steady = r.steady
<1>1. r.back \cup ops \in SUBSET Operators BY DEF Run
<1>2. QED BY <1>1 DEF Run

LEMMA RefreshedRecord ==
    ASSUME NEW r \in Run, NEW ops \in SUBSET Operators
    PROVE  LET x == [r EXCEPT !.at = "list", !.steady = @ \cap ops] IN
           /\ x \in Run /\ x.at = "list" /\ x.steady = r.steady \cap ops
           /\ x.picked = r.picked /\ x.took = r.took
<1>1. r.steady \cap ops \in SUBSET Operators BY DEF Run
<1>2. QED BY <1>1 DEF Run, Points

\* Whoever is missed is no longer counted among the steady ones.
LEMMA RefreshRuns ==
    ASSUME Typed, RunsOK, NEW w \in Workers, RefreshPresence(w)
    PROVE  RunsOK'
<1>1. PICK ops \in SUBSET inRoom :
           /\ Heard(ops)
           /\ run' = [SignOfLife(ops) EXCEPT ![w].at = "list", ![w].steady = @ \cap ops]
  BY DEF RefreshPresence
<1>2. ops \in SUBSET Operators /\ UNCHANGED <<lock, lockLeft>> /\ run[w].at = "refresh"
  BY DEF Typed, RefreshPresence, lockVars
<1>3. \A v \in Workers : run[v] \in Run /\ RunOK(v, run[v]) BY DEF RunsOK
<1> DEFINE heard == [v \in Workers |-> [run[v] EXCEPT !.back = @ \cup ops]]
<1>4. SignOfLife(ops) = heard BY DEF SignOfLife
<1>5. \A v \in Workers :
        /\ heard[v] \in Run /\ heard[v].back = run[v].back \cup ops
        /\ heard[v].at = run[v].at /\ heard[v].picked = run[v].picked /\ heard[v].idle = run[v].idle
        /\ heard[v].took = run[v].took /\ heard[v].steady = run[v].steady
  BY <1>2, <1>3, HeardRecord
<1> HIDE DEF heard
<1>6. /\ \A v \in Workers \ {w} : run'[v] = heard[v]
      /\ run'[w] = [heard[w] EXCEPT !.at = "list", !.steady = @ \cap ops]
      /\ DOMAIN run' = Workers /\ run' = [v \in Workers |-> run'[v]]
  BY <1>1, <1>4 DEF heard
<1>7. /\ run'[w] \in Run /\ run'[w].at = "list" /\ run'[w].steady = run[w].steady \cap ops
      /\ run'[w].picked = run[w].picked /\ run'[w].took = run[w].took
  <2> DEFINE x == [heard[w] EXCEPT !.at = "list", !.steady = @ \cap ops]
  <2>1. heard[w] \in Run /\ ops \in SUBSET Operators BY <1>2, <1>5
  <2>2. /\ x \in Run /\ x.at = "list" /\ x.steady = heard[w].steady \cap ops
        /\ x.picked = heard[w].picked /\ x.took = heard[w].took
    BY <2>1, RefreshedRecord
  <2>3. run'[w] = x BY <1>6
  <2> HIDE DEF x
  <2>4. QED BY <1>5, <2>2, <2>3
<1>8. run' \in [Workers -> Run] BY <1>5, <1>6, <1>7
<1>9. \A o \in Operators : age'[o] = IF o \in ops THEN 0 ELSE age[o] BY <1>1 DEF Heard
<1>10. ASSUME NEW v \in Workers \ {w} PROVE RunOK(v, run[v])'
  <2>1. /\ run'[v].at = run[v].at /\ run'[v].picked = run[v].picked
        /\ run'[v].idle = run[v].idle /\ run'[v].took = run[v].took
        /\ run'[v].steady = run[v].steady /\ run'[v].back = run[v].back \cup ops
    BY <1>5, <1>6
  <2>2. RunOK(v, run[v]) /\ run[v] \in Run BY <1>3
  <2>3. QED BY <1>2, <1>9, <2>1, <2>2, ThresholdAssumption DEF RunOK, Run
<1>11. RunOK(w, run[w])'
  <2>1. RunOK(w, run[w]) BY <1>3
  <2>2. run[w].picked = {} BY <1>2, <2>1 DEF RunOK
  <2>3. run'[w].took \in Nat BY <1>7, ThresholdAssumption DEF Run
  <2>4. \A o \in run'[w].steady : age'[o] = 0 BY <1>2, <1>7, <1>9
  <2>5. QED BY <1>2, <1>7, <2>1, <2>2, <2>3, <2>4 DEF RunOK
<1>12. QED BY <1>8, <1>10, <1>11 DEF RunsOK

LEMMA FindRuns ==
    ASSUME Typed, RunsOK, NEW w \in Workers, NEW c \in Calls, NEW o \in Operators,
           FindSilent(w, c, o)
    PROVE  RunsOK'
<1> DEFINE r == [run[w] EXCEPT !.at = "write", !.todo = @ \ {<<c, o>>},
                              !.picked = {<<c, o>>}, !.back = @ \ {o}]
<1>1. run[w] \in Run /\ RunOK(w, run[w]) BY DEF RunsOK
<1>2. /\ r \in Run /\ r.at = "write" /\ r.picked = {<<c, o>>}
      /\ r.took = run[w].took /\ r.steady = run[w].steady
  <2>1. /\ run[w].todo \ {<<c, o>>} \in SUBSET (Calls \X Operators)
        /\ {<<c, o>>} \in SUBSET (Calls \X Operators)
        /\ run[w].back \ {o} \in SUBSET Operators
    BY <1>1 DEF Run
  <2>2. QED BY <1>1, <2>1 DEF Run, Points
<1> HIDE DEF r
<1>3. /\ run' = [run EXCEPT ![w] = r] /\ UNCHANGED <<age, lock, lockLeft>>
      /\ run[w].at = "reclaim" /\ ~Fresh(o)
  BY DEF FindSilent, Goes, r, lockVars
<1>4. age[o] >= ReclaimAfter
  BY <1>3, ThresholdAssumption DEF Fresh, KeyExpired, Typed
<1>5. o \in run[w].steady => run[w].took = ReclaimAfter
  BY <1>1, <1>3, <1>4, ThresholdAssumption DEF RunOK, Run, Typed
<1>6. RunOK(w, r)
  BY <1>1, <1>2, <1>3, <1>4, <1>5 DEF RunOK
<1>7. QED BY <1>2, <1>3, <1>6, OneRun

LEMMA AskRuns ==
    ASSUME Typed, RunsOK, NEW w \in Workers, AskHeartbeats(w)
    PROVE  RunsOK'
<1> DEFINE r == [run[w] EXCEPT !.at = "drop", !.idle = {o \in @ : Dead(o)}, !.back = {}]
<1>1. run[w] \in Run /\ RunOK(w, run[w]) BY DEF RunsOK
<1>2. /\ r \in Run /\ r.at = "drop" /\ r.idle = {o \in run[w].idle : Dead(o)}
      /\ r.picked = run[w].picked /\ r.took = run[w].took /\ r.steady = run[w].steady
  BY <1>1 DEF Run, Points
<1> HIDE DEF r
<1>3. /\ run' = [run EXCEPT ![w] = r] /\ UNCHANGED <<age, lock, lockLeft>> /\ run[w].at = "ask"
  BY DEF AskHeartbeats, Goes, r, lockVars
<1>4. \A o \in r.idle : age[o] >= DropAfter
  BY <1>1, <1>2, ThresholdAssumption DEF Dead, KeyExpired, Typed, Run
<1>5. \A o \in r.idle : o \in run[w].steady => run[w].took = ReclaimAfter
  BY <1>1, <1>2, <1>3, <1>4, ThresholdAssumption DEF RunOK, Run, Typed
<1>6. RunOK(w, r)
  BY <1>1, <1>2, <1>3, <1>4, <1>5 DEF RunOK
<1>7. QED BY <1>2, <1>3, <1>6, OneRun

\* Only the own key is deleted, so nobody else loses theirs.
LEMMA ReleaseRuns ==
    ASSUME Typed, RunsOK, NEW w \in Workers, Release(w)
    PROVE  RunsOK'
<1>1. /\ run' = [run EXCEPT ![w] = NoRun] /\ age' = age
      /\ lock # w => UNCHANGED <<lock, lockLeft>>
  BY DEF Release, Goes, OwnToken, lockVars
<1>2. NoRun \in Run /\ NoRun.at = "idle" /\ NoRun.picked = {}
  BY ThresholdAssumption DEF NoRun, Run, Points
<1>3. run' \in [Workers -> Run] BY <1>1, <1>2 DEF RunsOK
<1>4. RunOK(w, run[w])' BY <1>1, <1>2 DEF RunOK, RunsOK
<1>5. ASSUME NEW v \in Workers \ {w} PROVE RunOK(v, run[v])'
  <2>1. run'[v] = run[v] /\ RunOK(v, run[v]) BY <1>1 DEF RunsOK
  <2>2. CASE lock = w BY <1>1, <2>1, <2>2 DEF RunOK
  <2>3. CASE lock # w BY <1>1, <2>1, <2>3 DEF RunOK
  <2>4. QED BY <2>2, <2>3
<1>6. QED BY <1>3, <1>4, <1>5 DEF RunsOK

\* The steps of a run that neither find anybody silent nor read the idle ones'
\* heartbeats.
LEMMA ListRuns ==
    ASSUME PInv, NEW w \in Workers, ListAssigned(w)
    PROVE  RunsOK'
<1> DEFINE list == {<<c, holder[c]>> : c \in {d \in Calls : Stale(d)}}
           r == [run[w] EXCEPT !.at = "reclaim", !.back = {}, !.todo = list]
<1>1. run[w] \in Run /\ RunOK(w, run[w]) /\ run[w].at = "list" BY DEF PInv, RunsOK, ListAssigned
<1>2. list \in SUBSET (Calls \X Operators)
  BY DEF PInv, HolderMatches, Stale, OpenAssigned
<1> HIDE DEF list
<1>3. /\ r \in Run /\ r.at = "reclaim" /\ r.picked = run[w].picked
      /\ r.took = run[w].took /\ r.steady = run[w].steady
  BY <1>1, <1>2 DEF Run, Points
<1>4. run' = [run EXCEPT ![w] = r] /\ UNCHANGED <<age, lock, lockLeft>>
  BY DEF ListAssigned, Goes, lockVars, list
<1> HIDE DEF r
<1>5. r.picked = {} BY <1>1, <1>3 DEF RunOK
<1>6. QED BY <1>1, <1>3, <1>4, <1>5, RunGoesOn DEF PInv

LEMMA WroteRuns ==
    ASSUME PInv, NEW w \in Workers, run[w].at = "write", UNCHANGED <<age, lock, lockLeft>>,
           Goes(w, [run[w] EXCEPT !.at = "reclaim", !.picked = {}])
    PROVE  RunsOK'
<1> DEFINE r == [run[w] EXCEPT !.at = "reclaim", !.picked = {}]
<1>1. run[w] \in Run BY DEF PInv, RunsOK
<1>2. /\ r \in Run /\ r.at = "reclaim" /\ r.picked = {}
      /\ r.took = run[w].took /\ r.steady = run[w].steady
  BY <1>1 DEF Run, Points
<1>3. run' = [run EXCEPT ![w] = r] BY DEF Goes
<1> HIDE DEF r
<1>4. QED BY <1>2, <1>3, RunGoesOn DEF PInv

LEMMA ReadFailsRuns ==
    ASSUME PInv, NEW w \in Workers, NEW c \in Calls, NEW o \in Operators, ReadFails(w, c, o)
    PROVE  RunsOK'
<1> DEFINE rest == run[w].todo \ {<<c, o>>}
           r == [run[w] EXCEPT !.todo = rest]
<1>1. run[w] \in Run /\ RunOK(w, run[w]) /\ run[w].at = "reclaim" BY DEF PInv, RunsOK, ReadFails
<1>2. rest \in SUBSET (Calls \X Operators) BY <1>1 DEF Run
<1>3. /\ run' = [run EXCEPT ![w] = r] /\ UNCHANGED <<age, lock, lockLeft>>
  BY DEF ReadFails, Goes, lockVars
<1> HIDE DEF rest
<1>4. /\ r \in Run /\ r.at = "reclaim" /\ r.picked = run[w].picked
      /\ r.took = run[w].took /\ r.steady = run[w].steady
  BY <1>1, <1>2 DEF Run
<1> HIDE DEF r
<1>5. r.picked = {} BY <1>1, <1>4 DEF RunOK
<1>6. QED BY <1>1, <1>3, <1>4, <1>5, RunGoesOn DEF PInv

LEMMA MovesOnRuns ==
    ASSUME PInv, NEW w \in Workers, UNCHANGED <<age, lock, lockLeft>>,
           \/ /\ run[w].at \in {"list", "reclaim"}
              /\ Goes(w, [run[w] EXCEPT !.at = "listIdle"])
           \/ /\ run[w].at = "drop"
              /\ Goes(w, [run[w] EXCEPT !.at = "release"])
    PROVE  RunsOK'
<1>1. run[w] \in Run /\ RunOK(w, run[w]) BY DEF PInv, RunsOK
<1>2. PICK p \in {"listIdle", "release"} :
        run' = [run EXCEPT ![w] = [run[w] EXCEPT !.at = p]] /\ run[w].at \in {"list", "reclaim", "drop"}
  BY DEF Goes
<1> DEFINE r == [run[w] EXCEPT !.at = p]
<1>3. /\ r \in Run /\ r.at = p /\ r.picked = run[w].picked
      /\ r.took = run[w].took /\ r.steady = run[w].steady
  BY <1>1 DEF Run, Points
<1>4. run' = [run EXCEPT ![w] = r] BY <1>2
<1> HIDE DEF r
<1>5. r.picked = {} BY <1>1, <1>2, <1>3 DEF RunOK
<1>6. QED BY <1>1, <1>2, <1>3, <1>4, <1>5, RunGoesOn DEF PInv

\* A list of idle operators is made, shortened or thrown away.
LEMMA IdleRuns ==
    ASSUME PInv, NEW w \in Workers, UNCHANGED <<age, lock, lockLeft>>,
           NEW p \in {"ask", "release"}, NEW ops \in SUBSET Operators,
           run[w].at \in {"listIdle", "ask", "drop"},
           Goes(w, [run[w] EXCEPT !.at = p, !.idle = ops])
    PROVE  RunsOK'
<1>1. run[w] \in Run /\ RunOK(w, run[w]) BY DEF PInv, RunsOK
<1> DEFINE r == [run[w] EXCEPT !.at = p, !.idle = ops]
<1>2. /\ r \in Run /\ r.at = p /\ r.picked = run[w].picked
      /\ r.took = run[w].took /\ r.steady = run[w].steady
  BY <1>1 DEF Run, Points
<1>3. run' = [run EXCEPT ![w] = r] BY DEF Goes
<1> HIDE DEF r
<1>4. r.picked = {} BY <1>1, <1>2 DEF RunOK
<1>5. QED BY <1>1, <1>2, <1>3, <1>4, RunGoesOn DEF PInv

LEMMA KeepRuns ==
    ASSUME PInv, NEW w \in Workers, NEW o \in Operators, KeepShift(w, o)
    PROVE  RunsOK'
<1>1. run[w] \in Run /\ RunOK(w, run[w]) /\ run[w].at = "drop" BY DEF PInv, RunsOK, KeepShift
<1> DEFINE rest == run[w].idle \ {o}
           r == [run[w] EXCEPT !.idle = rest]
<1>2. rest \in SUBSET Operators /\ rest \subseteq run[w].idle BY <1>1 DEF Run
<1>3. run' = [run EXCEPT ![w] = r] /\ UNCHANGED <<age, lock, lockLeft>>
  BY DEF KeepShift, Goes, lockVars
<1> HIDE DEF rest
<1>4. /\ r \in Run /\ r.at = "drop" /\ r.picked = run[w].picked /\ r.idle = rest
      /\ r.took = run[w].took /\ r.steady = run[w].steady /\ r.back = run[w].back
  BY <1>1, <1>2 DEF Run
<1> HIDE DEF r
<1>5. r.picked = {} BY <1>1, <1>4 DEF RunOK
<1>6. QED BY <1>1, <1>2, <1>3, <1>4, <1>5, RunGoesOn DEF PInv

LEMMA DropRuns ==
    ASSUME PInv, NEW w \in Workers, NEW o \in Operators, DropShift(w, o)
    PROVE  RunsOK'
<1> DEFINE left == [v \in Workers |-> [run[v] EXCEPT !.steady = @ \ {o}]]
<1>1. /\ run' = [left EXCEPT ![w].idle = @ \ {o}] /\ UNCHANGED <<age, lock, lockLeft>>
      /\ run[w].at = "drop"
  BY DEF DropShift, LeaveRoom, lockVars
<1>2. \A v \in Workers : run[v] \in Run /\ RunOK(v, run[v]) BY DEF PInv, RunsOK
<1>3. \A v \in Workers :
        /\ left[v] \in Run /\ left[v].steady = run[v].steady \ {o}
        /\ left[v].at = run[v].at /\ left[v].picked = run[v].picked /\ left[v].idle = run[v].idle
        /\ left[v].took = run[v].took /\ left[v].back = run[v].back
  <2> TAKE v \in Workers
  <2>1. run[v] \in Run /\ run[v].steady \ {o} \in SUBSET Operators BY <1>2 DEF Run
  <2>2. left[v] = [run[v] EXCEPT !.steady = run[v].steady \ {o}] OBVIOUS
  <2>3. QED BY <2>1, <2>2 DEF Run
<1>4. /\ \A v \in Workers \ {w} : run'[v] = left[v]
      /\ run'[w] = [left[w] EXCEPT !.idle = left[w].idle \ {o}]
      /\ run' = [v \in Workers |-> run'[v]]
  BY <1>1
<1> HIDE DEF left
<1>5. /\ run'[w] \in Run /\ run'[w].steady = run[w].steady \ {o}
      /\ run'[w].at = run[w].at /\ run'[w].picked = run[w].picked
      /\ run'[w].idle = run[w].idle \ {o}
      /\ run'[w].took = run[w].took /\ run'[w].back = run[w].back
  <2>1. left[w] \in Run /\ left[w].idle \ {o} \in SUBSET Operators BY <1>3 DEF Run
  <2> DEFINE x == [left[w] EXCEPT !.idle = left[w].idle \ {o}]
  <2>2. /\ x \in Run /\ x.steady = left[w].steady /\ x.at = left[w].at /\ x.picked = left[w].picked
        /\ x.idle = left[w].idle \ {o} /\ x.took = left[w].took /\ x.back = left[w].back
    BY <2>1 DEF Run
  <2>3. run'[w] = x BY <1>4
  <2> HIDE DEF x
  <2>4. QED BY <1>3, <2>2, <2>3
<1>6. run' \in [Workers -> Run] BY <1>3, <1>4, <1>5
<1>7. ASSUME NEW v \in Workers PROVE RunOK(v, run[v])'
  <2>1. /\ run'[v].steady = run[v].steady \ {o} /\ run'[v].idle \subseteq run[v].idle
        /\ run'[v].at = run[v].at /\ run'[v].picked = run[v].picked
        /\ run'[v].took = run[v].took /\ run'[v].back = run[v].back
    BY <1>3, <1>4, <1>5
  <2>2. RunOK(v, run[v]) BY <1>2
  <2>3. QED BY <1>1, <2>1, <2>2 DEF RunOK
<1>8. QED BY <1>6, <1>7 DEF RunsOK

LEMMA StepRunsOK == PInv /\ [Next]_vars => RunsOK'
<1> SUFFICES ASSUME PInv, [Next]_vars PROVE RunsOK'
  OBVIOUS
<1> USE DEF PInv
<1>1. CASE UNCHANGED vars
  BY <1>1 DEF vars, lockVars, RunsOK, RunOK
<1>2. ASSUME NEW o \in Operators, OperatorStep(o) PROVE RunsOK'
  <2>1. CASE Heartbeat(o) \/ SeedHeartbeat(o)
    <3>1. Heard({o}) /\ run' = SignOfLife({o}) /\ UNCHANGED <<lock, lockLeft>>
      BY <2>1 DEF Heartbeat, SeedHeartbeat, lockVars
    <3>2. QED BY <3>1, HeardRuns
  <2>2. CASE EndShift(o) \/ Disconnect(o)
    <3>1. run' = LeaveRoom(o) /\ UNCHANGED <<age, lock, lockLeft>>
      BY <2>2 DEF EndShift, Disconnect, lockVars
    <3>2. QED BY <3>1, LeaveRuns
  <2>3. CASE StartShift(o) \/ SeedFails(o) \/ AdminStartsShift(o) \/ Connect(o)
    BY <2>3 DEF StartShift, SeedFails, AdminStartsShift, Connect, lockVars, RunsOK, RunOK
  <2>4. CASE \E c \in Calls : Take(o, c)
    BY <2>4 DEF Take, SetCall, lockVars, RunsOK, RunOK
  <2>5. QED BY <1>2, <2>1, <2>2, <2>3, <2>4 DEF OperatorStep
<1>3. ASSUME NEW c \in Calls, CallStep(c) PROVE RunsOK'
  BY <1>3 DEF CallStep, Raise, Begin, Unassign, Resolve, SetCall, lockVars, RunsOK, RunOK
<1>4. CASE Tick BY <1>4, TickRuns
<1>5. ASSUME NEW w \in Workers,
             \/ UpdateFails(w) \/ ReclaimNothing(w)
             \/ \E c \in Calls, o \in Operators : ReclaimCall(w, c, o)
      PROVE  RunsOK'
  <2>1. /\ run[w].at = "write" /\ UNCHANGED <<age, lock, lockLeft>>
        /\ Goes(w, [run[w] EXCEPT !.at = "reclaim", !.picked = {}])
    BY <1>5 DEF UpdateFails, ReclaimNothing, ReclaimCall, SetCall, lockVars
  <2>2. QED BY <2>1, WroteRuns
<1>6. ASSUME NEW w \in Workers, ListFails(w) \/ Reclaimed(w) \/ Dropped(w) PROVE RunsOK'
  BY <1>6, MovesOnRuns DEF ListFails, Reclaimed, Dropped, lockVars
<1>7. ASSUME NEW w \in Workers, ListIdle(w) PROVE RunsOK'
  <2>1. PICK ops \in SUBSET Operators :
          Goes(w, [run[w] EXCEPT !.at = "ask", !.idle = ops])
    BY <1>7 DEF ListIdle
  <2>2. run[w].at = "listIdle" /\ UNCHANGED <<age, lock, lockLeft>> BY <1>7 DEF ListIdle, lockVars
  <2>3. QED BY <2>1, <2>2, IdleRuns
<1>8. ASSUME NEW w \in Workers, DropFails(w) PROVE RunsOK'
  <2>1. /\ run[w].at \in {"listIdle", "ask", "drop"} /\ UNCHANGED <<age, lock, lockLeft>>
        /\ Goes(w, [run[w] EXCEPT !.at = "release", !.idle = {}])
    BY <1>8 DEF DropFails, lockVars
  <2>2. {} \in SUBSET Operators /\ "release" \in {"ask", "release"} OBVIOUS
  <2>3. QED BY <2>1, <2>2, IdleRuns
<1>9. ASSUME NEW w \in Workers, Crash(w) PROVE RunsOK'
  BY <1>9, EndOfRun DEF Crash, Goes, lockVars
<1>10. ASSUME NEW w \in Workers, NEW c \in Calls, NEW o \in Operators,
              PassOver(w, c, o) \/ ReadFails(w, c, o)
       PROVE  RunsOK'
  BY <1>10, ReadFailsRuns DEF PassOver
<1>11. ASSUME NEW w \in Workers, CronStep(w) PROVE RunsOK'
  BY <1>5, <1>6, <1>7, <1>10, <1>11, AcquireRuns, RefreshRuns, ListRuns, FindRuns, AskRuns,
     DropRuns, KeepRuns, ReleaseRuns DEF CronStep
<1>12. CASE Failure
  BY <1>12, <1>5, <1>6, <1>8, <1>9, <1>10, UnheardRuns DEF Failure
<1>13. QED BY <1>1, <1>2, <1>3, <1>4, <1>11, <1>12 DEF Next

LEMMA StepTyped == PInv /\ [Next]_vars => Typed'
<1> SUFFICES ASSUME PInv, [Next]_vars PROVE Typed'
  OBVIOUS
<1> USE DEF Typed
<1>0. Typed /\ RunsOK BY DEF PInv
<1>1. CASE UNCHANGED vars
  BY <1>0, <1>1 DEF vars, operatorVars, callVars, lockVars
<1>2. \A ops : Heard(ops) => age' \in [Operators -> 0..HeartbeatTTL]
  BY <1>0, ThresholdAssumption DEF Heard
<1>3. \A c \in Calls, s \in Status, h \in Operators \cup {NoOperator} :
        SetCall(c, s, h) => Typed'
  BY <1>0 DEF SetCall, operatorVars, lockVars
<1>4. ASSUME NEW o \in Operators, OperatorStep(o) PROVE Typed'
  <2>1. CASE \E c \in Calls : Take(o, c)
    BY <1>3, <2>1 DEF Take, Status, OpenAssigned
  <2>2. CASE ~\E c \in Calls : Take(o, c)
    BY <1>0, <1>2, <1>4, <2>2
       DEF OperatorStep, Heartbeat, StartShift, SeedHeartbeat, SeedFails, AdminStartsShift,
           EndShift, Connect, Disconnect, operatorVars, callVars, lockVars
  <2>3. QED BY <2>1, <2>2
<1>5. ASSUME NEW c \in Calls, CallStep(c) PROVE Typed'
  <2>1. \E s \in Status, h \in Operators \cup {NoOperator} : SetCall(c, s, h)
    BY <1>0, <1>5 DEF CallStep, Raise, Begin, Unassign, Resolve, Status, OpenAssigned
  <2>2. QED BY <1>3, <2>1
<1>6. CASE Tick BY <1>0, <1>6, TickRuns
<1>7. ASSUME NEW w \in Workers, CronStep(w) PROVE Typed'
  <2>1. CASE Acquire(w)
    BY <1>0, <2>1, ThresholdAssumption, NullAssumption DEF Acquire, operatorVars, callVars
  <2>2. CASE RefreshPresence(w)
    <3>1. PICK ops : Heard(ops) BY <2>2 DEF RefreshPresence
    <3>2. QED BY <1>0, <1>2, <2>2, <3>1 DEF RefreshPresence, operatorVars, callVars, lockVars
  <2>3. CASE \E c \in Calls, o \in Operators : ReclaimCall(w, c, o)
    BY <1>3, <2>3 DEF ReclaimCall, Status
  <2>4. CASE \E o \in Operators : DropShift(w, o)
    BY <1>0, <2>4 DEF DropShift, callVars, lockVars
  <2>5. CASE Release(w)
    BY <1>0, <2>5, ThresholdAssumption DEF Release, OwnToken, operatorVars, callVars, lockVars
  <2>6. CASE \/ ListAssigned(w) \/ ReclaimNothing(w) \/ Reclaimed(w) \/ ListIdle(w)
             \/ AskHeartbeats(w) \/ Dropped(w)
             \/ \E o \in Operators : KeepShift(w, o)
             \/ \E c \in Calls, o \in Operators : FindSilent(w, c, o) \/ PassOver(w, c, o)
    <3>1. UNCHANGED <<age, operatorVars, callVars, lockVars>>
      BY <2>6 DEF ListAssigned, ReclaimNothing, UpdateFails, Reclaimed, ListIdle, AskHeartbeats,
                  Dropped, KeepShift, FindSilent, PassOver, ReadFails
    <3>2. QED BY <1>0, <3>1 DEF operatorVars, callVars, lockVars
  <2>7. QED BY <1>7, <2>1, <2>2, <2>3, <2>4, <2>5, <2>6 DEF CronStep
<1>8. CASE Failure
  <2>1. CASE AcquireUnheard
    BY <1>0, <2>1, ThresholdAssumption, NullAssumption DEF AcquireUnheard, operatorVars, callVars
  <2>2. CASE ~AcquireUnheard
    <3>1. UNCHANGED <<age, operatorVars, callVars, lockVars>>
      BY <1>8, <2>2 DEF Failure, ListFails, UpdateFails, DropFails, Crash, ReadFails
    <3>2. QED BY <1>0, <3>1 DEF operatorVars, callVars, lockVars
  <2>3. QED BY <2>1, <2>2
<1>9. QED BY <1>1, <1>4, <1>5, <1>6, <1>7, <1>8 DEF Next

LEMMA StepHolder == PInv /\ [Next]_vars => HolderMatches'
<1> SUFFICES ASSUME PInv, [Next]_vars PROVE HolderMatches'
  OBVIOUS
<1>0. Typed /\ HolderMatches BY DEF PInv
<1>1. CASE UNCHANGED callVars
  BY <1>0, <1>1 DEF HolderMatches, callVars
<1>2. \A c \in Calls : \A s, h :
        /\ SetCall(c, s, h)
        /\ s \in {"ABSENT", "NEW"} => h = NoOperator
        /\ s \in OpenAssigned => h \in Operators
        => HolderMatches'
  BY <1>0 DEF HolderMatches, SetCall, Typed
<1>3. ASSUME NEW o \in Operators, OperatorStep(o) PROVE HolderMatches'
  <2>1. CASE \E c \in Calls : Take(o, c)
    BY <1>2, <2>1 DEF Take, OpenAssigned
  <2>2. CASE ~\E c \in Calls : Take(o, c)
    BY <1>1, <1>3, <2>2
       DEF OperatorStep, Heartbeat, StartShift, SeedHeartbeat, SeedFails, AdminStartsShift,
           EndShift, Connect, Disconnect
  <2>3. QED BY <2>1, <2>2
<1>4. ASSUME NEW c \in Calls, CallStep(c) PROVE HolderMatches'
  BY <1>0, <1>2, <1>4 DEF CallStep, Raise, Begin, Unassign, Resolve, HolderMatches, OpenAssigned
<1>5. ASSUME NEW w \in Workers, CronStep(w) PROVE HolderMatches'
  <2>1. CASE \E c \in Calls, o \in Operators : ReclaimCall(w, c, o)
    BY <1>2, <2>1 DEF ReclaimCall, OpenAssigned
  <2>2. CASE ~\E c \in Calls, o \in Operators : ReclaimCall(w, c, o)
    <3>1. UNCHANGED callVars
      BY <1>5, <2>2
         DEF CronStep, Acquire, RefreshPresence, ListAssigned, FindSilent, PassOver, ReadFails,
             ReclaimNothing, UpdateFails, Reclaimed, ListIdle, AskHeartbeats, DropShift, KeepShift,
             Dropped, Release
    <3>2. QED BY <1>1, <3>1
  <2>3. QED BY <2>1, <2>2
<1>6. CASE Tick \/ Failure \/ UNCHANGED vars
  BY <1>1, <1>6 DEF Tick, Failure, AcquireUnheard, ListFails, UpdateFails, DropFails, Crash,
                    ReadFails, vars
<1>7. QED BY <1>3, <1>4, <1>5, <1>6 DEF Next

LEMMA StepPInv == PInv /\ [Next]_vars => PInv'
BY StepRunsOK, StepTyped, StepHolder DEF PInv

LEMMA Invariance == Spec => []PInv
BY InitPInv, StepPInv, PTL DEF Spec

-----------------------------------------------------------------------------
(* The theorems.                                                           *)

\* Every variable has its type, and a run is about to write exactly when it has
\* picked one call.
THEOREM TypeCorrect == Spec => []TypeOK
BY Invariance, PInvTypeOK, PTL

\* Whatever the number of workers and however the lock's reply or its release
\* is lost, two runs overlap only when one has outlasted the lock's TTL.
THEOREM OneRunAtATime == Spec => []OverlapNeedsExpiry
<1>1. PInv => OverlapNeedsExpiry
  <2> SUFFICES ASSUME PInv, NEW v \in Workers, NEW w \in Workers,
                      v # w, run[v].at # "idle", run[w].at # "idle",
                      ~(run[v].took >= LockTTL), ~(run[w].took >= LockTTL)
               PROVE  FALSE
    BY DEF OverlapNeedsExpiry
  <2>1. run[v].took < LockTTL /\ run[w].took < LockTTL
    BY ThresholdAssumption DEF PInv, RunsOK, Run
  <2>2. lock = v /\ lock = w BY <2>1 DEF PInv, RunsOK, RunOK
  <2>3. QED BY <2>2
<1>2. QED BY <1>1, Invariance, PTL

\* A call leaves an operator without anybody's request only after the threshold
\* of silence, which was over when the heartbeat was read.
THEOREM SilenceCosts == Spec => OnlySilentLoseCalls
<1>1. PInv => \A w \in Workers, c \in Calls, o \in Operators :
                 ReclaimCall(w, c, o) =>
                     /\ status[c] = "ASSIGNED"
                     /\ age[o] >= ReclaimAfter \/ o \in run[w].back
  BY DEF PInv, RunsOK, RunOK, ReclaimCall, StillAssignedTo
<1>2. QED BY <1>1, Invariance, PTL DEF OnlySilentLoseCalls

\* A shift ends by silence only after the longer threshold.
THEOREM LongSilenceCosts == Spec => DropNeedsSilence
<1>1. PInv => \A w \in Workers, o \in Operators :
                 DropShift(w, o) => age[o] >= DropAfter \/ o \in run[w].back
  BY DEF PInv, RunsOK, RunOK, DropShift
<1>2. QED BY <1>1, Invariance, PTL DEF DropNeedsSilence

\* The refresh from the sockets protects whoever it reaches for as long as the
\* run is younger than the threshold.
THEOREM SocketsProtect == Spec => ConnectedKeepsCall
<1>1. PInv => \A w \in Workers, o \in Operators :
                 /\ o \in run[w].steady
                 /\ DropShift(w, o) \/ \E c \in Calls : ReclaimCall(w, c, o)
                 => run[w].took >= ReclaimAfter
  <2> SUFFICES ASSUME PInv, NEW w \in Workers, NEW o \in Operators, o \in run[w].steady,
                      DropShift(w, o) \/ \E c \in Calls : ReclaimCall(w, c, o)
               PROVE  run[w].took = ReclaimAfter
    BY ThresholdAssumption
  <2>1. RunOK(w, run[w]) BY DEF PInv, RunsOK
  <2>2. CASE DropShift(w, o) BY <2>1, <2>2 DEF DropShift, RunOK
  <2>3. CASE \E c \in Calls : ReclaimCall(w, c, o)
    <3> PICK c \in Calls : ReclaimCall(w, c, o) BY <2>3
    <3>1. <<c, o>> \in run[w].picked BY DEF ReclaimCall
    <3>2. QED BY <2>1, <3>1 DEF RunOK
  <2>4. QED BY <2>2, <2>3
<1>2. QED BY <1>1, Invariance, PTL DEF ConnectedKeepsCall

\* Neither the worker nor a failure touches a call somebody is on the way to, or
\* that operator's shift.
THEOREM OnTheWayIsSafe == Spec => EnRouteUntouched
<1>1. ASSUME PInv, NEW w \in Workers, CronStep(w), NEW c \in Calls, status[c] = "IN_PROGRESS"
      PROVE  /\ status'[c] = "IN_PROGRESS" /\ holder'[c] = holder[c]
             /\ \A o \in Operators : holder[c] = o => onShift'[o] = onShift[o]
  <2>0. Typed BY <1>1 DEF PInv
  <2>1. CASE \E d \in Calls, o \in Operators : ReclaimCall(w, d, o)
    BY <1>1, <2>0, <2>1 DEF ReclaimCall, StillAssignedTo, SetCall, operatorVars, Typed
  <2>2. CASE \E o \in Operators : DropShift(w, o)
    <3> PICK o \in Operators : DropShift(w, o) BY <2>2
    <3>1. holder[c] # o BY <1>1 DEF DropShift, EmptyHanded, OpenCalls, OpenAssigned
    <3>2. QED BY <1>1, <2>0, <3>1 DEF DropShift, callVars, Typed
  <2>3. CASE /\ ~\E d \in Calls, o \in Operators : ReclaimCall(w, d, o)
             /\ ~\E o \in Operators : DropShift(w, o)
    <3>1. UNCHANGED <<operatorVars, callVars>>
      BY <1>1, <2>3
         DEF CronStep, Acquire, RefreshPresence, ListAssigned, FindSilent, PassOver, ReadFails,
             ReclaimNothing, UpdateFails, Reclaimed, ListIdle, AskHeartbeats, KeepShift,
             Dropped, Release
    <3>2. QED BY <1>1, <3>1 DEF operatorVars, callVars
  <2>4. QED BY <2>1, <2>2, <2>3
<1>2. ASSUME Failure, NEW c \in Calls, status[c] = "IN_PROGRESS"
      PROVE  /\ status'[c] = "IN_PROGRESS" /\ holder'[c] = holder[c]
             /\ \A o \in Operators : holder[c] = o => onShift'[o] = onShift[o]
  <2>1. UNCHANGED <<operatorVars, callVars>>
    BY <1>2 DEF Failure, AcquireUnheard, ListFails, UpdateFails, DropFails, Crash, ReadFails
  <2>2. QED BY <1>2, <2>1 DEF operatorVars, callVars
<1>3. PInv => ((Failure \/ \E w \in Workers : CronStep(w)) =>
          \A c \in Calls : status[c] = "IN_PROGRESS" =>
              /\ status'[c] = "IN_PROGRESS" /\ holder'[c] = holder[c]
              /\ \A o \in Operators : holder[c] = o => onShift'[o] = onShift[o])
  BY <1>1, <1>2
<1>4. QED BY <1>3, Invariance, PTL DEF EnRouteUntouched

LEMMA SameCalls == \A o : OpenCalls(o) = Board!CallsOf(o)
BY DEF OpenCalls, Board!CallsOf, OpenAssigned, Board!Held

LEMMA BoardStep == PInv /\ [Next]_vars => [Board!Next]_(Board!boardVars)
<1> SUFFICES ASSUME PInv, [Next]_vars
             PROVE  Board!Next \/ UNCHANGED <<status, holder, onShift>>
  BY DEF Board!boardVars
<1>0. Typed /\ HolderMatches BY DEF PInv
<1>1. ASSUME NEW o \in Operators, OperatorStep(o)
      PROVE  Board!Next \/ UNCHANGED <<status, holder, onShift>>
  <2>1. CASE StartShift(o) \/ AdminStartsShift(o)
    BY <2>1 DEF StartShift, AdminStartsShift, callVars, Board!Next, Board!GoOnShift
  <2>2. CASE EndShift(o)
    BY <2>2, SameCalls DEF EndShift, callVars, Board!Next, Board!GoOffShift
  <2>3. CASE \E c \in Calls : Take(o, c)
    <3> PICK c \in Calls : Take(o, c) BY <2>3
    <3>1. Board!MayTake(o) BY SameCalls DEF Take, Board!MayTake
    <3>2. QED
      BY <3>1 DEF Take, SetCall, operatorVars, OpenAssigned, Board!Next, Board!Take,
                  Board!HandOver, Board!Held
  <2>4. CASE Heartbeat(o) \/ SeedHeartbeat(o) \/ SeedFails(o) \/ Connect(o) \/ Disconnect(o)
    BY <2>4 DEF Heartbeat, SeedHeartbeat, SeedFails, Connect, Disconnect, operatorVars, callVars
  <2>5. QED BY <1>1, <2>1, <2>2, <2>3, <2>4 DEF OperatorStep
<1>2. ASSUME NEW c \in Calls, CallStep(c)
      PROVE  Board!Next \/ UNCHANGED <<status, holder, onShift>>
  <2>1. CASE Raise(c)
    BY <1>0, <2>1 DEF Raise, SetCall, operatorVars, HolderMatches, Typed, Board!Next, Board!Raise
  <2>2. CASE Begin(c)
    BY <1>0, <2>2 DEF Begin, SetCall, operatorVars, Typed, Board!Next, Board!Begin
  <2>3. CASE Unassign(c)
    BY <2>3 DEF Unassign, SetCall, operatorVars, OpenAssigned, Board!Next, Board!Return, Board!Held
  <2>4. CASE Resolve(c)
    BY <1>0, <2>4 DEF Resolve, SetCall, operatorVars, Typed, OpenAssigned, Board!Next,
                      Board!Close, Board!Held
  <2>5. QED BY <1>2, <2>1, <2>2, <2>3, <2>4 DEF CallStep
<1>3. ASSUME NEW w \in Workers, CronStep(w)
      PROVE  Board!Next \/ UNCHANGED <<status, holder, onShift>>
  <2>1. CASE \E c \in Calls, o \in Operators : ReclaimCall(w, c, o)
    BY <2>1 DEF ReclaimCall, StillAssignedTo, SetCall, operatorVars, Board!Next, Board!Return,
                Board!Held
  <2>2. CASE \E o \in Operators : DropShift(w, o)
    BY <2>2, SameCalls DEF DropShift, EmptyHanded, callVars, Board!Next, Board!GoOffShift
  <2>3. CASE /\ ~\E c \in Calls, o \in Operators : ReclaimCall(w, c, o)
             /\ ~\E o \in Operators : DropShift(w, o)
    <3>1. UNCHANGED <<operatorVars, callVars>>
      BY <1>3, <2>3
         DEF CronStep, Acquire, RefreshPresence, ListAssigned, FindSilent, PassOver, ReadFails,
             ReclaimNothing, UpdateFails, Reclaimed, ListIdle, AskHeartbeats, KeepShift,
             Dropped, Release
    <3>2. QED BY <3>1 DEF operatorVars, callVars
  <2>4. QED BY <2>1, <2>2, <2>3
<1>4. CASE Tick \/ Failure \/ UNCHANGED vars
  BY <1>4 DEF Tick, Failure, AcquireUnheard, ListFails, UpdateFails, DropFails, Crash, ReadFails,
              vars, operatorVars, callVars
<1>5. QED BY <1>1, <1>2, <1>3, <1>4 DEF Next

\* Seen from the call board, the worker and the operators it watches only make
\* the moves of the board.
THEOREM Refinement == Spec => ImplementsCallBoard
<1>1. Init => Board!Init BY DEF Init, Board!Init
<1>2. QED BY <1>1, BoardStep, Invariance, PTL DEF Spec, ImplementsCallBoard, Board!Spec
=============================================================================
