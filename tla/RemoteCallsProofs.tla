------------------------- MODULE RemoteCallsProofs -------------------------
(* Theorems about the calls to one remote service, for any number of threads  *)
(* and any limits. The argument: the retry state always agrees with the local *)
(* variables of the threads (StateOK), and these hold what their place in     *)
(* _remote_json says (Sane).                                                  *)
EXTENDS RemoteCalls, FiniteSetTheorems, TLAPS

IsWaiting(t) == t.pc \in {"waiting", "woken"}
IsHolding(t) == t.pc \in {"connect", "exchange", "retain", "unlock"} \/ (t.pc = "abort" /\ t.conn)

Waiters == {c \in Call : IsWaiting(call[c])}
Holders == {c \in Call : IsHolding(call[c])}
Connected == {c \in Call : call[c].conn}

(* What a thread holds where it is.                                           *)
Sane(t) ==
  /\ t.conn => t.pc \in {"exchange", "abort", "retain"}
  /\ t.pc \in {"exchange", "retain"} => t.conn
  /\ t.lease # None => t.pc \in {"permit", "connect", "exchange", "abort", "retain", "unlock",
                                 "settle"}
  /\ t.pc \in {"retain", "unlock"} /\ t.answer = "failed" => t.lease = None

AllSane == \A c \in Call : Sane(call[c])

(* The owner on record is the one call with a lease, and a lease taken in the *)
(* present generation was taken when no delay was due.                        *)
Leases(s) ==
  /\ \A c \in Call : call[c].lease # None =>
       /\ s.owner = c
       /\ call[c].lease <= s.generation
       /\ call[c].lease = s.generation => aux_quiet = 0
  /\ s.owner # None => call[s.owner].lease # None

(* While nobody probes no timeout is later than the cooldown.                 *)
Wakes(s) == \A c \in Call : At(c, "waiting") /\ s.owner = None => call[c].wake <= s.cooldown

Unthrottled ==
  aux_quiet = 0 /\ \A c \in Call : ~IsWaiting(call[c]) /\ call[c].lease = None

StateOK ==
  IF state = Absent THEN Unthrottled
  ELSE /\ state.waiters = Cardinality(Waiters)
       /\ Leases(state) /\ Wakes(state)
       /\ aux_quiet <= state.cooldown

PoolOK ==
  /\ permits + Cardinality(Holders) = Limit
  /\ idle + Cardinality(Connected) <= Limit

IInv == TypeOK /\ AllSane /\ StateOK /\ PoolOK

-----------------------------------------------------------------------------
(* Sets of threads.                                                           *)

LEMMA Finite ==
  ASSUME NEW S \in SUBSET Call
  PROVE  IsFiniteSet(S) /\ Cardinality(S) \in Nat
  BY RemoteAssumption, FS_Subset, FS_CardinalityType

LEMMA Added ==
  ASSUME NEW S \in SUBSET Call, NEW c \in Call
  PROVE  Cardinality(S \cup {c}) = IF c \in S THEN Cardinality(S) ELSE Cardinality(S) + 1
  BY Finite, FS_AddElement

LEMMA Removed ==
  ASSUME NEW S \in SUBSET Call, NEW c \in Call
  PROVE  Cardinality(S \ {c}) = IF c \in S THEN Cardinality(S) - 1 ELSE Cardinality(S)
  BY Finite, FS_RemoveElement

LEMMA Positive ==
  ASSUME NEW S \in SUBSET Call, NEW c \in S
  PROVE  Cardinality(S) > 0
  BY Finite, FS_EmptySet

(* c becomes t, and others at most wake up.                                   *)
Moves(c, t) ==
  /\ call' \in [Call -> Thread] /\ call'[c] = t
  /\ \A d \in Call \ {c} :
       \/ call'[d] = call[d]
       \/ At(d, "waiting") /\ call'[d] = [call[d] EXCEPT !.pc = "woken"]

LEMMA BecomesMoves ==
  ASSUME TypeOK, NEW c \in Call, NEW t \in Thread, Becomes(c, t)
  PROVE  Moves(c, t) /\ \A d \in Call \ {c} : call'[d] = call[d]
  BY DEF TypeOK, Becomes, Moves

LEMMA WokenThread ==
  ASSUME NEW t \in Thread
  PROVE  /\ [t EXCEPT !.pc = "woken"] \in Thread
         /\ [t EXCEPT !.pc = "woken"].pc = "woken"
         /\ [t EXCEPT !.pc = "woken"].lease = t.lease
         /\ [t EXCEPT !.pc = "woken"].conn = t.conn
  BY DEF Thread

LEMMA NotifyMoves ==
  ASSUME TypeOK, NEW c \in Call, NEW t \in Thread, NotifyAll(c, t)
  PROVE  Moves(c, t) /\ \A d \in Call \ {c} : call'[d].pc # "waiting"
  <1>1. \A d \in Call : call[d] \in Thread BY DEF TypeOK
  <1>2. \A d \in Call : call'[d] = IF d = c THEN t
                                   ELSE IF At(d, "waiting") THEN [call[d] EXCEPT !.pc = "woken"]
                                   ELSE call[d]
    BY DEF NotifyAll
  <1>3. call' \in [Call -> Thread] BY <1>1, <1>2, WokenThread DEF NotifyAll
  <1>4. \A d \in Call \ {c} : call'[d].pc # "waiting" BY <1>1, <1>2, WokenThread DEF At
  <1> QED BY <1>2, <1>3, <1>4 DEF Moves

(* What a step of c does to the sets of threads.                              *)
LEMMA SetsMove ==
  ASSUME TypeOK, NEW c \in Call, NEW t \in Thread, Moves(c, t), AllSane
  PROVE  /\ Waiters' = IF IsWaiting(t) THEN Waiters \cup {c} ELSE Waiters \ {c}
         /\ Holders' = IF IsHolding(t) THEN Holders \cup {c} ELSE Holders \ {c}
         /\ Connected' = IF t.conn THEN Connected \cup {c} ELSE Connected \ {c}
         /\ \A d \in Call \ {c} : call'[d].lease = call[d].lease
  <1>1. \A d \in Call : call[d] \in Thread BY DEF TypeOK
  <1>2. ASSUME NEW d \in Call \ {c}
        PROVE  /\ IsWaiting(call'[d]) <=> IsWaiting(call[d])
               /\ IsHolding(call'[d]) <=> IsHolding(call[d])
               /\ call'[d].conn = call[d].conn /\ call'[d].lease = call[d].lease
    <2>1. CASE call'[d] = call[d] BY <2>1
    <2>2. CASE At(d, "waiting") /\ call'[d] = [call[d] EXCEPT !.pc = "woken"]
      BY <1>1, <2>2, WokenThread DEF At, IsWaiting, IsHolding
    <2> QED BY <2>1, <2>2 DEF Moves
  <1>3. call'[c] = t BY DEF Moves
  <1>4. \A d \in Call : call'[d].conn \in BOOLEAN BY DEF Moves, Thread
  <1> QED BY <1>1, <1>2, <1>3, <1>4 DEF Waiters, Holders, Connected, Thread

(* Threads that only woke up are as sane as before.                           *)
LEMMA SaneMove ==
  ASSUME TypeOK, NEW c \in Call, NEW t \in Thread, Moves(c, t), AllSane, Sane(t)
  PROVE  AllSane'
  <1>1. \A d \in Call : call[d] \in Thread BY DEF TypeOK
  <1>2. ASSUME NEW d \in Call \ {c} PROVE Sane(call'[d])
    <2>1. CASE call'[d] = call[d] BY <2>1 DEF AllSane
    <2>2. CASE At(d, "waiting") /\ call'[d] = [call[d] EXCEPT !.pc = "woken"]
      <3>1. Sane(call[d]) BY DEF AllSane
      <3> QED BY <1>1, <2>2, <3>1, WokenThread DEF At, Sane
    <2> QED BY <2>1, <2>2 DEF Moves
  <1>3. call'[c] = t BY DEF Moves
  <1> QED BY <1>2, <1>3 DEF AllSane

-----------------------------------------------------------------------------
(* The retry state.                                                           *)

(* A step that leaves the retry state alone and neither takes nor gives back  *)
(* a lease.                                                                   *)
LEMMA StateKept ==
  ASSUME IInv, NEW c \in Call, NEW t \in Thread, Becomes(c, t),
         UNCHANGED <<state, aux_quiet>>,
         t.lease = call[c].lease, t.pc # "waiting", IsWaiting(t) <=> IsWaiting(call[c])
  PROVE  StateOK'
  <1>1. /\ \A d \in Call \ {c} : call'[d] = call[d]
        /\ call'[c] = t /\ call' \in [Call -> Thread]
    BY BecomesMoves DEF IInv, Moves
  <1>2. Waiters' = Waiters BY <1>1 DEF Waiters
  <1>3. CASE state = Absent
    BY <1>1, <1>3 DEF IInv, StateOK, Unthrottled
  <1>4. CASE state # Absent
    <2>1. StateOK' <=> /\ state.waiters = Cardinality(Waiters')
                       /\ Leases(state)' /\ Wakes(state)'
                       /\ aux_quiet <= state.cooldown
      BY <1>4 DEF StateOK
    <2>2. Leases(state)'
      <3>1. Leases(state) BY <1>4 DEF IInv, StateOK
      <3>2. state.owner \in Call \cup {None} BY <1>4 DEF IInv, TypeOK, Throttle
      <3> QED BY <1>1, <3>1, <3>2 DEF Leases
    <2>3. Wakes(state)'
      <3>1. Wakes(state) BY <1>4 DEF IInv, StateOK
      <3> QED BY <1>1, <3>1 DEF Wakes, At
    <2> QED BY <1>2, <1>4, <2>1, <2>2, <2>3 DEF IInv, StateOK
  <1> QED BY <1>3, <1>4

(* The end of a call, or of its wait for an answer, gives its lease back.     *)
LEMMA CompleteKept ==
  ASSUME IInv, NEW c \in Call, NEW t \in Thread, Complete(c, t),
         UNCHANGED aux_quiet, t.lease = None, ~IsWaiting(t), ~IsWaiting(call[c])
  PROVE  Moves(c, t) /\ StateOK'
  <1>0. t.pc # "waiting" BY DEF IsWaiting
  <1>1. CASE call[c].lease # None /\ state # Absent /\ state.owner = c
    <2> DEFINE s == [state EXCEPT !.owner = None,
                       !.cooldown = IF state.generation = call[c].lease THEN 0
                                    ELSE state.cooldown]
    <2>1. state' = Pruned(s) /\ NotifyAll(c, t) BY <1>1 DEF Complete
    <2>2. Moves(c, t) /\ \A d \in Call \ {c} : call'[d].pc # "waiting"
      BY <2>1, NotifyMoves DEF IInv
    <2>3. state \in Throttle BY <1>1 DEF IInv, TypeOK
    <2>4. /\ s \in Throttle /\ s.owner = None /\ s.waiters = state.waiters
          /\ s.generation = state.generation
          /\ s.cooldown = IF state.generation = call[c].lease THEN 0 ELSE state.cooldown
      BY <2>3 DEF Throttle
    <2> HIDE DEF s
    <2>5. /\ state.waiters = Cardinality(Waiters) /\ Leases(state)
          /\ aux_quiet <= state.cooldown
      BY <1>1 DEF IInv, StateOK
    <2>6. /\ Waiters' = Waiters
          /\ \A d \in Call \ {c} : call'[d].lease = call[d].lease
      <3>1. c \notin Waiters BY DEF Waiters
      <3> QED BY <2>2, <3>1, SetsMove DEF IInv
    <2>7. \A d \in Call : call'[d].lease = None
      BY <1>1, <2>2, <2>5, <2>6 DEF Leases, Moves
    <2>8. \A d \in Call : call'[d].pc # "waiting" BY <1>0, <2>2 DEF Moves
    <2>9. aux_quiet <= s.cooldown /\ aux_quiet \in Nat
      BY <1>1, <2>4, <2>5 DEF Leases, IInv, TypeOK
    <2>10. CASE Expired(s)
      <3>1. state' = Absent BY <2>1, <2>10 DEF Pruned
      <3>2. aux_quiet = 0 /\ s.waiters = 0 BY <2>4, <2>9, <2>10 DEF Expired, Throttle
      <3>3. Waiters = {} BY <2>4, <2>5, <3>2, Positive DEF Waiters
      <3> QED BY <2>2, <2>6, <2>7, <3>1, <3>2, <3>3 DEF StateOK, Unthrottled, Waiters
    <2>11. CASE ~Expired(s)
      <3>1. state' = s BY <2>1, <2>11 DEF Pruned
      <3>2. state' # Absent BY <2>4, <3>1, AbsentAssumption
      <3>3. Leases(state)' BY <2>4, <2>7, <3>1 DEF Leases
      <3>4. Wakes(state)' BY <2>8 DEF Wakes, At
      <3> QED BY <2>2, <2>4, <2>5, <2>6, <2>9, <3>1, <3>2, <3>3, <3>4 DEF StateOK
    <2> QED BY <2>10, <2>11
  <1>2. CASE ~(call[c].lease # None /\ state # Absent /\ state.owner = c)
    <2>1. UNCHANGED state /\ Becomes(c, t) BY <1>2 DEF Complete
    <2>2. call[c].lease = None
      BY <1>2 DEF IInv, StateOK, Unthrottled, Leases
    <2> QED BY <1>0, <2>1, <2>2, StateKept, BecomesMoves DEF IInv
  <1> QED BY <1>1, <1>2

(* An answer that throttles opens a new generation.                           *)
LEMMA RecordKept ==
  ASSUME IInv, NEW c \in Call, NEW t \in Thread, NEW delay \in Nat,
         RecordRetryable(c, delay, t),
         t.lease = None, ~IsWaiting(t), ~IsWaiting(call[c])
  PROVE  Moves(c, t) /\ StateOK' /\ state' \in Throttle /\ aux_quiet' \in Nat
  <1> DEFINE old == IF state = Absent THEN Fresh ELSE state
             s == [old EXCEPT
                     !.generation = old.generation + 1,
                     !.cooldown = Longest(old.cooldown, delay),
                     !.owner = IF call[c].lease # None /\ old.owner = c THEN None
                               ELSE old.owner]
  <1>1. state' = s /\ NotifyAll(c, t) /\ aux_quiet' = Longest(aux_quiet, delay)
    BY DEF RecordRetryable
  <1>2. Moves(c, t) /\ \A d \in Call \ {c} : call'[d].pc # "waiting"
    BY <1>1, NotifyMoves DEF IInv
  <1>3. /\ old \in Throttle
        /\ old.waiters = Cardinality(Waiters) /\ aux_quiet <= old.cooldown
        /\ Leases(old)
    <2>1. CASE state = Absent
      <3>1. Unthrottled BY <2>1 DEF IInv, StateOK
      <3>2. Waiters = {} BY <3>1 DEF Unthrottled, Waiters
      <3> QED BY <2>1, <3>1, <3>2, FS_EmptySet DEF Fresh, Throttle, Unthrottled, Leases
    <2>2. CASE state # Absent BY <2>2 DEF IInv, TypeOK, StateOK
    <2> QED BY <2>1, <2>2
  <1> HIDE DEF old
  <1>11. /\ old.generation + 1 \in Nat /\ Longest(old.cooldown, delay) \in Nat
         /\ (IF call[c].lease # None /\ old.owner = c THEN None ELSE old.owner)
              \in Call \cup {None}
    BY <1>3 DEF Throttle, Longest
  <1>4. /\ s \in Throttle /\ s.waiters = old.waiters /\ s.generation = old.generation + 1
        /\ s.cooldown = Longest(old.cooldown, delay)
        /\ s.owner = IF call[c].lease # None /\ old.owner = c THEN None ELSE old.owner
    BY <1>3, <1>11 DEF Throttle
  <1> HIDE DEF s
  <1>5. /\ Waiters' = Waiters
        /\ \A d \in Call \ {c} : call'[d].lease = call[d].lease
    <2>1. c \notin Waiters BY DEF Waiters
    <2>2. TypeOK /\ AllSane BY DEF IInv
    <2>3. /\ Waiters' = Waiters \ {c}
          /\ \A d \in Call \ {c} : call'[d].lease = call[d].lease
      BY <1>2, <2>2, SetsMove
    <2> QED BY <2>1, <2>3
  <1>6. aux_quiet \in Nat /\ old.cooldown \in Nat /\ old.generation \in Nat
        /\ old.owner \in Call \cup {None}
    BY <1>3 DEF IInv, TypeOK, Throttle
  <1>7. aux_quiet' \in Nat /\ aux_quiet' <= s.cooldown
    BY <1>1, <1>3, <1>4, <1>6 DEF Longest
  <1>8. Leases(state)'
    <2>1. ASSUME NEW d \in Call, call'[d].lease # None
          PROVE  /\ s.owner = d /\ call'[d].lease <= s.generation
                 /\ call'[d].lease # s.generation
      <3>1. d # c BY <1>2, <2>1 DEF Moves
      <3>2. call[d].lease # None /\ call'[d].lease = call[d].lease BY <1>5, <2>1, <3>1
      <3>3. old.owner = d /\ call[d].lease <= old.generation BY <1>3, <3>2 DEF Leases
      <3>4. call[d].lease \in Nat BY <3>2 DEF IInv, TypeOK, Thread
      <3> QED BY <1>4, <1>6, <3>1, <3>2, <3>3, <3>4
    <2>2. s.owner # None => call'[s.owner].lease # None
      <3>1. SUFFICES ASSUME s.owner # None PROVE call'[s.owner].lease # None
        OBVIOUS
      <3>2. s.owner = old.owner /\ old.owner \in Call BY <1>4, <1>6, <3>1
      <3>3. call[old.owner].lease # None BY <1>3, <3>1, <3>2 DEF Leases
      <3>4. old.owner # c BY <1>4, <3>1, <3>2, <3>3
      <3> QED BY <1>5, <3>2, <3>3, <3>4
    <2> QED BY <1>1, <2>1, <2>2 DEF Leases
  <1>9. Wakes(state)'
    <2>1. call'[c].pc # "waiting" BY <1>2 DEF Moves, IsWaiting
    <2> QED BY <1>2, <2>1 DEF Wakes, At
  <1>10. state' # Absent BY <1>1, <1>4, AbsentAssumption
  <1> QED BY <1>1, <1>2, <1>3, <1>4, <1>5, <1>7, <1>8, <1>9, <1>10 DEF StateOK

(* What is true of the state that a turn of the loop of acquire looks at.     *)
Joined(c, s) ==
  /\ s \in Throttle
  /\ s.waiters = Cardinality(Waiters \cup {c})
  /\ Leases(s) /\ Wakes(s) /\ aux_quiet <= s.cooldown

(* One turn of the loop of acquire.                                           *)
LEMMA TryKept ==
  ASSUME IInv, NEW c \in Call, NEW s, Joined(c, s), Try(c, s), UNCHANGED aux_quiet,
         ~At(c, "waiting"), call[c].lease = None, ~call[c].conn
  PROVE  /\ state' \in Throttle \cup {Absent} /\ StateOK'
         /\ \E t \in Thread : Becomes(c, t) /\ ~t.conn /\ Sane(t) /\ ~IsHolding(t)
  <1> DEFINE fewer == [s EXCEPT !.waiters = s.waiters - 1]
             taken == [s EXCEPT !.owner = c, !.waiters = s.waiters - 1]
  <1>1. /\ TypeOK /\ AllSane /\ call[c] \in Thread /\ aux_quiet \in Nat
        /\ s \in Throttle /\ s.generation \in Nat /\ s.cooldown \in Nat
        /\ s.owner \in Call \cup {None}
    BY DEF IInv, TypeOK, Joined, Throttle
  <1>2. /\ s.waiters = Cardinality(Waiters \cup {c}) /\ s.waiters > 0 /\ s.waiters \in Nat
        /\ s.waiters - 1 = Cardinality(Waiters \ {c})
    <2>1. Waiters \cup {c} \in SUBSET Call /\ Waiters \in SUBSET Call BY DEF Waiters
    <2>2. Cardinality(Waiters \cup {c}) > 0 BY <2>1, Positive
    <2>3. (Waiters \cup {c}) \ {c} = Waiters \ {c} OBVIOUS
    <2>4. Cardinality(Waiters \ {c}) = Cardinality(Waiters \cup {c}) - 1
      BY <2>1, <2>3, Removed
    <2> QED BY <1>1, <2>1, <2>2, <2>4, Finite DEF Joined
  <1>3. Leases(s) /\ Wakes(s) /\ aux_quiet <= s.cooldown BY DEF Joined
  <1>4. ASSUME NEW t \in Thread, Becomes(c, t)
        PROVE  /\ call'[c] = t /\ \A d \in Call \ {c} : call'[d] = call[d]
               /\ Waiters' = IF IsWaiting(t) THEN Waiters \cup {c} ELSE Waiters \ {c}
    BY <1>1, <1>4, BecomesMoves, SetsMove DEF Moves
  <1>5. /\ fewer \in Throttle /\ fewer.waiters = s.waiters - 1
        /\ fewer.owner = s.owner /\ fewer.generation = s.generation
        /\ fewer.cooldown = s.cooldown
        /\ taken \in Throttle /\ taken.waiters = s.waiters - 1
        /\ taken.owner = c /\ taken.generation = s.generation
        /\ taken.cooldown = s.cooldown
    <2>1. s.waiters - 1 \in Nat BY <1>2
    <2> QED BY <1>1, <2>1 DEF Throttle
  <1> HIDE DEF fewer, taken
  <1>6. CASE call[c].left = 0 /\ state' = Pruned(fewer) /\ Becomes(c, Idle)
    <2>1. /\ Idle \in Thread /\ Sane(Idle) /\ ~Idle.conn /\ Idle.lease = None
          /\ ~IsWaiting(Idle) /\ ~IsHolding(Idle)
      BY DEF Idle, Thread, Sane, IsWaiting, IsHolding
    <2>2. /\ call'[c] = Idle /\ \A d \in Call \ {c} : call'[d] = call[d]
          /\ Waiters' = Waiters \ {c}
      BY <1>4, <1>6, <2>1
    <2>3. CASE Expired(fewer)
      <3>1. state' = Absent BY <1>6, <2>3 DEF Pruned
      <3>2. aux_quiet = 0 /\ s.owner = None /\ s.waiters - 1 = 0
        <4>1. fewer.owner = None /\ fewer.waiters = 0 /\ fewer.cooldown = 0
          BY <2>3 DEF Expired
        <4> QED BY <1>1, <1>2, <1>3, <1>5, <4>1
      <3>3. \A d \in Call : call'[d].lease = None
        BY <1>3, <2>1, <2>2, <3>2, RemoteAssumption DEF Leases
      <3>4. Waiters' = {}
        <4>1. Waiters \ {c} \in SUBSET Call BY DEF Waiters
        <4> QED BY <1>2, <2>2, <3>2, <4>1, Positive
      <3>5. \A d \in Call : ~IsWaiting(call'[d]) BY <3>4 DEF Waiters
      <3> QED BY <1>6, <2>1, <3>1, <3>2, <3>3, <3>5 DEF StateOK, Unthrottled
    <2>4. CASE ~Expired(fewer)
      <3>1. state' = fewer /\ state' # Absent
        BY <1>5, <1>6, <2>4, AbsentAssumption DEF Pruned
      <3>2. Leases(state)'
        <4>1. call'[c].lease = None BY <2>1, <2>2
        <4>2. s.owner # c BY <1>3, RemoteAssumption DEF Leases
        <4> QED BY <1>1, <1>3, <1>5, <2>2, <3>1, <4>1, <4>2 DEF Leases
      <3>3. Wakes(state)'
        <4>1. call'[c].pc # "waiting" BY <2>1, <2>2 DEF IsWaiting
        <4> QED BY <1>3, <1>5, <2>2, <3>1, <4>1 DEF Wakes, At
      <3> QED BY <1>2, <1>3, <1>5, <1>6, <2>1, <2>2, <3>1, <3>2, <3>3 DEF StateOK
    <2> QED BY <2>3, <2>4
  <1>7. CASE /\ call[c].left > 0 /\ s.owner = None /\ s.cooldown = 0 /\ state' = taken
             /\ Becomes(c, [call[c] EXCEPT !.pc = "permit", !.lease = s.generation])
    <2> DEFINE t == [call[c] EXCEPT !.pc = "permit", !.lease = s.generation]
    <2>1. t \in Thread /\ t.pc = "permit" /\ t.lease = s.generation /\ t.conn = call[c].conn
      BY <1>1 DEF Thread
    <2>2. Becomes(c, t) BY <1>7
    <2> HIDE DEF t
    <2>3. Sane(t) /\ ~t.conn /\ ~IsWaiting(t) /\ ~IsHolding(t)
      BY <2>1 DEF Sane, IsWaiting, IsHolding
    <2>4. /\ call'[c] = t /\ \A d \in Call \ {c} : call'[d] = call[d]
          /\ Waiters' = Waiters \ {c}
      BY <1>4, <2>1, <2>2, <2>3
    <2>5. \A d \in Call : call[d].lease = None
      BY <1>3, <1>7, RemoteAssumption DEF Leases
    <2>6. aux_quiet = 0 BY <1>1, <1>3, <1>7
    <2>7. s.generation # None BY <1>1, RemoteAssumption
    <2>8. Leases(state)'
      BY <1>1, <1>5, <1>7, <2>1, <2>4, <2>5, <2>6, <2>7 DEF Leases
    <2>9. Wakes(state)' BY <1>5, <1>7, RemoteAssumption DEF Wakes
    <2>10. state' # Absent BY <1>5, <1>7, AbsentAssumption
    <2>11. StateOK'
      BY <1>2, <1>3, <1>5, <1>7, <2>4, <2>8, <2>9, <2>10 DEF StateOK
    <2> QED BY <1>5, <1>7, <2>1, <2>2, <2>3, <2>11
  <1>8. CASE /\ call[c].left > 0 /\ ~(s.owner = None /\ s.cooldown = 0) /\ state' = s
             /\ Becomes(c, [call[c] EXCEPT
                  !.pc = "waiting",
                  !.wake = IF s.cooldown > 0 THEN Least(call[c].left, s.cooldown)
                           ELSE call[c].left])
    <2> DEFINE w == IF s.cooldown > 0 THEN Least(call[c].left, s.cooldown) ELSE call[c].left
               t == [call[c] EXCEPT !.pc = "waiting", !.wake = w]
    <2>1. w \in Nat /\ (s.cooldown > 0 => w <= s.cooldown)
      BY <1>1 DEF Thread, Least
    <2>2. Becomes(c, t) BY <1>8
    <2> HIDE DEF w
    <2>3. /\ t \in Thread /\ t.pc = "waiting" /\ t.wake = w
          /\ t.lease = call[c].lease /\ t.conn = call[c].conn
      BY <1>1, <2>1 DEF Thread
    <2> HIDE DEF t
    <2>4. Sane(t) /\ ~t.conn /\ IsWaiting(t) /\ ~IsHolding(t)
      BY <2>3 DEF Sane, IsWaiting, IsHolding
    <2>5. /\ call'[c] = t /\ \A d \in Call \ {c} : call'[d] = call[d]
          /\ Waiters' = Waiters \cup {c}
      BY <1>4, <2>2, <2>3, <2>4
    <2>6. Leases(state)'
      <3>1. s.owner # c BY <1>3, RemoteAssumption DEF Leases
      <3>2. call'[c].lease = None BY <2>3, <2>5
      <3> QED BY <1>1, <1>3, <1>8, <2>5, <3>1, <3>2 DEF Leases
    <2>7. Wakes(state)'
      <3>1. s.owner = None => call'[c].wake <= s.cooldown
        BY <1>1, <1>8, <2>1, <2>3, <2>5
      <3> QED BY <1>3, <1>8, <2>5, <3>1 DEF Wakes, At
    <2>8. state' # Absent BY <1>1, <1>8, AbsentAssumption
    <2>9. StateOK' BY <1>2, <1>3, <1>8, <2>5, <2>6, <2>7, <2>8 DEF StateOK
    <2> QED BY <1>1, <1>8, <2>2, <2>3, <2>4, <2>9
  <1>9. state' \in Throttle \cup {Absent} BY <1>1, <1>5, <1>6, <1>7, <1>8 DEF Try, Pruned, fewer, taken
  <1>10. Idle \in Thread /\ Sane(Idle) /\ ~Idle.conn /\ ~IsHolding(Idle)
    BY DEF Idle, Thread, Sane, IsHolding
  <1> QED BY <1>6, <1>7, <1>8, <1>9, <1>10 DEF Try, fewer, taken

(* A state that is not known any more throttles nobody.                       *)
LEMMA NotKnown ==
  ASSUME IInv, ~Known
  PROVE  Unthrottled
  <1>1. CASE state = Absent BY <1>1 DEF IInv, StateOK
  <1>2. CASE state # Absent
    <2>1. /\ state.owner = None /\ state.waiters = 0 /\ state.cooldown = 0
      BY <1>2 DEF Known, Expired
    <2>2. /\ state.waiters = Cardinality(Waiters) /\ Leases(state)
          /\ aux_quiet <= state.cooldown /\ aux_quiet \in Nat
      BY <1>2 DEF IInv, TypeOK, StateOK
    <2>3. Waiters = {}
      <3>1. Waiters \in SUBSET Call BY DEF Waiters
      <3> QED BY <2>1, <2>2, <3>1, Positive
    <2>4. \A c \in Call : call[c].lease = None
      BY <2>1, <2>2, RemoteAssumption DEF Leases
    <2> QED BY <2>1, <2>2, <2>3, <2>4 DEF Unthrottled, Waiters
  <1> QED BY <1>1, <1>2

-----------------------------------------------------------------------------
(* Every step keeps the invariant.                                            *)

LEMMA IdleThread ==
  /\ Idle \in Thread /\ Sane(Idle) /\ ~IsWaiting(Idle) /\ ~IsHolding(Idle)
  /\ Idle.lease = None /\ ~Idle.conn /\ Idle.pc = "idle"
  BY DEF Idle, Thread, Sane, IsWaiting, IsHolding

LEMMA PoolKept ==
  ASSUME TypeOK, AllSane, PoolOK, NEW c \in Call, NEW t \in Thread, Moves(c, t),
         UNCHANGED pool, IsHolding(t) <=> IsHolding(call[c]), t.conn <=> call[c].conn
  PROVE  PoolOK'
  <1>1. /\ Holders' = IF IsHolding(t) THEN Holders \cup {c} ELSE Holders \ {c}
        /\ Connected' = IF t.conn THEN Connected \cup {c} ELSE Connected \ {c}
    BY SetsMove
  <1>2. Holders' = Holders /\ Connected' = Connected BY <1>1 DEF Holders, Connected
  <1> QED BY <1>2 DEF PoolOK, pool

(* A step of c that leaves the retry state alone.                             *)
LEMMA QuietStep ==
  ASSUME IInv, NEW c \in Call, NEW t \in Thread, Becomes(c, t),
         UNCHANGED <<state, aux_quiet>>, Sane(t),
         t.lease = call[c].lease, t.pc # "waiting", IsWaiting(t) <=> IsWaiting(call[c])
  PROVE  Moves(c, t) /\ AllSane' /\ StateOK'
  <1>1. TypeOK /\ AllSane BY DEF IInv
  <1>2. Moves(c, t) BY <1>1, BecomesMoves
  <1>3. AllSane' BY <1>1, <1>2, SaneMove
  <1> QED BY <1>2, <1>3, StateKept

LEMMA GoAheadKept ==
  ASSUME IInv, NEW c \in Call, GoAhead(c)
  PROVE  IInv'
  <1> DEFINE t == [call[c] EXCEPT !.pc = "permit"]
  <1>1. TypeOK /\ AllSane /\ PoolOK /\ call[c] \in Thread /\ Sane(call[c])
    BY DEF IInv, TypeOK, AllSane
  <1>2. /\ At(c, "lease") /\ ~Known /\ state' = Absent /\ Becomes(c, t)
        /\ UNCHANGED <<pool, aux_quiet>>
    BY DEF GoAhead
  <1>3. t \in Thread /\ t.pc = "permit" /\ t.lease = call[c].lease /\ t.conn = call[c].conn
    BY <1>1 DEF Thread
  <1> HIDE DEF t
  <1>4. /\ Sane(t) /\ ~IsWaiting(t) /\ ~IsHolding(t) /\ ~IsHolding(call[c]) /\ t.lease = None
    BY <1>1, <1>2, <1>3 DEF At, Sane, IsWaiting, IsHolding
  <1>5. Moves(c, t) /\ \A d \in Call \ {c} : call'[d] = call[d]
    BY <1>1, <1>2, <1>3, BecomesMoves
  <1>6. AllSane' BY <1>1, <1>3, <1>4, <1>5, SaneMove
  <1>7. PoolOK' BY <1>1, <1>2, <1>3, <1>4, <1>5, PoolKept
  <1>8. StateOK'
    <2>1. Unthrottled BY <1>2, NotKnown
    <2>2. call'[c] = t BY <1>5 DEF Moves
    <2> QED BY <1>2, <1>4, <1>5, <2>1, <2>2 DEF StateOK, Unthrottled
  <1>9. TypeOK' BY <1>1, <1>2, <1>5 DEF TypeOK, Moves, pool
  <1> QED BY <1>6, <1>7, <1>8, <1>9 DEF IInv

(* Join and Retry both end with a turn of the loop of acquire.                *)
LEMMA TurnKept ==
  ASSUME IInv, NEW c \in Call, NEW s, Joined(c, s), Try(c, s),
         UNCHANGED <<pool, aux_quiet>>, At(c, "lease") \/ At(c, "woken")
  PROVE  IInv'
  <1>1. TypeOK /\ AllSane /\ PoolOK /\ call[c] \in Thread /\ Sane(call[c])
    BY DEF IInv, TypeOK, AllSane
  <1>2. /\ ~At(c, "waiting") /\ call[c].lease = None /\ ~call[c].conn
        /\ ~IsHolding(call[c])
    BY <1>1 DEF At, Sane, IsHolding
  <1>3. /\ state' \in Throttle \cup {Absent} /\ StateOK'
        /\ \E t \in Thread : Becomes(c, t) /\ ~t.conn /\ Sane(t) /\ ~IsHolding(t)
    BY <1>2, TryKept
  <1>4. PICK t \in Thread : Becomes(c, t) /\ ~t.conn /\ Sane(t) /\ ~IsHolding(t)
    BY <1>3
  <1>5. Moves(c, t) BY <1>1, <1>4, BecomesMoves
  <1>6. AllSane' BY <1>1, <1>4, <1>5, SaneMove
  <1>7. PoolOK' BY <1>1, <1>2, <1>4, <1>5, PoolKept
  <1>8. TypeOK' BY <1>1, <1>3, <1>5 DEF TypeOK, Moves, pool
  <1> QED BY <1>3, <1>6, <1>7, <1>8 DEF IInv

LEMMA JoinKept ==
  ASSUME IInv, NEW c \in Call, Join(c)
  PROVE  IInv'
  <1> DEFINE old == IF Known THEN state ELSE Fresh
             s == [old EXCEPT !.waiters = old.waiters + 1]
  <1>1. At(c, "lease") /\ Try(c, s) /\ UNCHANGED <<pool, aux_quiet>> BY DEF Join
  <1>2. /\ old \in Throttle /\ old.waiters = Cardinality(Waiters)
        /\ Leases(old) /\ Wakes(old) /\ aux_quiet <= old.cooldown
    <2>1. CASE Known
      <3>1. state # Absent BY <2>1 DEF Known
      <3> QED BY <2>1, <3>1 DEF IInv, TypeOK, StateOK
    <2>2. CASE ~Known
      <3>1. Unthrottled BY <2>2, NotKnown
      <3>2. Waiters = {} BY <3>1 DEF Unthrottled, Waiters
      <3>3. Fresh \in Throttle BY DEF Fresh, Throttle
      <3>4. Fresh.waiters = 0 /\ Fresh.cooldown = 0 /\ Fresh.owner = None BY DEF Fresh
      <3>5. Leases(Fresh) BY <3>1, <3>4 DEF Unthrottled, Leases
      <3>6. Wakes(Fresh) BY <3>1 DEF Unthrottled, Wakes, At, IsWaiting
      <3> QED BY <2>2, <3>1, <3>2, <3>3, <3>4, <3>5, <3>6, FS_EmptySet DEF Unthrottled
    <2> QED BY <2>1, <2>2
  <1> HIDE DEF old
  <1>3. /\ s \in Throttle /\ s.waiters = old.waiters + 1 /\ s.owner = old.owner
        /\ s.generation = old.generation /\ s.cooldown = old.cooldown
    <2>1. old.waiters + 1 \in Nat BY <1>2 DEF Throttle
    <2> QED BY <1>2, <2>1 DEF Throttle
  <1> HIDE DEF s
  <1>4. s.waiters = Cardinality(Waiters \cup {c})
    <2>1. c \notin Waiters BY <1>1 DEF Waiters, At, IsWaiting
    <2>2. Waiters \in SUBSET Call BY DEF Waiters
    <2> QED BY <1>2, <1>3, <2>1, <2>2, Added
  <1>5. Joined(c, s)
    <2>1. Leases(s) BY <1>2, <1>3 DEF Leases
    <2>2. Wakes(s) BY <1>2, <1>3 DEF Wakes
    <2> QED BY <1>2, <1>3, <1>4, <2>1, <2>2 DEF Joined
  <1> QED BY <1>1, <1>5, TurnKept

LEMMA RetryKept ==
  ASSUME IInv, NEW c \in Call, Retry(c)
  PROVE  IInv'
  <1>1. At(c, "woken") /\ Try(c, state) /\ UNCHANGED <<pool, aux_quiet>> BY DEF Retry
  <1>2. c \in Waiters BY <1>1 DEF Waiters, At, IsWaiting
  <1>3. state # Absent BY <1>2 DEF IInv, StateOK, Unthrottled, Waiters
  <1>4. Waiters \cup {c} = Waiters BY <1>2
  <1>5. Joined(c, state) BY <1>3, <1>4 DEF IInv, TypeOK, StateOK, Joined
  <1> QED BY <1>1, <1>5, TurnKept

(* The steps of c that change neither the retry state nor the pool.           *)
LEMMA LocalKept ==
  ASSUME IInv, NEW c \in Call, TimeOut(c) \/ NoPermit(c) \/ Exchange(c) \/ Start(c)
  PROVE  IInv'
  <1>1. TypeOK /\ AllSane /\ PoolOK /\ call[c] \in Thread /\ Sane(call[c])
    BY DEF IInv, TypeOK, AllSane
  <1>2. \E t \in Thread :
          /\ Becomes(c, t) /\ Sane(t) /\ t.lease = call[c].lease /\ t.pc # "waiting"
          /\ IsWaiting(t) <=> IsWaiting(call[c])
          /\ IsHolding(t) <=> IsHolding(call[c])
          /\ t.conn <=> call[c].conn
    <2>1. CASE TimeOut(c)
      <3> DEFINE t == [call[c] EXCEPT !.pc = "woken"]
      <3>1. At(c, "waiting") /\ Becomes(c, t) BY <2>1 DEF TimeOut
      <3>2. t \in Thread /\ t.pc = "woken" /\ t.lease = call[c].lease /\ t.conn = call[c].conn
        BY <1>1, WokenThread
      <3> HIDE DEF t
      <3> QED BY <1>1, <3>1, <3>2 DEF At, Sane, IsWaiting, IsHolding
    <2>2. CASE NoPermit(c)
      <3> DEFINE t == [call[c] EXCEPT !.pc = "abort", !.answer = "failed"]
      <3>1. At(c, "permit") /\ Becomes(c, t) BY <2>2 DEF NoPermit
      <3>2. t \in Thread /\ t.pc = "abort" /\ t.lease = call[c].lease /\ t.conn = call[c].conn
        BY <1>1 DEF Thread
      <3> HIDE DEF t
      <3> QED BY <1>1, <3>1, <3>2 DEF At, Sane, IsWaiting, IsHolding
    <2>3. CASE Exchange(c)
      <3>1. At(c, "exchange") BY <2>3 DEF Exchange
      <3>2. PICK pc \in {"retain", "abort"}, a \in {"final", "throttled", "failed"},
                 r \in BOOLEAN :
              /\ Becomes(c, [call[c] EXCEPT !.pc = pc, !.answer = a, !.reusable = r])
              /\ pc = "retain" => a # "failed"
        <4>1. CASE \E a \in {"final", "throttled"}, r \in BOOLEAN :
                     Becomes(c, [call[c] EXCEPT !.pc = "retain", !.answer = a, !.reusable = r])
          BY <4>1
        <4>2. CASE Becomes(c, [call[c] EXCEPT !.pc = "abort", !.answer = "failed"])
          <5>1. /\ call[c].reusable \in BOOLEAN
                /\ [call[c] EXCEPT !.pc = "abort", !.answer = "failed"]
                   = [call[c] EXCEPT !.pc = "abort", !.answer = "failed",
                                     !.reusable = call[c].reusable]
            BY <1>1 DEF Thread
          <5> QED BY <4>2, <5>1
        <4> QED BY <2>3, <4>1, <4>2 DEF Exchange
      <3> DEFINE t == [call[c] EXCEPT !.pc = pc, !.answer = a, !.reusable = r]
      <3>3. Becomes(c, t) BY <3>2
      <3>4. /\ t \in Thread /\ t.pc = pc /\ t.lease = call[c].lease /\ t.conn = call[c].conn
            /\ t.answer = a
        BY <1>1 DEF Thread
      <3> HIDE DEF t
      <3> QED BY <1>1, <3>1, <3>2, <3>3, <3>4 DEF At, Sane, IsWaiting, IsHolding
    <2>4. CASE Start(c)
      <3> DEFINE t == [Idle EXCEPT !.pc = "lease", !.attempt = 1, !.left = Timeout]
      <3>1. At(c, "idle") /\ Becomes(c, t) BY <2>4 DEF Start
      <3>2. t \in Thread /\ t.pc = "lease" /\ t.lease = None /\ ~t.conn
        BY RemoteAssumption DEF Idle, Thread
      <3> HIDE DEF t
      <3> QED BY <1>1, <3>1, <3>2 DEF At, Sane, IsWaiting, IsHolding
    <2> QED BY <2>1, <2>2, <2>3, <2>4
  <1>3. PICK t \in Thread :
          /\ Becomes(c, t) /\ Sane(t) /\ t.lease = call[c].lease /\ t.pc # "waiting"
          /\ IsWaiting(t) <=> IsWaiting(call[c])
          /\ IsHolding(t) <=> IsHolding(call[c])
          /\ t.conn <=> call[c].conn
    BY <1>2
  <1>4. UNCHANGED <<state, pool, aux_quiet>> BY DEF TimeOut, NoPermit, Exchange, Start
  <1>5. Moves(c, t) /\ AllSane' /\ StateOK' BY <1>3, <1>4, QuietStep
  <1>6. PoolOK' BY <1>1, <1>3, <1>4, <1>5, PoolKept
  <1>7. TypeOK' BY <1>1, <1>4, <1>5 DEF TypeOK, Moves, pool
  <1> QED BY <1>5, <1>6, <1>7 DEF IInv

LEMMA TakePermitKept ==
  ASSUME IInv, NEW c \in Call, TakePermit(c)
  PROVE  IInv'
  <1> DEFINE t == [call[c] EXCEPT !.pc = "connect"]
  <1>1. TypeOK /\ AllSane /\ PoolOK /\ call[c] \in Thread /\ Sane(call[c])
    BY DEF IInv, TypeOK, AllSane
  <1>2. /\ At(c, "permit") /\ permits > 0 /\ permits' = permits - 1 /\ Becomes(c, t)
        /\ UNCHANGED <<state, idle, aux_quiet>>
    BY DEF TakePermit
  <1>3. t \in Thread /\ t.pc = "connect" /\ t.lease = call[c].lease /\ t.conn = call[c].conn
    BY <1>1 DEF Thread
  <1> HIDE DEF t
  <1>4. /\ Sane(t) /\ ~IsWaiting(t) /\ ~IsWaiting(call[c]) /\ t.pc # "waiting"
        /\ IsHolding(t) /\ ~IsHolding(call[c]) /\ ~t.conn /\ ~call[c].conn
    BY <1>1, <1>2, <1>3 DEF At, Sane, IsWaiting, IsHolding
  <1>5. Moves(c, t) /\ AllSane' /\ StateOK' BY <1>2, <1>3, <1>4, QuietStep
  <1>6. PoolOK'
    <2>1. Holders' = Holders \cup {c} /\ Connected' = Connected \ {c}
      BY <1>1, <1>3, <1>4, <1>5, SetsMove
    <2>2. c \notin Holders /\ c \notin Connected BY <1>4 DEF Holders, Connected
    <2>3. Holders \in SUBSET Call BY DEF Holders
    <2>4. Cardinality(Holders') = Cardinality(Holders) + 1 BY <2>1, <2>2, <2>3, Added
    <2>5. Connected' = Connected BY <2>1, <2>2
    <2>6. permits \in Nat /\ Cardinality(Holders) \in Nat /\ Limit \in Nat
      BY <1>1, <2>3, Finite, RemoteAssumption DEF TypeOK
    <2> QED BY <1>1, <1>2, <2>4, <2>5, <2>6 DEF PoolOK
  <1>7. TypeOK'
    <2>1. permits' \in 0..Limit BY <1>1, <1>2, RemoteAssumption DEF TypeOK
    <2> QED BY <1>1, <1>2, <1>5, <2>1 DEF TypeOK, Moves
  <1> QED BY <1>5, <1>6, <1>7 DEF IInv

LEMMA ConnectKept ==
  ASSUME IInv, NEW c \in Call, Connect(c)
  PROVE  IInv'
  <1> DEFINE t == [call[c] EXCEPT !.pc = "exchange", !.conn = TRUE]
  <1>1. TypeOK /\ AllSane /\ PoolOK /\ call[c] \in Thread /\ Sane(call[c])
    BY DEF IInv, TypeOK, AllSane
  <1>2. /\ At(c, "connect") /\ idle' = (IF idle > 0 THEN idle - 1 ELSE 0) /\ Becomes(c, t)
        /\ UNCHANGED <<state, permits, aux_quiet>>
    BY DEF Connect
  <1>3. t \in Thread /\ t.pc = "exchange" /\ t.lease = call[c].lease /\ t.conn
    BY <1>1 DEF Thread
  <1> HIDE DEF t
  <1>4. /\ Sane(t) /\ ~IsWaiting(t) /\ ~IsWaiting(call[c]) /\ t.pc # "waiting"
        /\ IsHolding(t) /\ IsHolding(call[c]) /\ ~call[c].conn
    BY <1>1, <1>2, <1>3 DEF At, Sane, IsWaiting, IsHolding
  <1>5. Moves(c, t) /\ AllSane' /\ StateOK' BY <1>2, <1>3, <1>4, QuietStep
  <1>6. PoolOK'
    <2>1. Holders' = Holders \cup {c} /\ Connected' = Connected \cup {c}
      BY <1>1, <1>3, <1>4, <1>5, SetsMove
    <2>2. c \in Holders /\ c \notin Connected BY <1>4 DEF Holders, Connected
    <2>3. Holders \in SUBSET Call /\ Connected \in SUBSET Call
      BY DEF Holders, Connected
    <2>4. Cardinality(Connected') = Cardinality(Connected) + 1 BY <2>1, <2>2, <2>3, Added
    <2>5. Holders' = Holders BY <2>1, <2>2
    <2>6. permits \in Nat /\ idle \in Nat /\ Limit \in Nat
          /\ Cardinality(Holders) \in Nat /\ Cardinality(Connected) \in Nat
      BY <1>1, <2>3, Finite, RemoteAssumption DEF TypeOK
    <2>7. Cardinality(Connected') <= Cardinality(Holders')
      <3>1. \A d \in Call : Sane(call'[d]) BY <1>5 DEF AllSane
      <3>2. \A d \in Call : call'[d].conn => IsHolding(call'[d])
        BY <3>1 DEF Sane, IsHolding
      <3>3. Connected' \subseteq Holders' BY <3>2 DEF Connected, Holders
      <3>4. IsFiniteSet(Holders') BY <2>3, <2>5, Finite
      <3> QED BY <3>3, <3>4, FS_Subset
    <2>8. idle' + Cardinality(Connected') <= Limit
      <3>1. CASE idle > 0 BY <1>1, <1>2, <2>4, <2>6, <3>1 DEF PoolOK
      <3>2. CASE ~(idle > 0)
        <4>1. Cardinality(Connected') <= Limit BY <1>1, <2>4, <2>5, <2>6, <2>7 DEF PoolOK
        <4> QED BY <1>2, <2>4, <2>6, <3>2, <4>1
      <3> QED BY <3>1, <3>2
    <2> QED BY <1>1, <1>2, <2>5, <2>8 DEF PoolOK
  <1>7. TypeOK'
    <2>1. idle' \in 0..Limit BY <1>1, <1>2, RemoteAssumption DEF TypeOK
    <2> QED BY <1>1, <1>2, <1>5, <2>1 DEF TypeOK, Moves
  <1> QED BY <1>5, <1>6, <1>7 DEF IInv

LEMMA RetainKept ==
  ASSUME IInv, NEW c \in Call, Retain(c)
  PROVE  IInv'
  <1> DEFINE t == [call[c] EXCEPT !.pc = "unlock", !.conn = FALSE]
  <1>1. TypeOK /\ AllSane /\ PoolOK /\ call[c] \in Thread /\ Sane(call[c])
    BY DEF IInv, TypeOK, AllSane
  <1>2. /\ At(c, "retain") /\ Becomes(c, t)
        /\ idle' = (IF call[c].reusable /\ idle < Limit THEN idle + 1 ELSE idle)
        /\ UNCHANGED <<state, permits, aux_quiet>>
    BY DEF Retain
  <1>3. /\ t \in Thread /\ t.pc = "unlock" /\ t.lease = call[c].lease /\ ~t.conn
        /\ t.answer = call[c].answer
    BY <1>1 DEF Thread
  <1> HIDE DEF t
  <1>4. /\ Sane(t) /\ ~IsWaiting(t) /\ ~IsWaiting(call[c]) /\ t.pc # "waiting"
        /\ IsHolding(t) /\ IsHolding(call[c]) /\ call[c].conn
    BY <1>1, <1>2, <1>3 DEF At, Sane, IsWaiting, IsHolding
  <1>5. Moves(c, t) /\ AllSane' /\ StateOK' BY <1>2, <1>3, <1>4, QuietStep
  <1>6. PoolOK'
    <2>1. Holders' = Holders \cup {c} /\ Connected' = Connected \ {c}
      BY <1>1, <1>3, <1>4, <1>5, SetsMove
    <2>2. c \in Holders /\ c \in Connected BY <1>4 DEF Holders, Connected
    <2>3. Connected \in SUBSET Call BY DEF Connected
    <2>4. Cardinality(Connected') = Cardinality(Connected) - 1 BY <2>1, <2>2, <2>3, Removed
    <2>5. Holders' = Holders BY <2>1, <2>2
    <2>6. idle \in Nat /\ Limit \in Nat /\ Cardinality(Connected) \in Nat
      BY <1>1, <2>3, Finite, RemoteAssumption DEF TypeOK
    <2>7. idle' <= idle + 1 BY <1>2, <2>6
    <2>8. idle' \in Nat BY <1>2, <2>6
    <2>9. idle' + Cardinality(Connected') <= Limit
      BY <1>1, <2>4, <2>6, <2>7, <2>8 DEF PoolOK
    <2> QED BY <1>1, <1>2, <2>5, <2>9 DEF PoolOK
  <1>7. TypeOK'
    <2>1. idle' \in 0..Limit BY <1>1, <1>2, RemoteAssumption DEF TypeOK
    <2> QED BY <1>1, <1>2, <1>5, <2>1 DEF TypeOK, Moves
  <1> QED BY <1>5, <1>6, <1>7 DEF IInv

LEMMA UnlockKept ==
  ASSUME IInv, NEW c \in Call, Unlock(c)
  PROVE  IInv'
  <1> DEFINE t == IF call[c].answer = "failed" THEN Idle ELSE [call[c] EXCEPT !.pc = "settle"]
  <1>1. TypeOK /\ AllSane /\ PoolOK /\ call[c] \in Thread /\ Sane(call[c])
    BY DEF IInv, TypeOK, AllSane
  <1>2. /\ At(c, "unlock") /\ permits' = permits + 1 /\ Becomes(c, t)
        /\ UNCHANGED <<state, idle, aux_quiet>>
    BY DEF Unlock
  <1>3. /\ t \in Thread /\ t.pc \in {"idle", "settle"} /\ t.lease = call[c].lease /\ ~t.conn
    <2>1. CASE call[c].answer = "failed"
      <3>1. call[c].lease = None BY <1>1, <1>2, <2>1 DEF At, Sane
      <3> QED BY <2>1, <3>1, IdleThread
    <2>2. CASE call[c].answer # "failed"
      <3>1. ~call[c].conn BY <1>1, <1>2 DEF At, Sane
      <3> QED BY <1>1, <2>2, <3>1 DEF Thread
    <2> QED BY <2>1, <2>2
  <1>8. t.pc = "idle" => t.lease = None
    BY <1>1, <1>2, <1>3, IdleThread DEF Thread
  <1> HIDE DEF t
  <1>4. /\ Sane(t) /\ ~IsWaiting(t) /\ ~IsWaiting(call[c]) /\ t.pc # "waiting"
        /\ ~IsHolding(t) /\ IsHolding(call[c]) /\ ~call[c].conn
    BY <1>1, <1>2, <1>3, <1>8 DEF At, Sane, IsWaiting, IsHolding
  <1>5. Moves(c, t) /\ AllSane' /\ StateOK' BY <1>2, <1>3, <1>4, QuietStep
  <1>9. /\ Cardinality(Holders') = Cardinality(Holders) - 1
        /\ Cardinality(Holders') \in Nat /\ Connected' = Connected
    <2>1. Holders' = Holders \ {c} /\ Connected' = Connected \ {c}
      BY <1>1, <1>3, <1>4, <1>5, SetsMove
    <2>2. c \in Holders /\ c \notin Connected BY <1>4 DEF Holders, Connected
    <2>3. Holders \in SUBSET Call /\ Holders' \in SUBSET Call BY DEF Holders
    <2>4. Cardinality(Holders') = Cardinality(Holders) - 1 BY <2>1, <2>2, <2>3, Removed
    <2> QED BY <2>1, <2>2, <2>3, <2>4, Finite
  <1>10. permits \in Nat /\ Cardinality(Holders) \in Nat /\ Limit \in Nat
    <2>1. Holders \in SUBSET Call BY DEF Holders
    <2> QED BY <1>1, <2>1, Finite, RemoteAssumption DEF TypeOK
  <1>6. PoolOK' BY <1>1, <1>2, <1>9, <1>10 DEF PoolOK
  <1>7. TypeOK'
    <2>1. permits' \in 0..Limit BY <1>1, <1>2, <1>9, <1>10 DEF PoolOK
    <2> QED BY <1>1, <1>2, <1>5, <2>1 DEF TypeOK, Moves
  <1> QED BY <1>5, <1>6, <1>7 DEF IInv

(* Abort, Throttled and Answered end an attempt.                              *)
LEMMA AttemptEnds ==
  ASSUME IInv, NEW c \in Call, NEW t \in Thread, Moves(c, t), StateOK',
         state' \in Throttle \cup {Absent}, aux_quiet' \in Nat, UNCHANGED pool,
         Sane(t), IsHolding(t) <=> IsHolding(call[c]), t.conn <=> call[c].conn
  PROVE  IInv'
  <1>1. TypeOK /\ AllSane /\ PoolOK BY DEF IInv
  <1>2. AllSane' BY <1>1, SaneMove
  <1>3. PoolOK' BY <1>1, PoolKept
  <1>4. TypeOK' BY <1>1 DEF TypeOK, Moves, pool
  <1> QED BY <1>2, <1>3, <1>4 DEF IInv

LEMMA CompleteTyped ==
  ASSUME TypeOK, NEW c \in Call, NEW t, Complete(c, t)
  PROVE  state' \in Throttle \cup {Absent}
  <1>1. CASE call[c].lease # None /\ state # Absent /\ state.owner = c
    <2> DEFINE w == IF state.generation = call[c].lease THEN 0 ELSE state.cooldown
               s == [state EXCEPT !.owner = None, !.cooldown = w]
    <2>1. state' = Pruned(s) BY <1>1 DEF Complete
    <2>2. state \in Throttle BY <1>1 DEF TypeOK
    <2>3. w \in Nat BY <2>2 DEF Throttle
    <2> HIDE DEF w
    <2>4. s \in Throttle BY <2>2, <2>3 DEF Throttle
    <2> HIDE DEF s
    <2> QED BY <2>1, <2>4 DEF Pruned
  <1>2. CASE ~(call[c].lease # None /\ state # Absent /\ state.owner = c)
    BY <1>2 DEF Complete, TypeOK
  <1> QED BY <1>1, <1>2

LEMMA EndKept ==
  ASSUME IInv, NEW c \in Call, Abort(c) \/ Throttled(c) \/ Answered(c)
  PROVE  IInv'
  <1>1. TypeOK /\ AllSane /\ call[c] \in Thread /\ Sane(call[c]) /\ aux_quiet \in Nat
    BY DEF IInv, TypeOK, AllSane
  <1>2. CASE Abort(c)
    <2> DEFINE t == IF call[c].conn THEN [call[c] EXCEPT !.pc = "retain", !.lease = None]
                    ELSE Idle
    <2>1. At(c, "abort") /\ Complete(c, t) /\ UNCHANGED <<pool, aux_quiet>>
      BY <1>2 DEF Abort
    <2>2. /\ t \in Thread /\ t.lease = None /\ t.conn = call[c].conn
          /\ t.pc = IF call[c].conn THEN "retain" ELSE "idle"
      <3>1. CASE call[c].conn BY <1>1, <3>1 DEF Thread
      <3>2. CASE ~call[c].conn BY <1>1, <3>2 DEF Thread, Idle
      <3> QED BY <3>1, <3>2
    <2> HIDE DEF t
    <2>3. /\ Sane(t) /\ ~IsWaiting(t) /\ ~IsWaiting(call[c])
          /\ IsHolding(t) <=> IsHolding(call[c])
      BY <1>1, <2>1, <2>2 DEF At, Sane, IsWaiting, IsHolding
    <2>4. Moves(c, t) /\ StateOK' BY <2>1, <2>2, <2>3, CompleteKept
    <2>5. state' \in Throttle \cup {Absent} BY <1>1, <2>1, CompleteTyped
    <2> QED BY <1>1, <2>1, <2>2, <2>3, <2>4, <2>5, AttemptEnds
  <1>3. CASE Answered(c)
    <2>1. At(c, "settle") /\ Complete(c, Idle) /\ UNCHANGED <<pool, aux_quiet>>
      BY <1>3 DEF Answered
    <2>2. ~IsWaiting(call[c]) /\ ~IsHolding(call[c]) /\ ~call[c].conn
      BY <1>1, <2>1 DEF At, Sane, IsWaiting, IsHolding
    <2>3. Moves(c, Idle) /\ StateOK' BY <2>1, <2>2, IdleThread, CompleteKept
    <2>4. state' \in Throttle \cup {Absent} BY <1>1, <2>1, CompleteTyped
    <2> QED BY <1>1, <2>1, <2>2, <2>3, <2>4, IdleThread, AttemptEnds
  <1>4. CASE Throttled(c)
    <2> DEFINE again == [Idle EXCEPT !.pc = "lease", !.attempt = call[c].attempt + 1,
                                     !.left = call[c].left]
               t == IF call[c].attempt >= MaxAttempts THEN Idle ELSE again
    <2>1. PICK delay \in Delay : RecordRetryable(c, delay, t) BY <1>4 DEF Throttled
    <2>2. At(c, "settle") /\ UNCHANGED pool /\ delay \in Nat
      BY <1>4, RemoteAssumption DEF Throttled
    <2>3. /\ again \in Thread /\ again.lease = None /\ ~again.conn /\ again.pc = "lease"
      <3>1. call[c].attempt + 1 \in Nat /\ call[c].left \in Nat BY <1>1 DEF Thread
      <3>2. ASSUME NEW n \in Nat, NEW l \in Nat
            PROVE  LET next == [Idle EXCEPT !.pc = "lease", !.attempt = n, !.left = l]
                   IN  next \in Thread /\ next.lease = None /\ ~next.conn /\ next.pc = "lease"
        BY DEF Thread, Idle
      <3> QED BY <3>1, <3>2
    <2> HIDE DEF again
    <2>4. /\ t \in Thread /\ t.lease = None /\ ~t.conn /\ t.pc \in {"idle", "lease"}
      BY <2>3, IdleThread
    <2> HIDE DEF t
    <2>5. /\ Sane(t) /\ ~IsWaiting(t) /\ ~IsWaiting(call[c])
          /\ ~IsHolding(t) /\ ~IsHolding(call[c]) /\ ~call[c].conn
      BY <1>1, <2>2, <2>4 DEF At, Sane, IsWaiting, IsHolding
    <2>6. Moves(c, t) /\ StateOK' /\ state' \in Throttle /\ aux_quiet' \in Nat
      BY <2>1, <2>2, <2>4, <2>5, RecordKept
    <2> QED BY <2>2, <2>4, <2>5, <2>6, AttemptEnds
  <1> QED BY <1>2, <1>3, <1>4

LEMMA TickKept ==
  ASSUME IInv, Tick
  PROVE  IInv'
  <1>1. TypeOK /\ AllSane /\ StateOK /\ PoolOK /\ \A c \in Call : call[c] \in Thread
    BY DEF IInv, TypeOK
  <1>2. \A n \in Nat : Down(n) \in Nat /\ (n = 0 => Down(n) = 0) BY DEF Down
  <1>3. \A m, n \in Nat : m <= n => Down(m) <= Down(n) BY DEF Down
  <1>4. \A c \in Call : call'[c] = [call[c] EXCEPT !.left = Down(call[c].left),
                                                   !.wake = Down(call[c].wake)]
    BY DEF Tick
  <1>5. ASSUME NEW c \in Call
        PROVE  /\ call'[c] \in Thread /\ call'[c].pc = call[c].pc
               /\ call'[c].conn = call[c].conn /\ call'[c].lease = call[c].lease
               /\ call'[c].answer = call[c].answer
               /\ call'[c].wake = Down(call[c].wake)
    <2>1. Down(call[c].left) \in Nat /\ Down(call[c].wake) \in Nat
      BY <1>1, <1>2 DEF Thread
    <2>2. PICK l \in Nat, w \in Nat :
            /\ call'[c] = [call[c] EXCEPT !.left = l, !.wake = w]
            /\ w = Down(call[c].wake)
      BY <1>4, <2>1
    <2>3. call[c] \in Thread BY <1>1
    <2>4. /\ call'[c] \in Thread /\ call'[c].pc = call[c].pc
          /\ call'[c].conn = call[c].conn /\ call'[c].lease = call[c].lease
          /\ call'[c].answer = call[c].answer /\ call'[c].wake = w
      BY <2>2, <2>3 DEF Thread
    <2> QED BY <2>2, <2>4
  <1>6. call' \in [Call -> Thread] BY <1>5 DEF Tick
  <1>7. Waiters' = Waiters /\ Holders' = Holders /\ Connected' = Connected
    BY <1>5 DEF Waiters, Holders, Connected, IsWaiting, IsHolding
  <1>8. AllSane' BY <1>1, <1>5 DEF AllSane, Sane
  <1>9. PoolOK' BY <1>1, <1>7 DEF PoolOK, Tick, pool
  <1>10. aux_quiet' = Down(aux_quiet) /\ aux_quiet' \in Nat
    BY <1>1, <1>2 DEF Tick, TypeOK
  <1>11. CASE state = Absent
    <2>1. state' = Absent BY <1>11 DEF Tick
    <2>2. Unthrottled BY <1>1, <1>11 DEF StateOK
    <2>3. Unthrottled' BY <1>2, <1>5, <1>10, <2>2 DEF Unthrottled, IsWaiting
    <2>4. StateOK' BY <2>1, <2>3 DEF StateOK
    <2>5. TypeOK' BY <1>1, <1>6, <1>10, <2>1 DEF TypeOK, Tick, pool
    <2> QED BY <1>8, <1>9, <2>4, <2>5 DEF IInv
  <1>12. CASE state # Absent
    <2>1. /\ state \in Throttle /\ state.waiters = Cardinality(Waiters)
          /\ Leases(state) /\ Wakes(state) /\ aux_quiet <= state.cooldown
          /\ aux_quiet \in Nat /\ state.cooldown \in Nat
          /\ state.owner \in Call \cup {None}
      BY <1>1, <1>12 DEF StateOK, TypeOK, Throttle
    <2>2. Down(state.cooldown) \in Nat BY <1>2, <2>1
    <2>3. state' = [state EXCEPT !.cooldown = Down(state.cooldown)] BY <1>12 DEF Tick
    <2>4. /\ state' \in Throttle /\ state'.waiters = state.waiters
          /\ state'.owner = state.owner /\ state'.generation = state.generation
          /\ state'.cooldown = Down(state.cooldown)
      BY <2>1, <2>2, <2>3 DEF Throttle
    <2>5. Leases(state)'
      <3>1. ASSUME NEW c \in Call, call'[c].lease # None
            PROVE  /\ state'.owner = c /\ call'[c].lease <= state'.generation
                   /\ call'[c].lease = state'.generation => aux_quiet' = 0
        <4>1. call[c].lease # None BY <1>5, <3>1
        <4> QED BY <1>2, <1>5, <1>10, <2>1, <2>4, <4>1 DEF Leases
      <3>2. state'.owner # None => call'[state'.owner].lease # None
        BY <1>5, <2>1, <2>4 DEF Leases
      <3> QED BY <3>1, <3>2 DEF Leases
    <2>6. Wakes(state)'
      <3>1. ASSUME NEW c \in Call, call'[c].pc = "waiting", state'.owner = None
            PROVE  call'[c].wake <= state'.cooldown
        <4>1. call[c].wake <= state.cooldown BY <1>5, <2>1, <2>4, <3>1 DEF Wakes, At
        <4>2. call[c].wake \in Nat BY <1>1 DEF Thread
        <4> QED BY <1>3, <1>5, <2>1, <2>4, <4>1, <4>2
      <3> QED BY <3>1 DEF Wakes, At
    <2>7. aux_quiet' <= state'.cooldown BY <1>3, <1>10, <2>1, <2>4
    <2>8. state' # Absent BY <2>4, AbsentAssumption
    <2>9. StateOK' BY <1>7, <2>1, <2>4, <2>5, <2>6, <2>7, <2>8 DEF StateOK
    <2>10. TypeOK' BY <1>1, <1>6, <1>10, <2>4 DEF TypeOK, Tick, pool
    <2> QED BY <1>8, <1>9, <2>9, <2>10 DEF IInv
  <1> QED BY <1>11, <1>12

-----------------------------------------------------------------------------
(* The invariant.                                                             *)

LEMMA StepInv ==
  ASSUME IInv, [Next]_vars
  PROVE  IInv'
  <1>1. CASE Tick BY <1>1, TickKept
  <1>2. ASSUME NEW c \in Call, Start(c) \/ Step(c)
        PROVE  IInv'
    <2>1. CASE GoAhead(c) BY <2>1, GoAheadKept
    <2>2. CASE Join(c) BY <2>2, JoinKept
    <2>3. CASE Retry(c) BY <2>3, RetryKept
    <2>4. CASE TimeOut(c) \/ NoPermit(c) \/ Exchange(c) \/ Start(c) BY <2>4, LocalKept
    <2>5. CASE TakePermit(c) BY <2>5, TakePermitKept
    <2>6. CASE Connect(c) BY <2>6, ConnectKept
    <2>7. CASE Retain(c) BY <2>7, RetainKept
    <2>8. CASE Unlock(c) BY <2>8, UnlockKept
    <2>9. CASE Abort(c) \/ Throttled(c) \/ Answered(c) BY <2>9, EndKept
    <2> QED BY <1>2, <2>1, <2>2, <2>3, <2>4, <2>5, <2>6, <2>7, <2>8, <2>9 DEF Step
  <1>3. CASE UNCHANGED vars
    <2>1. UNCHANGED <<state, permits, idle, call, aux_quiet>> BY <1>3 DEF vars, pool
    <2>2. TypeOK' BY <2>1 DEF IInv, TypeOK
    <2>3. AllSane' BY <2>1 DEF IInv, AllSane
    <2>4. Waiters' = Waiters /\ Holders' = Holders /\ Connected' = Connected
      BY <2>1 DEF Waiters, Holders, Connected
    <2>5. StateOK'
      BY <2>1, <2>4 DEF IInv, StateOK, Unthrottled, Leases, Wakes, At
    <2>6. PoolOK' BY <2>1, <2>4 DEF IInv, PoolOK
    <2> QED BY <2>2, <2>3, <2>5, <2>6 DEF IInv
  <1> QED BY <1>1, <1>2, <1>3 DEF Next

LEMMA InitInv ==
  ASSUME Init
  PROVE  IInv
  <1>1. \A c \in Call : call[c] = Idle BY DEF Init
  <1>2. TypeOK BY RemoteAssumption, IdleThread DEF Init, TypeOK
  <1>3. AllSane BY <1>1, IdleThread DEF AllSane
  <1>4. Holders = {} /\ Connected = {} BY <1>1, IdleThread DEF Holders, Connected
  <1>5. StateOK BY <1>1, IdleThread DEF Init, StateOK, Unthrottled
  <1>6. PoolOK BY <1>4, FS_EmptySet, RemoteAssumption DEF Init, PoolOK
  <1> QED BY <1>2, <1>3, <1>5, <1>6 DEF IInv

LEMMA AlwaysInv == Spec => []IInv
  <1>1. Init => IInv BY InitInv
  <1>2. IInv /\ [Next]_vars => IInv' BY StepInv
  <1> QED BY <1>1, <1>2, PTL DEF Spec

(* Every variable of the coordinator, the pool and the calls keeps its type:  *)
(* the pool never counts more idle connections or permits than its limit, and *)
(* no call sees a negative time left.                                         *)
THEOREM RemoteTypeCorrect == Spec => []TypeOK
  <1>1. IInv => TypeOK BY DEF IInv
  <1> QED BY <1>1, AlwaysInv, PTL

(* A lease and the owner recorded by acquire always name the same call,       *)
(* however the throttling answers, the ends of calls and pruning interleave.  *)
THEOREM RemoteLeaseIsOwned == Spec => []LeaseIsOwned
  <1>1. IInv => LeaseIsOwned
    <2>1. CASE state = Absent BY <2>1 DEF IInv, StateOK, Unthrottled, LeaseIsOwned
    <2>2. CASE state # Absent BY <2>2 DEF IInv, StateOK, Leases, LeaseIsOwned
    <2> QED BY <2>1, <2>2
  <1> QED BY <1>1, AlwaysInv, PTL

(* The calls inside acquire wait on the state in _states, which counts them:  *)
(* no pop of an expired state leaves a waiter on an object nobody notifies.   *)
THEOREM RemoteOneQueue == Spec => []OneQueue
  <1>1. IInv => OneQueue
    <2>1. Waiters = {c \in Call : Waiting(c)} BY DEF Waiters, IsWaiting, Waiting, At
    <2>2. CASE state = Absent
      BY <2>1, <2>2 DEF IInv, StateOK, Unthrottled, OneQueue, Waiters
    <2>3. CASE state # Absent BY <2>1, <2>3 DEF IInv, StateOK, OneQueue
    <2> QED BY <2>2, <2>3
  <1> QED BY <1>1, AlwaysInv, PTL

(* When the probe is over and the cooldown has passed, no call of acquire is  *)
(* left in Condition.wait with time to sleep.                                 *)
THEOREM RemoteNoLostWakeup == Spec => []NoLostWakeup
  <1>1. IInv => NoLostWakeup
    <2>1. SUFFICES ASSUME IInv, NEW c \in Call, At(c, "waiting"), state # Absent,
                          state.owner = None, state.cooldown = 0
                   PROVE  call[c].wake = 0
      BY DEF NoLostWakeup
    <2>2. call[c].wake <= 0 BY <2>1 DEF IInv, StateOK, Wakes
    <2>3. call[c].wake \in Nat BY <2>1 DEF IInv, TypeOK, Thread
    <2> QED BY <2>2, <2>3
  <1> QED BY <1>1, AlwaysInv, PTL

(* complete ends a cooldown only if no later answer asked for one, and prune  *)
(* drops none: a delay that the service asked for is never shortened.         *)
THEOREM RemoteDelayIsKept == Spec => []DelayIsKept
  <1>1. IInv => DelayIsKept
    <2> SUFFICES ASSUME IInv PROVE DelayIsKept
      OBVIOUS
    <2>1. CASE state = Absent BY <2>1 DEF IInv, StateOK, Unthrottled, DelayIsKept
    <2>2. CASE state # Absent
      <3>1. aux_quiet <= state.cooldown /\ state.cooldown \in Nat /\ aux_quiet \in Nat
        BY <2>2 DEF IInv, TypeOK, StateOK, Throttle
      <3> QED BY <2>2, <3>1 DEF DelayIsKept
    <2> QED BY <2>1, <2>2
  <1> QED BY <1>1, AlwaysInv, PTL

(* The permits of the semaphore and the sockets of the pool are accounted for *)
(* on every path of _remote_json, whatever the limit and number of threads.   *)
THEOREM RemoteWithinLimit == Spec => []WithinLimit
  <1>1. IInv => WithinLimit
    <2>1. Holders = {c \in Call : HoldsPermit(c)}
      BY DEF Holders, IsHolding, HoldsPermit, At
    <2> QED BY <2>1 DEF IInv, PoolOK, WithinLimit, Connected
  <1> QED BY <1>1, AlwaysInv, PTL

=============================================================================
