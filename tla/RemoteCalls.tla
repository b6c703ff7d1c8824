---------------------------- MODULE RemoteCalls ----------------------------
(* The calls of the retrieval to one remote service: _remote_json of          *)
(* scripts/state_rag.py with the two objects its threads share, the           *)
(* connection pool and the retry coordinator. A service that answers 429 or   *)
(* 503 is left alone for the delay it asked for, then tried by one call at a  *)
(* time until one is answered.                                                *)
(*                                                                            *)
(* A step is what a thread does between two points where it gives up a lock   *)
(* or waits. Times are timers that Tick counts down: what is left until the   *)
(* deadline of a call, the end of a cooldown or the timeout of a wait.        *)
EXTENDS Naturals, FiniteSets

CONSTANTS
  Call,           \* threads that call the service, each one call at a time
  Limit,          \* _REMOTE_MAX_CONNECTIONS_PER_SERVICE
  MaxAttempts,    \* _REMOTE_MAX_ATTEMPTS
  Timeout,        \* service.timeout_seconds
  Delay,          \* the delays a throttling answer may lead to
  MaxGeneration,  \* bound: throttling answers between two unthrottled times
  None,           \* no owner, no lease
  Absent          \* no retry state is kept for the service

ASSUME RemoteAssumption ==
  /\ IsFiniteSet(Call)
  /\ Limit \in Nat \ {0} /\ MaxAttempts \in Nat \ {0} /\ Timeout \in Nat
  /\ MaxGeneration \in Nat
  /\ Delay \subseteq Nat
  /\ None \notin Call /\ None \notin Nat

VARIABLES
  state,     \* _states of the coordinator at this service
  permits,   \* what is left of the semaphore in _limits
  idle,      \* the number of connections in _idle
  call,      \* [Call -> local variables of _remote_json]
  aux_quiet  \* time the service asked to be left alone: not in the code

pool == <<permits, idle>>
vars == <<state, pool, call, aux_quiet>>

(* _RemoteRetryState                                                          *)
Throttle ==
  [generation : Nat, cooldown : Nat, owner : Call \cup {None}, waiters : Nat]

ASSUME AbsentAssumption == Absent \notin Throttle

Thread ==
  [pc       : {"idle", "lease", "waiting", "woken", "permit", "connect", "exchange",
               "abort", "retain", "unlock", "settle"},
   attempt  : Nat,
   left     : Nat,                 \* until deadline
   wake     : Nat,                 \* until the timeout of Condition.wait
   lease    : Nat \cup {None},     \* generation of the lease
   conn     : BOOLEAN,             \* connection is not None
   reusable : BOOLEAN,
   answer   : {"none", "final", "throttled", "failed"}]

Idle == [pc |-> "idle", attempt |-> 0, left |-> 0, wake |-> 0, lease |-> None,
         conn |-> FALSE, reusable |-> FALSE, answer |-> "none"]

TypeOK ==
  /\ state \in Throttle \cup {Absent}
  /\ permits \in 0..Limit
  /\ idle \in 0..Limit
  /\ call \in [Call -> Thread]
  /\ aux_quiet \in Nat

Init ==
  /\ state = Absent
  /\ permits = Limit
  /\ idle = 0
  /\ call = [c \in Call |-> Idle]
  /\ aux_quiet = 0

At(c, pc) == call[c].pc = pc
Becomes(c, thread) == call' = [call EXCEPT ![c] = thread]
Least(a, b) == IF a <= b THEN a ELSE b
Longest(a, b) == IF a >= b THEN a ELSE b

(* Condition.notify_all, after which c goes on as thread.                     *)
NotifyAll(c, thread) ==
  call' = [d \in Call |->
             IF d = c THEN thread
             ELSE IF At(d, "waiting") THEN [call[d] EXCEPT !.pc = "woken"]
             ELSE call[d]]

-----------------------------------------------------------------------------
(* _RemoteRetryCoordinator                                                    *)

Fresh == [generation |-> 0, cooldown |-> 0, owner |-> None, waiters |-> 0]

(* A state is dropped although a call still waits on it.                      *)
Expired_Waiters(s) == s.owner = None /\ s.cooldown = 0

(* A state is dropped while a call probes the service.                        *)
Expired_Owner(s) == s.waiters = 0 /\ s.cooldown = 0

Expired(s) == s.owner = None /\ s.waiters = 0 /\ s.cooldown = 0

Pruned(s) == IF Expired(s) THEN Absent ELSE s

(* The loop of acquire keeps waiting past the deadline.                       *)
Try_NoDeadline(c, s) ==
  LET free == s.owner = None /\ s.cooldown = 0 IN
  /\ state' = IF free THEN [s EXCEPT !.owner = c, !.waiters = s.waiters - 1] ELSE s
  /\ Becomes(c, IF free THEN [call[c] EXCEPT !.pc = "permit", !.lease = s.generation]
                ELSE [call[c] EXCEPT !.pc = "waiting", !.wake = call[c].left])

(* One turn of the loop of acquire, on a state that counts c as a waiter.     *)
Try(c, s) ==
  \/ /\ call[c].left = 0
     /\ state' = Pruned([s EXCEPT !.waiters = s.waiters - 1])
     /\ Becomes(c, Idle)
  \/ /\ call[c].left > 0 /\ s.owner = None /\ s.cooldown = 0
     /\ state' = [s EXCEPT !.owner = c, !.waiters = s.waiters - 1]
     /\ Becomes(c, [call[c] EXCEPT !.pc = "permit", !.lease = s.generation])
  \/ /\ call[c].left > 0 /\ ~(s.owner = None /\ s.cooldown = 0)
     /\ state' = s
     /\ Becomes(c, [call[c] EXCEPT
          !.pc = "waiting",
          !.wake = IF s.cooldown > 0 THEN Least(call[c].left, s.cooldown) ELSE call[c].left])

Known == state # Absent /\ ~Expired(state)

(* A first attempt joins a throttle that is known, and goes ahead otherwise.  *)
GoAhead(c) ==
  /\ At(c, "lease")
  /\ ~Known /\ call[c].attempt = 1
  /\ state' = Absent
  /\ Becomes(c, [call[c] EXCEPT !.pc = "permit"])
  /\ UNCHANGED <<pool, aux_quiet>>

Join(c) ==
  /\ At(c, "lease")
  /\ Known \/ call[c].attempt > 1
  /\ LET s == IF Known THEN state ELSE Fresh
     IN Try(c, [s EXCEPT !.waiters = s.waiters + 1])
  /\ UNCHANGED <<pool, aux_quiet>>

TimeOut(c) ==
  /\ At(c, "waiting") /\ call[c].wake = 0
  /\ Becomes(c, [call[c] EXCEPT !.pc = "woken"])
  /\ UNCHANGED <<state, pool, aux_quiet>>

(* A woken call has the lock of the condition again.                          *)
Retry(c) ==
  /\ At(c, "woken")
  /\ Try(c, state)
  /\ UNCHANGED <<pool, aux_quiet>>

(* The waiters are not told that the probe is over.                           *)
Complete_Silent(c, thread) ==
  IF call[c].lease # None /\ state # Absent /\ state.owner = c
  THEN /\ state' = Pruned([state EXCEPT
                     !.owner = None,
                     !.cooldown = IF state.generation = call[c].lease THEN 0
                                  ELSE state.cooldown])
       /\ Becomes(c, thread)
  ELSE /\ UNCHANGED state
       /\ Becomes(c, thread)

(* The end of a probe forgets what others were told meanwhile.                *)
Complete_Forgets(c, thread) ==
  IF call[c].lease # None /\ state # Absent /\ state.owner = c
  THEN /\ state' = Pruned([state EXCEPT !.owner = None, !.cooldown = 0])
       /\ NotifyAll(c, thread)
  ELSE /\ UNCHANGED state
       /\ Becomes(c, thread)

(* complete: c goes on as thread.                                             *)
Complete(c, thread) ==
  IF call[c].lease # None /\ state # Absent /\ state.owner = c
  THEN /\ state' = Pruned([state EXCEPT
                     !.owner = None,
                     !.cooldown = IF state.generation = call[c].lease THEN 0
                                  ELSE state.cooldown])
       /\ NotifyAll(c, thread)
  ELSE /\ UNCHANGED state
       /\ Becomes(c, thread)

(* record_retryable with a delay: c goes on as thread.                        *)
RecordRetryable(c, delay, thread) ==
  LET s == IF state = Absent THEN Fresh ELSE state IN
  /\ state' = [s EXCEPT
                 !.generation = s.generation + 1,
                 !.cooldown = Longest(s.cooldown, delay),
                 !.owner = IF call[c].lease # None /\ s.owner = c THEN None ELSE s.owner]
  /\ NotifyAll(c, thread)
  /\ aux_quiet' = Longest(aux_quiet, delay)

-----------------------------------------------------------------------------
(* _RemoteConnectionPool                                                      *)

(* Semaphore.acquire, within the time left.                                   *)
TakePermit(c) ==
  /\ At(c, "permit") /\ call[c].left > 0
  /\ permits > 0
  /\ permits' = permits - 1
  /\ Becomes(c, [call[c] EXCEPT !.pc = "connect"])
  /\ UNCHANGED <<state, idle, aux_quiet>>

(* No time is left for the request, or none is left for a connection.         *)
NoPermit(c) ==
  /\ At(c, "permit") /\ call[c].left = 0
  /\ Becomes(c, [call[c] EXCEPT !.pc = "abort", !.answer = "failed"])
  /\ UNCHANGED <<state, pool, aux_quiet>>

(* A new connection is opened although there are idle ones.                   *)
Connect_New(c) ==
  /\ At(c, "connect")
  /\ Becomes(c, [call[c] EXCEPT !.pc = "exchange", !.conn = TRUE])
  /\ UNCHANGED <<state, pool, aux_quiet>>

(* An idle connection, or a new one when there is none.                       *)
Connect(c) ==
  /\ At(c, "connect")
  /\ idle' = IF idle > 0 THEN idle - 1 ELSE 0
  /\ Becomes(c, [call[c] EXCEPT !.pc = "exchange", !.conn = TRUE])
  /\ UNCHANGED <<state, permits, aux_quiet>>

(* The connection goes back to _idle, or is closed.                           *)
Retain(c) ==
  /\ At(c, "retain")
  /\ idle' = IF call[c].reusable /\ idle < Limit THEN idle + 1 ELSE idle
  /\ Becomes(c, [call[c] EXCEPT !.pc = "unlock", !.conn = FALSE])
  /\ UNCHANGED <<state, permits, aux_quiet>>

(* The permit is given back; a call that failed has already raised.           *)
Unlock(c) ==
  /\ At(c, "unlock")
  /\ permits' = permits + 1
  /\ Becomes(c, IF call[c].answer = "failed" THEN Idle
                ELSE [call[c] EXCEPT !.pc = "settle"])
  /\ UNCHANGED <<state, idle, aux_quiet>>

-----------------------------------------------------------------------------
(* _remote_json                                                               *)

Start(c) ==
  /\ At(c, "idle")
  /\ Becomes(c, [Idle EXCEPT !.pc = "lease", !.attempt = 1, !.left = Timeout])
  /\ UNCHANGED <<state, pool, aux_quiet>>

Generation == IF state = Absent THEN 0 ELSE state.generation

(* The service answers, or the socket times out or fails.                     *)
Exchange(c) ==
  /\ At(c, "exchange")
  /\ \/ \E answer \in {"final", "throttled"}, reusable \in BOOLEAN :
          /\ answer = "throttled" => Generation < MaxGeneration
          /\ Becomes(c, [call[c] EXCEPT
                           !.pc = "retain", !.answer = answer, !.reusable = reusable])
     \/ Becomes(c, [call[c] EXCEPT !.pc = "abort", !.answer = "failed"])
  /\ UNCHANGED <<state, pool, aux_quiet>>

(* The except clauses give the lease back before finally gives the            *)
(* connection back.                                                           *)
Abort(c) ==
  /\ At(c, "abort")
  /\ Complete(c, IF call[c].conn THEN [call[c] EXCEPT !.pc = "retain", !.lease = None]
                 ELSE Idle)
  /\ UNCHANGED <<pool, aux_quiet>>

(* A throttled call tries again as long as it has attempts left.              *)
Throttled(c) ==
  /\ At(c, "settle") /\ call[c].answer = "throttled"
  /\ \E delay \in Delay :
       RecordRetryable(c, delay,
         IF call[c].attempt >= MaxAttempts THEN Idle
         ELSE [Idle EXCEPT !.pc = "lease", !.attempt = call[c].attempt + 1,
                           !.left = call[c].left])
  /\ UNCHANGED pool

(* Any other answer ends the call, as its result or as an error.              *)
Answered(c) ==
  /\ At(c, "settle") /\ call[c].answer = "final"
  /\ Complete(c, Idle)
  /\ UNCHANGED <<pool, aux_quiet>>

-----------------------------------------------------------------------------
Down(n) == IF n > 0 THEN n - 1 ELSE 0

(* Time passes.                                                               *)
Tick ==
  /\ aux_quiet > 0 \/ \E c \in Call : call[c].left > 0
  /\ call' = [c \in Call |-> [call[c] EXCEPT !.left = Down(call[c].left),
                                             !.wake = Down(call[c].wake)]]
  /\ state' = IF state = Absent THEN Absent
              ELSE [state EXCEPT !.cooldown = Down(state.cooldown)]
  /\ aux_quiet' = Down(aux_quiet)
  /\ UNCHANGED pool

(* What the thread of c does once the call has begun.                         *)
Step(c) ==
  \/ GoAhead(c) \/ Join(c) \/ TimeOut(c) \/ Retry(c)
  \/ TakePermit(c) \/ NoPermit(c) \/ Connect(c) \/ Exchange(c) \/ Abort(c)
  \/ Retain(c) \/ Unlock(c) \/ Throttled(c) \/ Answered(c)

Next == Tick \/ \E c \in Call : Start(c) \/ Step(c)

Spec == Init /\ [][Next]_vars

(* Threads are scheduled, sockets time out and clocks run; nothing makes      *)
(* anyone call.                                                               *)
FairSpec == Spec /\ WF_vars(Tick) /\ \A c \in Call : WF_vars(Step(c))

-----------------------------------------------------------------------------
(* Properties                                                                 *)

Waiting(c) == At(c, "waiting") \/ At(c, "woken")
HoldsPermit(c) == call[c].pc \in {"connect", "exchange", "retain", "unlock"}
                  \/ (At(c, "abort") /\ call[c].conn)

(* A throttled service is probed by one call at a time: whoever has a lease   *)
(* is the owner on record, and an owner on record has a lease to give back.   *)
LeaseIsOwned ==
  /\ \A c \in Call : call[c].lease # None => state # Absent /\ state.owner = c
  /\ state # Absent /\ state.owner # None => call[state.owner].lease # None

(* The state that acquire waits on is the one in _states, and its count of    *)
(* waiters is the number of calls inside acquire: no pop splits the queue of  *)
(* a service in two, and none is kept for waiters that have left.             *)
OneQueue ==
  IF state = Absent THEN \A c \in Call : ~Waiting(c)
  ELSE state.waiters = Cardinality({c \in Call : Waiting(c)})

(* No call sleeps while it could probe: as soon as there is no owner and no   *)
(* cooldown, every waiter was notified or its own timeout is up.              *)
NoLostWakeup ==
  \A c \in Call :
    At(c, "waiting") /\ state # Absent /\ state.owner = None /\ state.cooldown = 0
      => call[c].wake = 0

(* What the service asked for is kept: neither the end of a probe that began  *)
(* earlier nor the pruning of a state shortens a delay told to anyone.        *)
DelayIsKept == aux_quiet > 0 => state # Absent /\ state.cooldown >= aux_quiet

(* acquire and release neither lose nor duplicate a permit, on any path, and  *)
(* idle and used connections together stay within the limit of the service.   *)
WithinLimit ==
  /\ permits + Cardinality({c \in Call : HoldsPermit(c)}) = Limit
  /\ idle + Cardinality({c \in Call : call[c].conn}) <= Limit

(* Every call comes back with an answer or an error, whoever else calls.      *)
EveryCallReturns == \A c \in Call : ~At(c, "idle") ~> At(c, "idle")
=============================================================================
