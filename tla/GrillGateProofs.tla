-------------------------- MODULE GrillGateProofs --------------------------
(* Proofs about GrillGate, for any number of hooks, turns, interviews and     *)
(* questions. A hook that has left process acts on what it read of a session  *)
(* before; Holds says what of that is still so, and the invariant IInv says   *)
(* it of every hook and of the answer on record for the turn that runs.       *)
EXTENDS GrillGate, WellFoundedInduction, SequenceTheorems, TLAPS

(* Revision n of s was read: it is not older than the row, and a receipt that *)
(* s was handed is the turn's own and came later than n.                      *)
Holds(s, n, turn, rows) ==
  /\ rows[s] # None /\ n <= rows[s].revision
  /\ rows[s].result = "receipt" => rows[s].handoff = turn /\ n < rows[s].revision

Settled(state) == state \in {"none", "answered"}

(* The local variables of a hook fit the rows and the questions.              *)
Fit(l, turn, rows, asked) ==
  /\ l.pc # "idle" => l.turn = turn /\ turn \in Turn
  /\ l.pc \notin {"idle", "look", "process"} =>
       l.session \in Session /\ Holds(l.session, l.revision, turn, rows)
  /\ l.pc \in {"regate", "read", "prepare"} => Settled(asked[l.session])
  /\ l.pc = "keep" => l.result \in Waiting

AllFit == \A h \in Hook : Fit(hook[h], current, session, question)

(* The answer of a turn can be acted on once more while the turn runs.        *)
Binding(a, turn, rows) == a.action = "proceed" => Holds(a.session, a.revision, turn, rows)

AllBinding ==
  \A t \in Turn : response[t] # None =>
    t \in begun /\ (t = current => Binding(response[t], current, session))

InOrder == Sessions = {s \in Session : session[s] # None}

Done(s, rows) == s \in Session /\ rows[s] # None /\ rows[s].status = "COMPLETED"

(* A row was not handed a receipt while it asked.                             *)
Unasked(row) == row.status = "AWAITING_ANSWER" => row.result # "receipt"

(* CarriedOutWasWritten, row by row.                                          *)
Lawful(row, rows, written) ==
  /\ Unasked(row)
  /\ row.status = "COMPLETED" => row.handoff \in written
  /\ row.parent # None => Done(row.parent, rows)

AllLawful == \A s \in Session : session[s] # None => Lawful(session[s], session, texts)

IInv ==
  /\ TypeOK /\ InOrder /\ AllFit /\ AllBinding
  /\ AllLawful /\ NoReceiptBeforeAnswer

-----------------------------------------------------------------------------
(* Sets of naturals and the order of the sessions.                            *)

LEMMA LeastNatural ==
  ASSUME NEW T, T \subseteq Nat, T # {}
  PROVE  \E m \in T : \A n \in T : m <= n
<1>1. PICK m \in T : \A n \in T : <<n, m>> \notin OpToRel(<, Nat)
  BY NatLessThanWellFounded, WFMin
<1>2. ASSUME NEW n \in T PROVE m <= n
  <2>1. ~(n < m)
    BY <1>1 DEF OpToRel
  <2> QED BY <2>1
<1> QED BY <1>2

(* ORDER BY updated_at DESC LIMIT 1 finds a row of those it is asked for.     *)
LEMMA LatestIsOne ==
  ASSUME order \in Seq(Session), NEW S, S \subseteq Sessions, S # {}
  PROVE  Latest(S) \in S
<1> DEFINE I == {i \in DOMAIN order : order[i] \in S}
           T == {Len(order) - i : i \in I}
<1>1. DOMAIN order = 1..Len(order) /\ Len(order) \in Nat
  BY LenProperties
<1>2. I # {}
  BY DEF Sessions, ToSet
<1>3. T \subseteq Nat /\ T # {}
  BY <1>1, <1>2
<1>4. PICK m \in T : \A n \in T : m <= n
  <2> HIDE DEF T
  <2> QED BY <1>3, LeastNatural
<1>5. PICK i \in I : m = Len(order) - i
  OBVIOUS
<1>6. ASSUME NEW j \in I PROVE j <= i
  <2>1. m <= Len(order) - j
    BY <1>4
  <2> QED BY <1>1, <1>5, <2>1
<1>7. \E k \in DOMAIN order : order[k] \in S /\ \A j \in DOMAIN order : order[j] \in S => j <= k
  BY <1>5, <1>6
<1> QED BY <1>7 DEF Latest

(* To take a row out of the order leaves the other rows.                      *)
LEMMA OthersRemain ==
  ASSUME order \in Seq(Session), IsInjective(order), NEW s \in Session
  PROVE  /\ Others(s) \in Seq(Session) /\ IsInjective(Others(s))
         /\ ToSet(Others(s)) = Sessions \ {s}
<1>1. DOMAIN order = 1..Len(order) /\ Len(order) \in Nat
  BY LenProperties
<1>2. CASE s \notin Sessions
  BY <1>2 DEF Others, Sessions
<1>3. CASE s \in Sessions
  <2> DEFINE i == CHOOSE i \in DOMAIN order : order[i] = s
             n == Len(order)
             left == SubSeq(order, 1, i - 1)
             right == SubSeq(order, i + 1, n)
  <2>1. i \in 1..n /\ order[i] = s
    BY <1>1, <1>3 DEF Sessions, ToSet
  <2>2. Others(s) = left \o right
    BY <1>3 DEF Others, RemoveAt
  <2> HIDE DEF i
  <2>3. \A j \in 1..n : order[j] \in Session
    BY <1>1
  <2>4. /\ left \in Seq(Session) /\ Len(left) = i - 1
        /\ \A j \in 1..i - 1 : left[j] = order[j]
    BY <1>1, <2>1, <2>3
  <2>5. /\ right \in Seq(Session) /\ Len(right) = n - i
        /\ \A j \in 1..n - i : right[j] = order[i + j]
    <3>1. i + 1 \in Int /\ n \in Int /\ \A j \in i + 1..n : order[j] \in Session
      BY <1>1, <2>1, <2>3
    <3>2. /\ right \in Seq(Session)
          /\ Len(right) = IF i + 1 <= n THEN n - (i + 1) + 1 ELSE 0
          /\ \A j \in 1..n - (i + 1) + 1 : right[j] = order[(i + 1) + j - 1]
      BY <3>1, SubSeqProperties
    <3> HIDE DEF right
    <3>3. Len(right) = n - i
      <4>1. n \in Nat /\ i \in 1..n
        BY <1>1, <2>1
      <4>2. Len(right) = IF i + 1 <= n THEN n - (i + 1) + 1 ELSE 0
        BY <3>2
      <4> HIDE DEF n
      <4>3. CASE i + 1 <= n
        BY <4>1, <4>2, <4>3
      <4>4. CASE ~(i + 1 <= n)
        BY <4>1, <4>2, <4>4
      <4> QED BY <4>3, <4>4
    <3>4. ASSUME NEW j \in 1..n - i PROVE right[j] = order[i + j]
      <4>1. j \in 1..n - (i + 1) + 1 /\ (i + 1) + j - 1 = i + j
        BY <1>1, <2>1
      <4> QED BY <3>2, <4>1
    <3> QED BY <3>2, <3>3, <3>4
  <2> HIDE DEF left, right
  <2>6. /\ Others(s) \in Seq(Session) /\ Len(Others(s)) = n - 1
        /\ DOMAIN Others(s) = 1..n - 1
        /\ \A j \in 1..n - 1 : Others(s)[j] = order[IF j < i THEN j ELSE j + 1]
    <3>1. Others(s) \in Seq(Session) /\ Len(Others(s)) = n - 1
      <4>1. Others(s) \in Seq(Session) /\ Len(Others(s)) = Len(left) + Len(right)
        BY <2>2, <2>4, <2>5, ConcatProperties
      <4> QED BY <1>1, <2>1, <2>4, <2>5, <4>1
    <3>2. DOMAIN Others(s) = 1..n - 1
      BY <3>1, LenProperties
    <3>3. ASSUME NEW j \in 1..n - 1
          PROVE  Others(s)[j] = order[IF j < i THEN j ELSE j + 1]
      <4>1. Others(s)[j] = IF j <= Len(left) THEN left[j] ELSE right[j - Len(left)]
        BY <1>1, <2>1, <2>2, <2>4, <2>5
      <4>2. CASE j < i
        BY <1>1, <2>1, <2>4, <4>1, <4>2
      <4>3. CASE ~(j < i)
        <5>1. j - (i - 1) \in 1..n - i /\ i + (j - (i - 1)) = j + 1
          BY <1>1, <2>1, <4>3
        <5>2. right[j - (i - 1)] = order[i + (j - (i - 1))]
          BY <2>5, <5>1
        <5> QED BY <1>1, <2>1, <2>4, <4>1, <4>3, <5>1, <5>2
      <4> QED BY <4>2, <4>3
    <3> QED BY <3>1, <3>2, <3>3
  <2>7. \A a, b \in 1..n : order[a] = order[b] => a = b
    BY <1>1 DEF IsInjective
  <2>8. IsInjective(Others(s))
    BY <1>1, <2>1, <2>6, <2>7 DEF IsInjective
  <2>9. ToSet(Others(s)) = Sessions \ {s}
    <3>1. ASSUME NEW x \in Sessions \ {s} PROVE x \in ToSet(Others(s))
      <4>1. PICK k \in 1..n : order[k] = x
        BY <1>1 DEF Sessions, ToSet
      <4>2. k # i
        BY <2>1, <4>1
      <4>3. CASE k < i
        BY <1>1, <2>1, <2>6, <4>1, <4>3 DEF ToSet
      <4>4. CASE k > i
        <5>1. k - 1 \in 1..n - 1 /\ ~(k - 1 < i) /\ (k - 1) + 1 = k
          BY <1>1, <2>1, <4>4
        <5>2. Others(s)[k - 1] = x
          BY <2>6, <4>1, <5>1
        <5> QED BY <2>6, <5>1, <5>2 DEF ToSet
      <4> QED BY <1>1, <2>1, <4>2, <4>3, <4>4
    <3>2. ASSUME NEW x \in ToSet(Others(s)) PROVE x \in Sessions \ {s}
      <4>1. PICK j \in 1..n - 1 : x = Others(s)[j]
        BY <2>6 DEF ToSet
      <4>2. PICK k \in 1..n : k # i /\ x = order[k]
        BY <1>1, <2>1, <2>6, <4>1
      <4>3. x # s
        BY <2>1, <2>7, <4>2
      <4> QED BY <1>1, <4>2, <4>3 DEF Sessions, ToSet
    <3> QED BY <3>1, <3>2
  <2> QED BY <2>6, <2>8, <2>9
<1> QED BY <1>2, <1>3

LEMMA SaveOrders ==
  ASSUME order \in Seq(Session), IsInjective(order), NEW s \in Session, NEW row, Save(s, row)
  PROVE  /\ order' \in Seq(Session) /\ IsInjective(order')
         /\ Sessions' = Sessions \cup {s}
<1> DEFINE rest == Others(s)
<1>1. rest \in Seq(Session) /\ IsInjective(rest) /\ ToSet(rest) = Sessions \ {s}
  BY OthersRemain
<1>2. order' = Append(rest, s)
  BY DEF Save
<1> HIDE DEF rest
<1>3. /\ DOMAIN rest = 1..Len(rest) /\ Len(rest) \in Nat
      /\ order' \in Seq(Session) /\ Len(order') = Len(rest) + 1
      /\ \A i \in 1..Len(rest) : order'[i] = rest[i]
      /\ order'[Len(rest) + 1] = s
  BY <1>1, <1>2, LenProperties
<1>4. DOMAIN order' = 1..Len(rest) + 1
  BY <1>3, LenProperties
<1>5. \A i \in 1..Len(rest) : rest[i] # s
  BY <1>1, <1>3 DEF ToSet
<1>6. \A a, b \in 1..Len(rest) : rest[a] = rest[b] => a = b
  BY <1>1, <1>3 DEF IsInjective
<1>7. IsInjective(order')
  BY <1>3, <1>4, <1>5, <1>6 DEF IsInjective
<1>8. ToSet(order') = ToSet(rest) \cup {s}
  <2>1. ToSet(order') \subseteq ToSet(rest) \cup {s}
    BY <1>3, <1>4 DEF ToSet
  <2>2. ToSet(rest) \subseteq ToSet(order')
    BY <1>3, <1>4 DEF ToSet
  <2>3. s \in ToSet(order')
    BY <1>3, <1>4 DEF ToSet
  <2> QED BY <2>1, <2>2, <2>3
<1> QED BY <1>1, <1>3, <1>7, <1>8 DEF Sessions

-----------------------------------------------------------------------------
(* What a step may do to the rows, the questions and the hooks.               *)

(* A row that is saved again.                                                 *)
Follows(old, new, turn, written) ==
  /\ old.status # "COMPLETED" /\ Unasked(new)
  /\ new.revision = old.revision + 1 /\ new.parent = old.parent
  /\ new.status = "COMPLETED" => new.handoff \in written
  /\ IF old.result = "receipt"
     THEN new.result = old.result /\ new.handoff = old.handoff
     ELSE new.result = "receipt" => new.handoff = turn

(* A row that is saved for the first time.                                    *)
Begins(new, rows) ==
  /\ new.status # "COMPLETED" /\ Unasked(new)
  /\ new.parent # None => Done(new.parent, rows)

(* What was read of a row goes on to hold.                                    *)
Ages(rows, later, turn) ==
  \A s \in Session, n \in Nat : Holds(s, n, turn, rows) => Holds(s, n, turn, later)

(* HandoffIsFinal.                                                            *)
Final(rows, later) ==
  \A s \in Session : rows[s] # None /\ rows[s].result = "receipt" =>
    later[s].result = rows[s].result /\ later[s].handoff = rows[s].handoff

(* An answered question stays answered.                                       *)
Settles(asked, later) == \A s \in Session : Settled(asked[s]) => Settled(later[s])

RowsGoOn ==
  /\ session' \in [Session -> Row \cup {None}]
  /\ order' \in Seq(Session) /\ IsInjective(order')
  /\ InOrder' /\ AllLawful'
  /\ Ages(session, session', current) /\ Final(session, session')

LEMMA RowTypes ==
  ASSUME TypeOK, NEW s \in Session, session[s] # None
  PROVE  /\ session[s] \in Row
         /\ session[s].revision \in Nat /\ session[s].missing \in 0..MaxQuestions
         /\ session[s].parent \in Session \cup {None}
         /\ session[s].handoff \in Turn \cup {None} /\ session[s].result \in Result
BY DEF TypeOK, Row

LEMMA LocalTypes ==
  ASSUME TypeOK, NEW h \in Hook
  PROVE  /\ hook[h] \in Local /\ hook[h].revision \in Nat
         /\ hook[h].turn \in Turn \cup {None} /\ hook[h].session \in Session \cup {None}
         /\ hook[h].handoff \in Turn \cup {None} /\ hook[h].result \in Result
BY DEF TypeOK, Local

LEMMA RowsStay ==
  ASSUME IInv, UNCHANGED <<session, order>>, texts \subseteq texts'
  PROVE  RowsGoOn
<1>1. InOrder'
  BY DEF IInv, InOrder, Sessions
<1>2. AllLawful'
  BY DEF IInv, AllLawful, Lawful
<1> QED BY <1>1, <1>2 DEF IInv, TypeOK, RowsGoOn, Ages, Final

LEMMA SaveGoesOn ==
  ASSUME IInv, NEW s \in Session, NEW row \in Row, Save(s, row), texts' = texts,
         session[s] # None => Follows(session[s], row, current, texts),
         session[s] = None => Begins(row, session)
  PROVE  RowsGoOn
<1>1. TypeOK /\ InOrder /\ AllLawful /\ session \in [Session -> Row \cup {None}]
  BY DEF IInv, TypeOK
<1>2. /\ session' = [session EXCEPT ![s] = row]
      /\ session'[s] = row /\ \A r \in Session \ {s} : session'[r] = session[r]
  BY <1>1 DEF Save
<1>3. /\ order' \in Seq(Session) /\ IsInjective(order')
      /\ Sessions' = Sessions \cup {s}
  BY <1>1, SaveOrders DEF TypeOK
<1>4. row # None
  BY NoneAssumption
<1>5. InOrder'
  BY <1>1, <1>2, <1>3, <1>4 DEF InOrder
<1>6. ASSUME NEW r, Done(r, session) PROVE Done(r, session')
  <2>1. r # s
    BY <1>6 DEF Done, Follows
  <2> QED BY <1>2, <1>6, <2>1 DEF Done
<1>7. ASSUME NEW r \in Session, session'[r] # None
      PROVE  Lawful(session'[r], session', texts')
  <2>1. CASE r # s
    BY <1>1, <1>2, <1>6, <1>7, <2>1 DEF AllLawful, Lawful
  <2>2. CASE r = s
    <3>1. CASE session[s] = None
      BY <1>2, <1>6, <2>2, <3>1 DEF Begins, Lawful
    <3>2. CASE session[s] # None
      <4>1. Lawful(session[s], session, texts)
        BY <1>1, <3>2 DEF AllLawful
      <4>2. Follows(session[s], row, current, texts)
        BY <3>2
      <4>3. row.parent # None => Done(row.parent, session')
        BY <1>6, <4>1, <4>2 DEF Follows, Lawful
      <4>4. row.status = "COMPLETED" => row.handoff \in texts'
        BY <4>2 DEF Follows
      <4>5. Unasked(row)
        BY <4>2 DEF Follows
      <4> QED BY <1>2, <2>2, <4>3, <4>4, <4>5 DEF Lawful
    <3> QED BY <3>1, <3>2
  <2> QED BY <2>1, <2>2
<1>8. ASSUME NEW r \in Session, NEW n \in Nat, Holds(r, n, current, session)
      PROVE  Holds(r, n, current, session')
  <2>1. CASE r # s
    BY <1>2, <1>8, <2>1 DEF Holds
  <2>2. CASE r = s
    <3>1. Follows(session[s], row, current, texts) /\ session[s].revision \in Nat
      BY <1>1, <1>8, <2>2, RowTypes DEF Holds
    <3> QED BY <1>2, <1>4, <1>8, <2>2, <3>1 DEF Holds, Follows
  <2> QED BY <2>1, <2>2
<1>9. Final(session, session')
  BY <1>2 DEF Final, Follows
<1>10. session' \in [Session -> Row \cup {None}]
  BY <1>1, <1>2
<1> QED BY <1>3, <1>5, <1>7, <1>8, <1>9, <1>10 DEF RowsGoOn, AllLawful, Ages

LEMMA HookGoesOn ==
  ASSUME IInv, RowsGoOn, current' = current, Settles(question, question'),
         NEW h \in Hook, NEW l \in Local, hook' = [hook EXCEPT ![h] = l],
         Fit(l, current', session', question')
  PROVE  hook' \in [Hook -> Local] /\ AllFit'
<1>1. hook \in [Hook -> Local] /\ AllFit /\ Ages(session, session', current)
  BY DEF IInv, TypeOK, RowsGoOn
<1>2. hook' \in [Hook -> Local]
  BY <1>1
<1>3. ASSUME NEW g \in Hook PROVE Fit(hook'[g], current', session', question')
  <2>1. CASE g = h
    BY <1>1, <2>1
  <2>2. CASE g # h
    <3>1. hook'[g] = hook[g] /\ Fit(hook[g], current, session, question)
      BY <1>1, <2>2 DEF AllFit
    <3>2. hook[g].revision \in Nat
      BY <1>1 DEF Local
    <3> QED BY <1>1, <3>1, <3>2 DEF Fit, Ages, Settles
  <2> QED BY <2>1, <2>2
<1> QED BY <1>2, <1>3 DEF AllFit

LEMMA BindingGoesOn ==
  ASSUME IInv, RowsGoOn, UNCHANGED <<begun, current, response>>
  PROVE  AllBinding'
<1>1. AllBinding /\ Ages(session, session', current) /\ response \in [Turn -> Response \cup {None}]
  BY DEF IInv, TypeOK, RowsGoOn
<1>2. ASSUME NEW t \in Turn, response[t] # None
      PROVE  response[t].session \in Session /\ response[t].revision \in Nat
  BY <1>1, <1>2 DEF Response
<1> QED BY <1>1, <1>2 DEF AllBinding, Binding, Ages

(* The invariant when nothing happens to turns, receipts and answers.         *)
Rest == UNCHANGED <<turns, response, receipts, texts>>

LEMMA HookStep ==
  ASSUME IInv, RowsGoOn, Rest,
         question' \in [Session -> {"none", "due", "open", "answered", "retired"}],
         Settles(question, question'),
         NEW h \in Hook, NEW l \in Local, hook' = [hook EXCEPT ![h] = l],
         Fit(l, current, session', question')
  PROVE  IInv'
<1>1. UNCHANGED <<begun, current, prompt, response, receipts, texts>>
  BY DEF Rest, turns
<1>2. hook' \in [Hook -> Local] /\ AllFit'
  BY <1>1, HookGoesOn
<1>3. AllBinding'
  BY <1>1, BindingGoesOn
<1>4. TypeOK'
  BY <1>1, <1>2 DEF IInv, TypeOK, RowsGoOn
<1>5. NoReceiptBeforeAnswer'
  BY <1>1 DEF IInv, NoReceiptBeforeAnswer, Settles, Settled
<1> QED BY <1>2, <1>3, <1>4, <1>5 DEF IInv, RowsGoOn
-----------------------------------------------------------------------------
(* Step by step.                                                              *)

LEMMA InitIInv ==
  Init => IInv
<1> SUFFICES ASSUME Init PROVE IInv
  OBVIOUS
<1>1. Idle \in Local
  BY DEF Idle, Local, Result
<1>2. DOMAIN order = {} /\ order \in Seq(Session)
  BY DEF Init
<1>3. Sessions = {} /\ IsInjective(order)
  BY <1>2 DEF Sessions, ToSet, IsInjective
<1>4. TypeOK
  BY <1>1, <1>2, <1>3 DEF Init, TypeOK
<1>5. AllFit
  BY DEF Init, AllFit, Fit, Idle
<1>6. InOrder /\ AllBinding /\ AllLawful /\ NoReceiptBeforeAnswer
  BY <1>3 DEF Init, InOrder, AllBinding, AllLawful, NoReceiptBeforeAnswer
<1> QED BY <1>4, <1>5, <1>6 DEF IInv

(* A hook that ends, or is killed.                                            *)
LEMMA ExitStep ==
  ASSUME IInv, RowsGoOn, Rest, NEW h \in Hook, Exit(h),
         question' \in [Session -> {"none", "due", "open", "answered", "retired"}],
         Settles(question, question')
  PROVE  IInv'
<1>1. Idle \in Local
  BY DEF Idle, Local, Result
<1>2. Fit(Idle, current, session', question')
  BY DEF Fit, Idle
<1> QED BY <1>1, <1>2, HookStep DEF Exit

LEMMA Stays ==
  ASSUME IInv, Rest, UNCHANGED store
  PROVE  RowsGoOn
BY RowsStay DEF Rest, store

LEMMA SubmitStep ==
  ASSUME IInv, NEW h \in Hook, NEW t \in Turn, Submit(h, t)
  PROVE  IInv' /\ RowsGoOn
<1> DEFINE l == [Idle EXCEPT !.pc = "look", !.turn = t]
<1>1. TypeOK /\ AllFit /\ AllBinding /\ InOrder /\ AllLawful /\ NoReceiptBeforeAnswer
  BY DEF IInv
<1>2. UNCHANGED <<session, order, response, question, receipts, texts>> /\ Sessions' = Sessions
  BY DEF Submit, store, Sessions
<1>3. RowsGoOn
  BY <1>2, RowsStay
<1>4. l \in Local
  BY DEF Idle, Local, Result
<1>5. l.pc = "look" /\ l.turn = t
  BY DEF Idle
<1>6. hook' = [hook EXCEPT ![h] = l]
  BY DEF Submit
<1> HIDE DEF l
<1>7. current' = t /\ begun \subseteq begun' /\ begun' \subseteq Turn /\ t \in begun'
      /\ prompt' \in Prompt \cup {None}
  BY <1>1, NoneAssumption DEF Submit, TypeOK, turns
<1>8. hook' \in [Hook -> Local]
  BY <1>1, <1>4, <1>6 DEF TypeOK
<1>9. TypeOK'
  BY <1>1, <1>2, <1>7, <1>8 DEF TypeOK
<1>10. ASSUME NEW g \in Hook PROVE Fit(hook'[g], current', session', question')
  <2>1. CASE g = h
    BY <1>1, <1>5, <1>6, <1>7, <2>1 DEF Fit, TypeOK
  <2>2. CASE g # h
    <3>1. hook'[g] = hook[g] /\ Fit(hook[g], current, session, question)
      BY <1>1, <1>6, <2>2 DEF AllFit, TypeOK
    <3>2. hook[g].pc = "idle" \/ current' = current
      BY DEF Submit, At, turns
    <3> QED BY <1>2, <3>1, <3>2 DEF Fit
  <2> QED BY <2>1, <2>2
<1>11. ASSUME NEW u \in Turn, response'[u] # None
       PROVE  u \in begun' /\ (u = current' => Binding(response'[u], current', session'))
  <2>1. u \in begun /\ (u = current => Binding(response[u], current, session))
    BY <1>1, <1>2, <1>11 DEF AllBinding
  <2>2. t \notin begun \/ current' = current
    BY DEF Submit, turns
  <2> QED BY <1>2, <1>7, <2>1, <2>2
<1> QED BY <1>1, <1>2, <1>3, <1>9, <1>10, <1>11
     DEF IInv, InOrder, AllFit, AllBinding, AllLawful, NoReceiptBeforeAnswer

LEMMA LatestRow ==
  ASSUME IInv, NEW S, S \subseteq Sessions, S # {}
  PROVE  /\ Latest(S) \in S /\ Latest(S) \in Session
         /\ session[Latest(S)] # None /\ session[Latest(S)] \in Row
<1>1. TypeOK /\ InOrder
  BY DEF IInv
<1>2. Latest(S) \in S
  BY <1>1, LatestIsOne DEF TypeOK
<1> QED BY <1>1, <1>2, RowTypes DEF InOrder

LEMMA LookStep ==
  ASSUME IInv, NEW h \in Hook, Look(h)
  PROVE  IInv' /\ RowsGoOn
<1>1. TypeOK /\ AllFit /\ Rest /\ UNCHANGED <<store, question>>
  BY DEF IInv, Look, Rest
<1>2. RowsGoOn /\ Settles(question, question') /\ session' = session /\ question' = question
  BY <1>1, Stays DEF Settles, store
<1>3. question' \in [Session -> {"none", "due", "open", "answered", "retired"}]
  BY <1>1 DEF TypeOK
<1>4. /\ hook[h] \in Local /\ hook[h].pc = "look"
      /\ hook[h].turn = current /\ current \in Turn
  BY <1>1, LocalTypes DEF Look, At, AllFit, Fit
<1>5. CASE Exit(h)
  BY <1>1, <1>2, <1>3, <1>5, ExitStep
<1>6. CASE Goto(h, "process")
  <2> DEFINE l == [hook[h] EXCEPT !.pc = "process"]
  <2>1. l \in Local /\ l.pc = "process" /\ l.turn = hook[h].turn
    BY <1>4 DEF Local
  <2>2. hook' = [hook EXCEPT ![h] = l]
    BY <1>6 DEF Goto
  <2> HIDE DEF l
  <2>3. Fit(l, current, session', question')
    BY <1>4, <2>1 DEF Fit
  <2> QED BY <1>1, <1>2, <1>3, <2>1, <2>2, <2>3, HookStep
<1>7. CASE Pending # {}
  <2> DEFINE s == Latest(Pending)
             l == [hook[h] EXCEPT !.pc = "answer", !.session = s,
                     !.revision = session[s].revision,
                     !.handoff = session[s].handoff, !.result = session[s].result]
  <2>1. s \in Pending /\ s \in Session /\ session[s] # None
    BY <1>7, LatestRow DEF Pending, In
  <2>2. session[s].result \in Waiting
    BY <2>1 DEF Pending
  <2>3. hook' = [hook EXCEPT ![h] = l]
    BY <1>7 DEF Look
  <2> HIDE DEF s
  <2>4. l \in Local /\ l.pc = "answer" /\ l.turn = hook[h].turn
        /\ l.session = s /\ l.revision = session[s].revision
    BY <1>1, <1>4, <2>1, RowTypes DEF Local
  <2> HIDE DEF l
  <2>5. Holds(s, l.revision, current, session)
    BY <1>1, <2>1, <2>2, <2>4, RowTypes DEF Holds, Waiting
  <2>6. Fit(l, current, session', question')
    BY <1>2, <1>4, <2>1, <2>4, <2>5 DEF Fit
  <2> QED BY <1>1, <1>2, <1>3, <2>3, <2>4, <2>6, HookStep
<1> QED BY <1>5, <1>6, <1>7 DEF Look

(* An answer on record that is to proceed can be acted on.                    *)
LEMMA RespondFits ==
  ASSUME IInv, NEW h \in Hook, At(h, "process"), NEW a \in Response, Respond(h, a),
         Binding(a, current, session')
  PROVE  \E l \in Local : /\ hook' = [hook EXCEPT ![h] = l]
                         /\ Fit(l, current, session', question')
<1>1. /\ hook[h] \in Local /\ hook[h].pc = "process"
      /\ hook[h].turn = current /\ current \in Turn
  BY LocalTypes DEF IInv, At, AllFit, Fit
<1>2. CASE a.action # "proceed"
  <2>1. Idle \in Local /\ Fit(Idle, current, session', question')
    BY DEF Idle, Local, Result, Fit
  <2>2. hook' = [hook EXCEPT ![h] = Idle]
    BY <1>2 DEF Respond
  <2> QED BY <2>1, <2>2
<1>3. CASE a.action = "proceed"
  <2> DEFINE l == [hook[h] EXCEPT !.pc = "gate", !.session = a.session, !.revision = a.revision]
  <2>1. hook' = [hook EXCEPT ![h] = l]
    BY <1>3 DEF Respond
  <2>2. a.session \in Session /\ a.revision \in Nat
    BY DEF Response
  <2>3. /\ l \in Local /\ l.pc = "gate" /\ l.turn = current
        /\ l.session = a.session /\ l.revision = a.revision
    BY <1>1, <2>2 DEF Local
  <2> HIDE DEF l
  <2>4. Fit(l, current, session', question')
    BY <1>1, <1>3, <2>2, <2>3 DEF Fit, Binding
  <2> QED BY <2>1, <2>3, <2>4
<1> QED BY <1>2, <1>3

LEMMA CachedStep ==
  ASSUME IInv, NEW h \in Hook, Cached(h)
  PROVE  IInv' /\ RowsGoOn
<1>1. /\ Rest /\ UNCHANGED <<store, question>> /\ At(h, "process")
      /\ response[hook[h].turn] # None /\ Respond(h, response[hook[h].turn])
  BY DEF Cached, Rest
<1>2. RowsGoOn /\ Settles(question, question') /\ session' = session
  BY <1>1, Stays DEF Settles, store
<1>3. hook[h].turn = current /\ current \in Turn
  BY <1>1 DEF IInv, AllFit, Fit, At
<1>4. response[current] \in Response /\ Binding(response[current], current, session')
  BY <1>1, <1>2, <1>3 DEF IInv, TypeOK, AllBinding
<1>5. PICK l \in Local : hook' = [hook EXCEPT ![h] = l] /\ Fit(l, current, session', question')
  BY <1>1, <1>3, <1>4, RespondFits
<1>6. question' \in [Session -> {"none", "due", "open", "answered", "retired"}]
  BY <1>1 DEF IInv, TypeOK
<1> QED BY <1>1, <1>2, <1>5, <1>6, HookStep

(* The answer to this turn goes on record.                                    *)
LEMMA RecordStep ==
  ASSUME IInv, RowsGoOn, UNCHANGED <<turns, question, receipts, texts>>,
         NEW h \in Hook, At(h, "process"),
         NEW action \in {"ask", "proceed", "cancel"}, NEW s \in Session, NEW n \in Nat,
         Record(h, action, s, n),
         action = "proceed" => Holds(s, n, current, session')
  PROVE  IInv'
<1> DEFINE a == [action |-> action, session |-> s, revision |-> n]
<1>1. /\ hook[h].turn = current /\ current \in Turn
      /\ response \in [Turn -> Response \cup {None}]
      /\ current \in begun \cup {None} /\ None \notin Turn
  BY NoneAssumption DEF IInv, TypeOK, AllFit, Fit, At
<1>2. UNCHANGED <<begun, current, prompt, question, receipts, texts>>
  BY DEF turns
<1>3. response' = [response EXCEPT ![current] = a] /\ Respond(h, a)
  BY <1>1 DEF Record
<1>4. a \in Response /\ Binding(a, current, session')
  BY DEF Response, Binding
<1> HIDE DEF a
<1>5. PICK l \in Local : hook' = [hook EXCEPT ![h] = l] /\ Fit(l, current, session', question')
  BY <1>3, <1>4, RespondFits
<1>6. hook' \in [Hook -> Local] /\ AllFit'
  BY <1>2, <1>5, HookGoesOn DEF Settles
<1>7. response' \in [Turn -> Response \cup {None}]
  BY <1>1, <1>3, <1>4
<1>8. AllBinding'
  <2>1. ASSUME NEW t \in Turn, response'[t] # None
        PROVE  t \in begun' /\ (t = current' => Binding(response'[t], current', session'))
    <3>1. CASE t = current
      BY <1>1, <1>2, <1>3, <1>4, <3>1
    <3>2. CASE t # current
      <4>1. response'[t] = response[t]
        BY <1>1, <1>3, <3>2
      <4> QED BY <1>2, <2>1, <3>2, <4>1 DEF IInv, AllBinding
    <3> QED BY <3>1, <3>2
  <2> QED BY <2>1 DEF AllBinding
<1>9. TypeOK'
  BY <1>2, <1>6, <1>7 DEF IInv, TypeOK, RowsGoOn
<1>10. NoReceiptBeforeAnswer'
  BY <1>2 DEF IInv, NoReceiptBeforeAnswer
<1> QED BY <1>6, <1>8, <1>9, <1>10 DEF IInv, RowsGoOn

LEMMA RepeatStep ==
  ASSUME IInv, NEW h \in Hook, Repeat(h)
  PROVE  IInv' /\ RowsGoOn
<1> DEFINE s == Latest(Active)
<1>1. s \in Session /\ session[s] # None
  BY LatestRow DEF Repeat, Active, Unexpired, In
<1>2. session[s].revision \in Nat
  BY <1>1, RowTypes DEF IInv
<1>3. /\ At(h, "process") /\ Record(h, "ask", s, session[s].revision)
      /\ UNCHANGED <<turns, store, question, receipts, texts>>
  BY DEF Repeat, Answering
<1> HIDE DEF s
<1>4. RowsGoOn
  BY <1>3, RowsStay DEF store
<1> QED BY <1>1, <1>2, <1>3, <1>4, RecordStep

(* A row that is saved has its next revision.                                 *)
LEMMA AdvancedRow ==
  ASSUME NEW s \in Session, session[s] \in Row
  PROVE  /\ Advanced(s) \in Row /\ Advanced(s).revision = session[s].revision + 1
         /\ Advanced(s).revision \in Nat
         /\ Advanced(s).parent = session[s].parent /\ Advanced(s).status = session[s].status
         /\ Advanced(s).handoff = session[s].handoff /\ Advanced(s).result = session[s].result
BY DEF Row, Advanced

LEMMA CancelStep ==
  ASSUME IInv, NEW h \in Hook, Cancel(h)
  PROVE  IInv' /\ RowsGoOn
<1> DEFINE s == Latest(Active)
           row == [Advanced(s) EXCEPT !.status = "CANCELLED"]
<1>1. s \in Active /\ s \in Session /\ session[s] # None /\ session[s] \in Row
  BY LatestRow DEF Cancel, Active, Unexpired, In
<1>2. session[s].status = "AWAITING_ANSWER" /\ Unasked(session[s])
  BY <1>1 DEF Active, Unexpired, In, IInv, AllLawful, Lawful
<1>3. /\ At(h, "process") /\ Save(s, row) /\ Record(h, "cancel", s, Advanced(s).revision)
      /\ UNCHANGED <<turns, question, receipts, texts>>
  BY DEF Cancel, Answering
<1> HIDE DEF s
<1>4. row \in Row /\ Advanced(s).revision \in Nat
  BY <1>1, AdvancedRow DEF Row
<1>5. Follows(session[s], row, current, texts)
  BY <1>1, <1>2 DEF Follows, Unasked, Advanced, Row
<1> HIDE DEF row
<1>6. RowsGoOn
  BY <1>1, <1>3, <1>4, <1>5, SaveGoesOn
<1> QED BY <1>1, <1>3, <1>4, <1>6, RecordStep

LEMMA AnswerFieldStep ==
  ASSUME IInv, NEW h \in Hook, AnswerField(h)
  PROVE  IInv' /\ RowsGoOn
<1> DEFINE s == Latest(Active)
           asks == [Advanced(s) EXCEPT !.missing = @ - 1]
           locks == [Advanced(s) EXCEPT !.missing = 0, !.status = "EXECUTING"]
<1>1. s \in Active /\ s \in Session /\ session[s] # None /\ session[s] \in Row
  BY LatestRow DEF AnswerField, Active, Unexpired, In
<1>2. session[s].status = "AWAITING_ANSWER" /\ session[s].result # "receipt"
  BY <1>1 DEF Active, Unexpired, In, IInv, AllLawful, Lawful, Unasked
<1>3. /\ At(h, "process") /\ UNCHANGED <<turns, question, receipts, texts>>
      /\ \/ Advanced(s).missing > 1 /\ Save(s, asks) /\ Record(h, "ask", s, Advanced(s).revision)
         \/ Save(s, locks) /\ Record(h, "proceed", s, Advanced(s).revision)
  BY DEF AnswerField, Answering
<1> HIDE DEF s
<1>4. Advanced(s) \in Row /\ Advanced(s).revision = session[s].revision + 1
      /\ Advanced(s).revision \in Nat
  BY <1>1, AdvancedRow
<1>5. CASE Advanced(s).missing > 1 /\ Save(s, asks) /\ Record(h, "ask", s, Advanced(s).revision)
  <2>1. Advanced(s).missing - 1 \in 0..MaxQuestions
    BY <1>4, <1>5, QuestionsAssumption DEF Row
  <2>2. asks \in Row
    BY <1>4, <2>1 DEF Row
  <2>3. Follows(session[s], asks, current, texts)
    BY <1>1, <1>2 DEF Follows, Unasked, Advanced, Row
  <2> HIDE DEF asks
  <2>4. RowsGoOn
    BY <1>1, <1>3, <1>5, <2>2, <2>3, SaveGoesOn
  <2> QED BY <1>1, <1>3, <1>4, <1>5, <2>4, RecordStep
<1>6. CASE Save(s, locks) /\ Record(h, "proceed", s, Advanced(s).revision)
  <2>1. 0 \in 0..MaxQuestions
    BY QuestionsAssumption
  <2>2. locks \in Row /\ locks.revision = Advanced(s).revision /\ locks.result # "receipt"
    BY <1>2, <1>4, <2>1 DEF Row, Advanced
  <2>3. Follows(session[s], locks, current, texts)
    BY <1>1, <1>2 DEF Follows, Unasked, Advanced, Row
  <2> HIDE DEF locks
  <2>4. RowsGoOn
    BY <1>1, <1>3, <1>6, <2>2, <2>3, SaveGoesOn
  <2>5. session'[s] = locks
    BY <1>1, <1>6 DEF Save, IInv, TypeOK
  <2>6. Holds(s, Advanced(s).revision, current, session')
    BY <1>4, <2>2, <2>5, NoneAssumption DEF Holds
  <2> QED BY <1>1, <1>3, <1>4, <1>6, <2>4, <2>6, RecordStep
<1> QED BY <1>3, <1>5, <1>6

LEMMA NewRowIsRow ==
  ASSUME NEW status \in {"AWAITING_ANSWER", "EXECUTING"}, NEW m \in 0..MaxQuestions,
         NEW parent \in Session \cup {None},
         parent # None => Done(parent, session)
  PROVE  /\ NewRow(status, m, parent) \in Row
         /\ Begins(NewRow(status, m, parent), session)
         /\ NewRow(status, m, parent).revision = 1
         /\ NewRow(status, m, parent).result = "nothing"
BY DEF NewRow, Row, Result, Begins, Unasked

(* A session begins, locked or not.                                           *)
LEMMA NewRowStep ==
  ASSUME IInv, UNCHANGED <<turns, question, receipts, texts>>,
         NEW h \in Hook, At(h, "process"), NEW s \in Session, s \notin Sessions,
         NEW row \in Row, Begins(row, session), row.revision = 1, row.result = "nothing",
         Save(s, row), Record(h, "ask", s, 1) \/ Record(h, "proceed", s, 1)
  PROVE  IInv' /\ RowsGoOn
<1>1. session[s] = None
  BY DEF IInv, InOrder
<1>2. RowsGoOn
  BY <1>1, SaveGoesOn
<1>3. session'[s] = row
  BY DEF Save, IInv, TypeOK
<1>4. Holds(s, 1, current, session')
  BY <1>3, NoneAssumption DEF Holds
<1> QED BY <1>2, <1>4, RecordStep

LEMMA InheritStep ==
  ASSUME IInv, NEW h \in Hook, NEW s \in Session, Inherit(h, s)
  PROVE  IInv' /\ RowsGoOn
<1> DEFINE p == Latest(Reusable)
<1>1. p \in Reusable /\ p \in Session /\ session[p] # None
  BY LatestRow DEF Inherit, Reusable, Unexpired, In
<1>2. Done(p, session)
  BY <1>1 DEF Done, Reusable, Unexpired, In
<1>3. /\ At(h, "process") /\ s \notin Sessions
      /\ Save(s, NewRow("EXECUTING", 0, p)) /\ Record(h, "proceed", s, 1)
      /\ UNCHANGED <<turns, question, receipts, texts>>
  BY DEF Inherit, Answering
<1> HIDE DEF p
<1>4. 0 \in 0..MaxQuestions
  BY QuestionsAssumption
<1> DEFINE row == NewRow("EXECUTING", 0, p)
<1>5. row \in Row /\ Begins(row, session) /\ row.revision = 1 /\ row.result = "nothing"
  BY <1>1, <1>2, <1>4, NewRowIsRow
<1> HIDE DEF row
<1>6. Save(s, row)
  BY <1>3 DEF row
<1> QED BY <1>3, <1>5, <1>6, NewRowStep

LEMMA BeginStep ==
  ASSUME IInv, NEW h \in Hook, NEW s \in Session, Begin(h, s)
  PROVE  IInv' /\ RowsGoOn
<1> DEFINE locked == NewRow("EXECUTING", 0, None)
           asking(m) == NewRow("AWAITING_ANSWER", m, None)
<1>1. /\ At(h, "process") /\ s \notin Sessions
      /\ UNCHANGED <<turns, question, receipts, texts>>
      /\ \/ Save(s, locked) /\ Record(h, "proceed", s, 1)
         \/ \E m \in 1..MaxQuestions : Save(s, asking(m)) /\ Record(h, "ask", s, 1)
  BY DEF Begin, Answering
<1>2. 0 \in 0..MaxQuestions /\ 1..MaxQuestions \subseteq 0..MaxQuestions
  BY QuestionsAssumption
<1>3. /\ locked \in Row /\ Begins(locked, session)
      /\ locked.revision = 1 /\ locked.result = "nothing"
  BY <1>2, NewRowIsRow
<1>4. \A m \in 1..MaxQuestions :
        /\ asking(m) \in Row /\ Begins(asking(m), session)
        /\ asking(m).revision = 1 /\ asking(m).result = "nothing"
  BY <1>2, NewRowIsRow
<1> HIDE DEF locked, asking
<1> QED BY <1>1, <1>3, <1>4, NewRowStep

-----------------------------------------------------------------------------
(* The hook past process.                                                     *)

(* What a hook that goes on knows of its session.                             *)
LEMMA BusyHook ==
  ASSUME IInv, NEW h \in Hook, hook[h].pc \notin {"idle", "look", "process"}
  PROVE  /\ hook[h] \in Local /\ hook[h].turn = current /\ current \in Turn
         /\ hook[h].session \in Session /\ session[hook[h].session] # None
         /\ hook[h].revision \in Nat
         /\ Holds(hook[h].session, hook[h].revision, current, session)
         /\ session[hook[h].session] \in Row
<1>1. TypeOK /\ Fit(hook[h], current, session, question)
  BY DEF IInv, AllFit
<1>2. /\ hook[h].session \in Session /\ hook[h].turn = current /\ current \in Turn
      /\ Holds(hook[h].session, hook[h].revision, current, session)
  BY <1>1 DEF Fit
<1> QED BY <1>1, <1>2, LocalTypes, RowTypes DEF Holds

(* The hook goes on to another pc, with another result.                       *)
LEMMA GoOnStep ==
  ASSUME IInv, RowsGoOn, Rest, NEW h \in Hook,
         question' \in [Session -> {"none", "due", "open", "answered", "retired"}],
         Settles(question, question'),
         hook[h].pc \notin {"idle", "look", "process"},
         NEW pc \in {"regate", "keep", "await", "read", "prepare", "mark", "fail"},
         NEW result \in Result,
         hook' = [hook EXCEPT ![h].pc = pc, ![h].result = result],
         pc \in {"regate", "read", "prepare"} => Settled(question'[hook[h].session]),
         pc = "keep" => result \in Waiting
  PROVE  IInv'
<1> DEFINE l == [hook[h] EXCEPT !.pc = pc, !.result = result]
<1>1. /\ hook[h] \in Local /\ hook[h].turn = current /\ current \in Turn
      /\ hook[h].session \in Session /\ hook[h].revision \in Nat
      /\ Holds(hook[h].session, hook[h].revision, current, session)
  BY BusyHook
<1>2. /\ l \in Local /\ l.pc = pc /\ l.turn = current /\ l.result = result
      /\ l.session = hook[h].session /\ l.revision = hook[h].revision
  BY <1>1 DEF Local
<1>3. hook' = [hook EXCEPT ![h] = l]
  BY DEF IInv, TypeOK, Local
<1> HIDE DEF l
<1>4. Holds(l.session, l.revision, current, session')
  BY <1>1, <1>2 DEF RowsGoOn, Ages
<1>5. Fit(l, current, session', question')
  BY <1>1, <1>2, <1>4 DEF Fit
<1> QED BY <1>2, <1>3, <1>5, HookStep

(* Without another result.                                                    *)
LEMMA GotoStep ==
  ASSUME IInv, RowsGoOn, Rest, NEW h \in Hook,
         question' \in [Session -> {"none", "due", "open", "answered", "retired"}],
         Settles(question, question'),
         hook[h].pc \notin {"idle", "look", "process"},
         NEW pc \in {"regate", "read", "prepare", "mark", "fail"},
         Goto(h, pc),
         pc \in {"regate", "read", "prepare"} => Settled(question'[hook[h].session])
  PROVE  IInv'
<1>1. hook \in [Hook -> Local] /\ hook[h].result \in Result
  BY LocalTypes DEF IInv, TypeOK
<1>2. hook' = [hook EXCEPT ![h].pc = pc, ![h].result = hook[h].result]
  BY <1>1 DEF Goto, Local
<1> QED BY <1>1, <1>2, GoOnStep

LEMMA QuestionsStay ==
  ASSUME IInv, question' = question
  PROVE  /\ question' \in [Session -> {"none", "due", "open", "answered", "retired"}]
         /\ Settles(question, question')
BY DEF IInv, TypeOK, Settles

LEMMA GateStep ==
  ASSUME IInv, NEW h \in Hook, Gate(h)
  PROVE  IInv' /\ RowsGoOn
<1> DEFINE s == hook[h].session
<1>1. Rest /\ UNCHANGED store /\ hook[h].pc = "gate"
  BY DEF Gate, Rest, At
<1>2. RowsGoOn
  BY <1>1, Stays
<1>3. s \in Session /\ question \in [Session -> {"none", "due", "open", "answered", "retired"}]
  BY <1>1, BusyHook DEF IInv, TypeOK
<1>4. CASE question[s] \in {"none", "answered"} /\ Goto(h, "read") /\ UNCHANGED question
  BY <1>1, <1>2, <1>4, GotoStep, QuestionsStay DEF Settled
<1>5. CASE /\ question[s] \in {"due", "open"}
           /\ question' = [question EXCEPT ![s] = "open"]
           /\ hook' = [hook EXCEPT ![h].pc = "await", ![h].result = "ask"]
  <2>1. /\ question' \in [Session -> {"none", "due", "open", "answered", "retired"}]
        /\ Settles(question, question')
    BY <1>3, <1>5 DEF Settles, Settled
  <2>2. "ask" \in Result
    BY DEF Result, Waiting
  <2> QED BY <1>1, <1>2, <1>5, <2>1, <2>2, GoOnStep
<1>6. CASE Exit(h) /\ UNCHANGED question
  BY <1>1, <1>2, <1>6, ExitStep, QuestionsStay
<1> QED BY <1>4, <1>5, <1>6 DEF Gate

(* A result goes on record only at the revision it was prepared for, when no  *)
(* receipt has been handed over since.                                        *)
LEMMA MarkGoesOn ==
  ASSUME IInv, NEW h \in Hook, hook[h].pc \notin {"idle", "look", "process"},
         NEW turn \in Turn \cup {None}, turn = current \/ hook[h].result \in Waiting,
         Recorded(h, turn) \/ FirstOf(h, turn) \/ Refused(h, turn), UNCHANGED texts
  PROVE  RowsGoOn
<1> DEFINE s == hook[h].session
           row == [Advanced(s) EXCEPT !.handoff = turn, !.result = hook[h].result]
<1>1. CASE UNCHANGED store
  BY <1>1, RowsStay DEF store
<1>2. CASE FirstOf(h, turn)
  <2>1. /\ s \in Session /\ session[s] # None /\ session[s] \in Row /\ hook[h].result \in Result
        /\ Holds(s, hook[h].revision, current, session)
    BY BusyHook, LocalTypes DEF IInv
  <2>2. /\ session[s].status = "EXECUTING" /\ session[s].revision = hook[h].revision
        /\ Save(s, row)
    BY <1>2 DEF FirstOf
  <2>3. session[s].revision \in Nat
    BY <2>1 DEF Row
  <2> HIDE DEF s
  <2>4. session[s].result # "receipt"
    BY <2>1, <2>2, <2>3 DEF Holds
  <2>5. /\ row \in Row /\ row.status = "EXECUTING" /\ row.revision = session[s].revision + 1
        /\ row.parent = session[s].parent /\ row.handoff = turn /\ row.result = hook[h].result
    BY <2>1, <2>2, AdvancedRow DEF Row
  <2> HIDE DEF row
  <2>6. Follows(session[s], row, current, texts)
    BY <2>2, <2>4, <2>5 DEF Follows, Unasked, Waiting
  <2> QED BY <2>1, <2>2, <2>5, <2>6, SaveGoesOn
<1> QED BY <1>1, <1>2 DEF Recorded, Refused

LEMMA AwaitStep ==
  ASSUME IInv, NEW h \in Hook, Await(h)
  PROVE  IInv' /\ RowsGoOn
<1>1. /\ hook[h].pc = "await" /\ MarkPrepared(h, hook[h].turn) /\ Exit(h)
      /\ UNCHANGED <<turns, response, question, receipts, texts>>
  BY DEF Await, At
<1>2. hook[h].turn = current /\ current \in Turn
  BY <1>1, BusyHook
<1>3. RowsGoOn
  BY <1>1, <1>2, MarkGoesOn DEF MarkPrepared
<1> QED BY <1>1, <1>3, ExitStep, QuestionsStay DEF Rest

LEMMA KeepStep ==
  ASSUME IInv, NEW h \in Hook, Keep(h)
  PROVE  IInv' /\ RowsGoOn
<1>1. /\ hook[h].pc = "keep" /\ MarkPrepared(h, hook[h].handoff) /\ Exit(h)
      /\ UNCHANGED <<turns, response, question, receipts, texts>>
  BY DEF Keep, At
<1>2. hook[h].result \in Waiting /\ hook[h].handoff \in Turn \cup {None}
  BY <1>1, LocalTypes DEF IInv, AllFit, Fit
<1>3. RowsGoOn
  BY <1>1, <1>2, MarkGoesOn DEF MarkPrepared
<1> QED BY <1>1, <1>3, ExitStep, QuestionsStay DEF Rest

LEMMA MarkStep ==
  ASSUME IInv, NEW h \in Hook, Mark(h)
  PROVE  IInv' /\ RowsGoOn
<1>1. /\ hook[h].pc = "mark" /\ Rest /\ question' = question
      /\ Recorded(h, hook[h].turn) \/ FirstOf(h, hook[h].turn) \/ Refused(h, hook[h].turn)
      /\ Exit(h) \/ Goto(h, "fail")
  BY DEF Mark, At, Rest
<1>2. hook[h].turn = current /\ current \in Turn
  BY <1>1, BusyHook
<1>3. RowsGoOn
  BY <1>1, <1>2, MarkGoesOn DEF Rest
<1>4. CASE Exit(h)
  BY <1>1, <1>3, <1>4, ExitStep, QuestionsStay
<1>5. CASE Goto(h, "fail")
  BY <1>1, <1>3, <1>5, GotoStep, QuestionsStay
<1> QED BY <1>1, <1>3, <1>4, <1>5

LEMMA ReadStep ==
  ASSUME IInv, NEW h \in Hook, Read(h)
  PROVE  IInv' /\ RowsGoOn
<1> DEFINE row == session[hook[h].session]
           found == IF row.result \in Waiting THEN "failed" ELSE row.result
<1>1. Rest /\ UNCHANGED <<store, question>> /\ hook[h].pc = "read"
  BY DEF Read, Rest, At
<1>2. RowsGoOn
  BY <1>1, Stays DEF store
<1>3. Settled(question[hook[h].session]) /\ row.result \in Result
  BY <1>1, BusyHook DEF IInv, AllFit, Fit, Row
<1>4. CASE Goto(h, "prepare")
  BY <1>1, <1>2, <1>3, <1>4, GotoStep, QuestionsStay
<1>5. CASE hook' = [hook EXCEPT ![h].pc = "mark", ![h].result = found]
  <2>1. found \in Result
    BY <1>3 DEF Result
  <2> HIDE DEF found
  <2> QED BY <1>1, <1>2, <1>5, <2>1, GoOnStep, QuestionsStay
<1> QED BY <1>2, <1>4, <1>5 DEF Read

(* Nothing but this step writes a receipt, and its question is settled.       *)
LEMMA PrepareStep ==
  ASSUME IInv, NEW h \in Hook, Prepare(h)
  PROVE  IInv' /\ RowsGoOn
<1> DEFINE s == hook[h].session
<1>1. /\ hook[h].pc = "prepare" /\ receipts' \subseteq receipts \cup {<<hook[h].turn, s>>}
      /\ UNCHANGED <<turns, store, response, question, texts>>
  BY DEF Prepare, At
<1>2. PICK kind \in {"receipt", "failed"} :
        hook' = [hook EXCEPT ![h].pc = "mark", ![h].result = kind]
  BY DEF Prepare
<1>3. RowsGoOn
  BY <1>1, RowsStay DEF store
<1>4. /\ hook[h] \in Local /\ hook[h].turn = current /\ current \in Turn
      /\ s \in Session /\ hook[h].revision \in Nat
      /\ Holds(s, hook[h].revision, current, session) /\ Settled(question[s])
  BY <1>1, BusyHook DEF IInv, AllFit, Fit
<1> DEFINE l == [hook[h] EXCEPT !.pc = "mark", !.result = kind]
<1>5. /\ l \in Local /\ l.pc = "mark" /\ l.turn = current /\ l.session = s
      /\ l.revision = hook[h].revision
  BY <1>4 DEF Local, Result
<1>6. hook' = [hook EXCEPT ![h] = l]
  BY <1>2 DEF IInv, TypeOK, Local
<1> HIDE DEF l
<1>7. Fit(l, current, session', question')
  BY <1>1, <1>4, <1>5 DEF Fit, store
<1>8. UNCHANGED <<begun, current, prompt, response, question, texts>>
  BY <1>1 DEF turns
<1>9. hook' \in [Hook -> Local] /\ AllFit'
  BY <1>3, <1>5, <1>6, <1>7, <1>8, HookGoesOn, QuestionsStay
<1>10. AllBinding'
  BY <1>3, <1>8, BindingGoesOn
<1>11. TypeOK'
  BY <1>1, <1>3, <1>4, <1>8, <1>9 DEF IInv, TypeOK, RowsGoOn
<1>12. NoReceiptBeforeAnswer'
  BY <1>1, <1>4, <1>8 DEF IInv, NoReceiptBeforeAnswer, Settled
<1> QED BY <1>3, <1>9, <1>10, <1>11, <1>12 DEF IInv, RowsGoOn

LEMMA FailStep ==
  ASSUME IInv, NEW h \in Hook, Fail(h)
  PROVE  IInv' /\ RowsGoOn
<1> DEFINE s == hook[h].session
           row == [Advanced(s) EXCEPT !.status = "HANDOFF_FAILED", !.handoff = current]
           answer == [action |-> "conflict", session |-> s, revision |-> row.revision]
<1>1. /\ hook[h].pc = "fail" /\ Exit(h) /\ UNCHANGED <<turns, question, receipts, texts>>
  BY DEF Fail, At
<1>2. /\ hook[h].turn = current /\ current \in Turn
      /\ s \in Session /\ session[s] # None /\ session[s] \in Row /\ hook[h].revision \in Nat
      /\ Holds(s, hook[h].revision, current, session)
  BY <1>1, BusyHook
<1>3. CASE UNCHANGED <<store, response>>
  <2>1. Rest
    BY <1>1, <1>3 DEF Rest
  <2> QED BY <1>1, <1>3, <2>1, Stays, ExitStep, QuestionsStay
<1>4. CASE /\ session[s].status = "EXECUTING" /\ Save(s, row)
           /\ response' = IF response[current] = None THEN response
                          ELSE [response EXCEPT ![current] = answer]
  <2> HIDE DEF s
  <2>1. /\ row \in Row /\ row.status = "HANDOFF_FAILED" /\ row.handoff = current
        /\ row.revision = session[s].revision + 1 /\ row.revision \in Nat
        /\ row.parent = session[s].parent /\ row.result = session[s].result
    BY <1>2, AdvancedRow DEF Row
  <2>2. answer \in Response /\ answer.action = "conflict"
    BY <1>2, <2>1 DEF Response
  <2> HIDE DEF row, answer
  <2>3. Follows(session[s], row, current, texts)
    BY <1>2, <1>4, <2>1 DEF Follows, Unasked, Holds
  <2>4. RowsGoOn
    BY <1>1, <1>2, <1>4, <2>1, <2>3, SaveGoesOn
  <2>5. UNCHANGED <<begun, current, prompt, question, receipts, texts>>
    BY <1>1 DEF turns
  <2>6. Idle \in Local /\ Fit(Idle, current', session', question')
    BY DEF Idle, Local, Result, Fit
  <2>7. hook' \in [Hook -> Local] /\ AllFit'
    BY <1>1, <2>4, <2>5, <2>6, HookGoesOn, QuestionsStay DEF Exit
  <2>8. response' \in [Turn -> Response \cup {None}]
    BY <1>4, <2>2 DEF IInv, TypeOK
  <2>9. ASSUME NEW t \in Turn, response'[t] # None
        PROVE  t \in begun' /\ (t = current' => Binding(response'[t], current', session'))
    <3>1. response[t] # None
      BY <1>4, <2>9 DEF IInv, TypeOK
    <3>2. t \in begun /\ (t = current => Binding(response[t], current, session))
      BY <3>1 DEF IInv, AllBinding
    <3>3. CASE t = current
      <4>1. response'[t] = answer
        BY <1>2, <1>4, <3>1, <3>3 DEF IInv, TypeOK
      <4> QED BY <2>2, <2>5, <3>2, <4>1 DEF Binding
    <3>4. CASE t # current
      BY <2>5, <3>2, <3>4
    <3> QED BY <3>3, <3>4
  <2>10. TypeOK'
    BY <2>4, <2>5, <2>7, <2>8 DEF IInv, TypeOK, RowsGoOn
  <2>11. NoReceiptBeforeAnswer'
    BY <2>5 DEF IInv, NoReceiptBeforeAnswer
  <2> QED BY <2>4, <2>7, <2>9, <2>10, <2>11 DEF IInv, RowsGoOn, AllBinding
<1> QED BY <1>2, <1>3, <1>4 DEF Fail

(* The question of the session is answered, ends without an answer, or stays. *)
LEMMA AnswerQuestionStep ==
  ASSUME IInv, NEW h \in Hook, AnswerQuestion(h)
  PROVE  IInv' /\ RowsGoOn
<1> DEFINE s == hook[h].session
<1>1. Rest /\ UNCHANGED store /\ hook[h].pc = "answer"
  BY DEF AnswerQuestion, Rest, At
<1>2. RowsGoOn
  BY <1>1, Stays
<1>3. /\ s \in Session /\ question \in [Session -> {"none", "due", "open", "answered", "retired"}]
      /\ {"lost", "again"} \subseteq Result \cap Waiting
  BY <1>1, BusyHook DEF IInv, TypeOK, Result, Waiting
<1>4. ASSUME NEW kind \in {"lost", "again"},
             hook' = [hook EXCEPT ![h].pc = "keep", ![h].result = kind],
             \/ question' = question
             \/ question[s] = "open" /\ question' = [question EXCEPT ![s] = "retired"]
      PROVE  IInv'
  <2>1. /\ question' \in [Session -> {"none", "due", "open", "answered", "retired"}]
        /\ Settles(question, question')
    BY <1>3, <1>4 DEF Settles, Settled
  <2> QED BY <1>1, <1>2, <1>3, <1>4, <2>1, GoOnStep
<1>5. ASSUME question' = [question EXCEPT ![s] = "answered"], Goto(h, "regate")
      PROVE  IInv'
  <2>1. /\ question' \in [Session -> {"none", "due", "open", "answered", "retired"}]
        /\ Settles(question, question') /\ Settled(question'[s])
    BY <1>3, <1>5 DEF Settles, Settled
  <2> QED BY <1>1, <1>2, <1>5, <2>1, GotoStep
<1> QED BY <1>2, <1>4, <1>5 DEF AnswerQuestion

LEMMA RegateStep ==
  ASSUME IInv, NEW h \in Hook, Regate(h)
  PROVE  IInv' /\ RowsGoOn
<1>1. Rest /\ UNCHANGED <<store, question>> /\ hook[h].pc = "regate"
  BY DEF Regate, Rest, At
<1>2. RowsGoOn
  BY <1>1, Stays DEF store
<1>3. Settled(question[hook[h].session])
  BY <1>1 DEF IInv, AllFit, Fit
<1>4. CASE Goto(h, "read")
  BY <1>1, <1>2, <1>3, <1>4, GotoStep, QuestionsStay
<1>5. CASE Exit(h)
  BY <1>1, <1>2, <1>5, ExitStep, QuestionsStay
<1>6. ASSUME NEW kind \in {"again", "lost"},
             hook' = [hook EXCEPT ![h].pc = "keep", ![h].result = kind]
      PROVE  IInv'
  <2>1. kind \in Result /\ kind \in Waiting
    BY DEF Result, Waiting
  <2> QED BY <1>1, <1>2, <1>6, <2>1, GoOnStep, QuestionsStay
<1> QED BY <1>2, <1>4, <1>5, <1>6 DEF Regate

-----------------------------------------------------------------------------
(* Steps of no hook of a prompt.                                              *)

LEMMA HooksWait ==
  ASSUME IInv, RowsGoOn, UNCHANGED <<turns, response, question, receipts, hook>>,
         texts' \subseteq Turn
  PROVE  IInv'
<1>1. UNCHANGED <<begun, current, prompt>>
  BY DEF turns
<1>2. AllFit'
  <2>1. ASSUME NEW g \in Hook PROVE Fit(hook[g], current, session', question)
    <3>1. Fit(hook[g], current, session, question) /\ hook[g].revision \in Nat
      BY LocalTypes DEF IInv, AllFit
    <3> QED BY <3>1 DEF Fit, RowsGoOn, Ages
  <2> QED BY <1>1, <2>1 DEF AllFit
<1>3. AllBinding'
  BY <1>1, BindingGoesOn
<1>4. TypeOK'
  BY <1>1 DEF IInv, TypeOK, RowsGoOn
<1>5. NoReceiptBeforeAnswer'
  BY DEF IInv, NoReceiptBeforeAnswer
<1> QED BY <1>2, <1>3, <1>4, <1>5 DEF IInv, RowsGoOn

LEMMA StopStep ==
  ASSUME IInv, NEW t \in Turn, Stop(t)
  PROVE  IInv' /\ RowsGoOn
<1>1. /\ UNCHANGED <<turns, store, response, question, receipts, hook>>
      /\ texts \subseteq texts' /\ texts' \subseteq Turn
  BY DEF Stop, IInv, TypeOK
<1> QED BY <1>1, RowsStay, HooksWait DEF store

LEMMA CompleteExecutionStep ==
  ASSUME IInv, NEW t \in Turn, CompleteExecution(t)
  PROVE  IInv' /\ RowsGoOn
<1> DEFINE S == {s \in In("EXECUTING") : session[s].handoff = t}
           s == Latest(S)
           row == [Advanced(s) EXCEPT !.status = "COMPLETED"]
<1>1. /\ t \in texts /\ S # {} /\ Save(s, row)
      /\ UNCHANGED <<turns, response, question, receipts, texts, hook>>
  BY DEF CompleteExecution
<1>2. s \in S /\ s \in Session /\ session[s] # None /\ session[s] \in Row
  BY <1>1, LatestRow DEF In
<1>3. session[s].status = "EXECUTING" /\ session[s].handoff = t
  BY <1>2 DEF In
<1> HIDE DEF s, S
<1>4. /\ row \in Row /\ row.status = "COMPLETED" /\ row.handoff = t
      /\ row.revision = session[s].revision + 1
      /\ row.parent = session[s].parent /\ row.result = session[s].result
  BY <1>2, <1>3, AdvancedRow DEF Row
<1> HIDE DEF row
<1>5. Follows(session[s], row, current, texts)
  BY <1>1, <1>3, <1>4 DEF Follows, Unasked
<1>6. RowsGoOn
  BY <1>1, <1>2, <1>4, <1>5, SaveGoesOn
<1> QED BY <1>1, <1>6, HooksWait DEF IInv, TypeOK

LEMMA ExpireStep ==
  ASSUME IInv, NEW s \in Session, Expire(s)
  PROVE  IInv' /\ RowsGoOn
<1> DEFINE row == [session[s] EXCEPT !.fresh = FALSE]
<1>1. /\ UNCHANGED <<turns, order, response, question, receipts, texts, hook>>
      /\ s \in Sessions /\ session' = [session EXCEPT ![s].fresh = FALSE]
  BY DEF Expire, In
<1>2. /\ session \in [Session -> Row \cup {None}] /\ InOrder /\ AllLawful
      /\ session[s] # None /\ session[s] \in Row
  BY <1>1, RowTypes DEF IInv, TypeOK, InOrder
<1>3. /\ row \in Row /\ row.revision = session[s].revision /\ row.status = session[s].status
      /\ row.parent = session[s].parent
      /\ row.handoff = session[s].handoff /\ row.result = session[s].result
  BY <1>2 DEF Row
<1>4. session' = [session EXCEPT ![s] = row]
  BY <1>1
<1> HIDE DEF row
<1>5. /\ session' \in [Session -> Row \cup {None}] /\ session'[s] = row /\ row # None
      /\ \A r \in Session \ {s} : session'[r] = session[r]
  BY <1>2, <1>3, <1>4, NoneAssumption
<1>6. InOrder'
  BY <1>1, <1>2, <1>5 DEF InOrder, Sessions
<1>7. ASSUME NEW r, Done(r, session) PROVE Done(r, session')
  BY <1>3, <1>5, <1>7 DEF Done
<1>8. AllLawful'
  <2>1. ASSUME NEW r \in Session, session'[r] # None
        PROVE  Lawful(session'[r], session', texts')
    <3>1. session[r] # None /\ Lawful(session[r], session, texts)
      BY <1>2, <1>5, <2>1 DEF AllLawful
    <3>2. /\ session'[r].status = session[r].status /\ session'[r].parent = session[r].parent
          /\ session'[r].handoff = session[r].handoff /\ session'[r].result = session[r].result
      BY <1>3, <1>5
    <3>3. session'[r].parent # None => Done(session'[r].parent, session')
      BY <1>7, <3>1, <3>2 DEF Lawful
    <3> QED BY <1>1, <3>1, <3>2, <3>3 DEF Lawful, Unasked
  <2> QED BY <2>1 DEF AllLawful
<1>9. Ages(session, session', current)
  BY <1>3, <1>5 DEF Ages, Holds
<1>10. Final(session, session')
  BY <1>3, <1>5 DEF Final
<1>11. RowsGoOn
  BY <1>1, <1>5, <1>6, <1>8, <1>9, <1>10 DEF RowsGoOn, IInv, TypeOK
<1> QED BY <1>1, <1>11, HooksWait DEF IInv, TypeOK

LEMMA CrashStep ==
  ASSUME IInv, NEW h \in Hook, Crash(h)
  PROVE  IInv' /\ RowsGoOn
<1>1. Rest /\ UNCHANGED <<store, question>> /\ Exit(h)
  BY DEF Crash, Rest
<1> QED BY <1>1, Stays, ExitStep, QuestionsStay

LEMMA NextIInv ==
  IInv /\ [Next]_vars => IInv' /\ RowsGoOn
<1> SUFFICES ASSUME IInv, [Next]_vars PROVE IInv' /\ RowsGoOn
  OBVIOUS
<1>1. CASE UNCHANGED vars
  <2>1. UNCHANGED <<turns, session, order, response, question, receipts, texts, hook>>
    BY <1>1 DEF vars, store
  <2>2. texts' \subseteq Turn
    BY <2>1 DEF IInv, TypeOK
  <2> QED BY <2>1, <2>2, RowsStay, HooksWait
<1>2. ASSUME NEW h \in Hook, Step(h) PROVE IInv' /\ RowsGoOn
  BY <1>2, LookStep, CachedStep, RepeatStep, CancelStep, AnswerFieldStep, InheritStep,
     BeginStep, GateStep, AwaitStep, ReadStep, PrepareStep, MarkStep, FailStep,
     AnswerQuestionStep, RegateStep, KeepStep DEF Step
<1> QED BY <1>1, <1>2, CrashStep, SubmitStep, StopStep, CompleteExecutionStep, ExpireStep
        DEF Next

LEMMA SpecIInv ==
  Spec => []IInv
<1>1. Init => IInv
  BY InitIInv
<1>2. IInv /\ [Next]_vars => IInv'
  BY NextIInv
<1> QED BY <1>1, <1>2, PTL DEF Spec

-----------------------------------------------------------------------------
(* The theorems.                                                              *)

(* Interviews, answers, receipts and the local variables of every hook keep   *)
(* their types, and no session is twice in the order of their rows.           *)
THEOREM GrillTypeCorrect ==
  Spec => []TypeOK
<1>1. IInv => TypeOK
  BY DEF IInv
<1> QED BY <1>1, SpecIInv, PTL

(* However many runs of the hook a turn has, and whichever of them dies, no   *)
(* turn is prepared for a session whose question has no answer.               *)
THEOREM GrillNoReceiptBeforeAnswer ==
  Spec => []NoReceiptBeforeAnswer
<1>1. IInv => NoReceiptBeforeAnswer
  BY DEF IInv
<1> QED BY <1>1, SpecIInv, PTL

(* A contract that was completed, or that another inherits, is one whose turn *)
(* handed its text over.                                                      *)
THEOREM GrillCarriedOutWasWritten ==
  Spec => []CarriedOutWasWritten
<1>1. IInv => CarriedOutWasWritten
  <2> SUFFICES ASSUME IInv PROVE CarriedOutWasWritten
    OBVIOUS
  <2>1. InOrder /\ AllLawful
    BY DEF IInv
  <2>2. ASSUME NEW s, Done(s, session)
        PROVE  session[s].status = "COMPLETED" /\ session[s].handoff \in texts
    BY <2>1, <2>2 DEF Done, AllLawful, Lawful
  <2>3. \A s \in In("COMPLETED") : Done(s, session)
    BY <2>1 DEF In, InOrder, Done
  <2>4. \A r \in Sessions : session[r].parent # None => Done(session[r].parent, session)
    BY <2>1 DEF InOrder, AllLawful, Lawful
  <2> QED BY <2>2, <2>3, <2>4 DEF CarriedOutWasWritten
<1> QED BY <1>1, SpecIInv, PTL

(* A receipt that a session was handed is not replaced, by a run of the hook  *)
(* that prepared the session too, failed or was late, or in a later turn.     *)
THEOREM GrillHandoffIsFinal ==
  Spec => HandoffIsFinal
<1>1. ASSUME IInv, [Next]_vars
      PROVE  [\A s \in Session : session[s] # None /\ session[s].result = "receipt" =>
                /\ session'[s].result = session[s].result
                /\ session'[s].handoff = session[s].handoff]_session
  BY <1>1, NextIInv DEF RowsGoOn, Final
<1> QED BY <1>1, SpecIInv, PTL DEF Spec, HandoffIsFinal
=============================================================================
