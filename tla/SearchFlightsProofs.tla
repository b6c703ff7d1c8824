------------------------- MODULE SearchFlightsProofs -------------------------
(* Theorems about the shared searches, for any number of threads, requests    *)
(* and contents of the index. The argument: a thread holds what its place in  *)
(* search_many says (Tidy), so a key of a table has exactly one thread that   *)
(* completes it (OneLeader) and that is all a table holds (Tables).           *)
EXTENDS SearchFlights, TLAPS

(* What a thread holds.                                                       *)
Tidy(t) ==
  /\ t.asked \cap (t.missed \cup t.leads \cup t.follows) = {}
  /\ t.missed \cap (t.leads \cup t.follows) = {}
  /\ t.leads \cap t.follows = {}
  /\ t.look \cap (t.embeds \cup t.awaits) = {}
  /\ t.embeds \cap t.awaits = {}
  /\ t.embeds \cup t.awaits # {} => t.asked = {} /\ t.missed = {}
  /\ t.look \cup t.embeds \cup t.awaits # {} => t.leads # {}
  /\ t.pc # "search" =>
       t.asked = {} /\ t.missed = {} /\ t.follows = {} /\ t.look = {} /\ t.awaits = {}
  /\ t.pc = "idle" => t.leads = {} /\ t.embeds = {}

(* What it read and found is no newer than the index; a result, which only a  *)
(* search it completes can have, is no older than what was read before it;    *)
(* and one that was found fit for the cache is of the content it is asked of. *)
Timely(t, now) ==
  \A r \in Request :
    /\ t.digest[r] <= now
    /\ t.result[r] # None =>
         r \in t.leads /\ t.digest[r] <= t.result[r].digest /\ t.result[r].digest <= now
    /\ r \in t.checked => t.result[r] # None /\ t.result[r].digest = t.digest[r]

AllTidy == \A c \in Caller : Tidy(call[c])
AllTimely == \A c \in Caller : Timely(call[c], index.digest)

OneLeader ==
  \A c, d \in Caller, r \in Request :
    r \in call[c].leads /\ r \in call[d].leads /\ call[c].digest[r] = call[d].digest[r] => c = d

(* A table holds the keys somebody completes, and whatever is waited for.     *)
SearchTable ==
  /\ \A r \in Request, n \in 0..MaxVersion :
       <<r, n>> \in searchFlights <=>
         \E c \in Caller : r \in call[c].leads /\ call[c].digest[r] = n
  /\ \A c \in Caller, r \in Request :
       r \in call[c].follows => <<r, call[c].digest[r]>> \in searchFlights

EmbedTable ==
  /\ \A q \in Query : q \in embedFlights <=> \E c \in Caller : q \in call[c].embeds
  /\ \A c \in Caller, q \in Query : q \in call[c].awaits => q \in embedFlights
  /\ EmbeddedOnce

IInv ==
  /\ TypeOK /\ AllTidy /\ AllTimely
  /\ OneLeader /\ SearchTable /\ EmbedTable
  /\ CandidatesMatchTheirKey

-----------------------------------------------------------------------------
(* Threads.                                                                   *)

LEMMA ThreadTypes ==
  ASSUME TypeOK, NEW c \in Caller
  PROVE  /\ call[c] \in Thread
         /\ call[c].asked \subseteq Request /\ call[c].missed \subseteq Request
         /\ call[c].leads \subseteq Request /\ call[c].follows \subseteq Request
         /\ call[c].look \subseteq Query /\ call[c].embeds \subseteq Query
         /\ call[c].awaits \subseteq Query /\ call[c].lost \subseteq Query
         /\ call[c].checked \subseteq Request /\ call[c].written \subseteq Request
         /\ call[c].digest \in [Request -> 0..MaxVersion]
         /\ call[c].result \in [Request -> Index \cup {None}]
  BY DEF TypeOK, Thread

LEMMA IdleThread ==
  Idle \in Thread /\ \A n \in Nat : Tidy(Idle) /\ Timely(Idle, n)
  BY SearchAssumption DEF Idle, Thread, Tidy, Timely

(* A thread that is told of the end of a search.                              *)
Told(t, leads, follows, checked, written, digest, result) ==
  [t EXCEPT !.leads = leads, !.follows = follows, !.checked = checked, !.written = written,
            !.digest = digest, !.result = result]

LEMMA ToldThread ==
  ASSUME NEW t \in Thread, NEW L \in SUBSET Request, NEW F \in SUBSET Request,
         NEW K \in SUBSET Request, NEW W \in SUBSET Request,
         NEW g \in [Request -> 0..MaxVersion], NEW h \in [Request -> Index \cup {None}]
  PROVE  /\ Told(t, L, F, K, W, g, h) \in Thread
         /\ Told(t, L, F, K, W, g, h).leads = L /\ Told(t, L, F, K, W, g, h).follows = F
         /\ Told(t, L, F, K, W, g, h).digest = g /\ Told(t, L, F, K, W, g, h).result = h
         /\ Told(t, L, F, K, W, g, h).pc = t.pc
         /\ Told(t, L, F, K, W, g, h).asked = t.asked /\ Told(t, L, F, K, W, g, h).missed = t.missed
         /\ Told(t, L, F, K, W, g, h).look = t.look /\ Told(t, L, F, K, W, g, h).embeds = t.embeds
         /\ Told(t, L, F, K, W, g, h).awaits = t.awaits
         /\ Told(t, L, F, K, W, g, h).checked = K
<1> DEFINE IndexOrNone == Index \cup {None}
<1> HIDE DEF IndexOrNone
<1>1. Thread = [pc : {"idle", "search", "fail"}, asked : SUBSET Request,
                missed : SUBSET Request, digest : [Request -> 0..MaxVersion],
                leads : SUBSET Request, follows : SUBSET Request, look : SUBSET Query,
                embeds : SUBSET Query, awaits : SUBSET Query, lost : SUBSET Query,
                checked : SUBSET Request, written : SUBSET Request,
                result : [Request -> IndexOrNone]]
  BY DEF Thread, IndexOrNone
<1>2. h \in [Request -> IndexOrNone]
  BY DEF IndexOrNone
<1> QED BY <1>1, <1>2 DEF Told

(* A step of one thread.                                                      *)
LEMMA BecomesThread ==
  ASSUME TypeOK, NEW c \in Caller, NEW t \in Thread, Becomes(c, t)
  PROVE  /\ call' \in [Caller -> Thread] /\ call'[c] = t
         /\ \A d \in Caller \ {c} : call'[d] = call[d]
  BY DEF TypeOK, Becomes

LEMMA OneThreadTidy ==
  ASSUME IInv, NEW c \in Caller, NEW t \in Thread, Becomes(c, t), UNCHANGED index,
         Tidy(t), Timely(t, index.digest)
  PROVE  call' \in [Caller -> Thread] /\ AllTidy' /\ AllTimely'
<1>1. TypeOK /\ AllTidy /\ AllTimely
  BY DEF IInv
<1> QED BY <1>1, BecomesThread DEF AllTidy, AllTimely

(* It leads what it led before and follows nothing new.                       *)
LEMMA SearchesKept ==
  ASSUME IInv, NEW c \in Caller, NEW t \in Thread, Becomes(c, t), UNCHANGED searchFlights,
         t.leads = call[c].leads, t.follows \subseteq call[c].follows,
         \A r \in call[c].leads \cup call[c].follows : t.digest[r] = call[c].digest[r]
  PROVE  OneLeader' /\ SearchTable'
<1>1. TypeOK /\ OneLeader /\ SearchTable
  BY DEF IInv
<1>2. call'[c] = t /\ \A d \in Caller \ {c} : call'[d] = call[d]
  BY <1>1, BecomesThread
<1>3. \A d \in Caller : /\ call'[d].leads = call[d].leads
                        /\ call'[d].follows \subseteq call[d].follows
                        /\ \A r \in call[d].leads \cup call[d].follows :
                             call'[d].digest[r] = call[d].digest[r]
  BY <1>2
<1>4. OneLeader'
  BY <1>1, <1>3 DEF OneLeader
<1>5. SearchTable'
  BY <1>1, <1>3 DEF SearchTable
<1> QED BY <1>4, <1>5

(* It embeds what it embedded before and awaits nothing new.                  *)
LEMMA EmbedsKept ==
  ASSUME IInv, NEW c \in Caller, NEW t \in Thread, Becomes(c, t),
         UNCHANGED <<vectors, embedFlights>>,
         t.embeds = call[c].embeds, t.awaits \subseteq call[c].awaits
  PROVE  EmbedTable'
<1>1. TypeOK /\ EmbedTable
  BY DEF IInv
<1>2. call'[c] = t /\ \A d \in Caller \ {c} : call'[d] = call[d]
  BY <1>1, BecomesThread
<1>3. \A d \in Caller : /\ call'[d].embeds = call[d].embeds
                        /\ call'[d].awaits \subseteq call[d].awaits
  BY <1>2
<1> QED BY <1>1, <1>3 DEF EmbedTable, EmbeddedOnce

-----------------------------------------------------------------------------
(* Completing what others may wait for.                                       *)

(* What CompleteSearch leaves as it is in thread d, and what it forgets.      *)
Same(d) ==
  /\ call'[d].pc = call[d].pc
  /\ call'[d].asked = call[d].asked /\ call'[d].missed = call[d].missed
  /\ call'[d].look = call[d].look /\ call'[d].embeds = call[d].embeds
  /\ call'[d].awaits = call[d].awaits

Forgets(c, r, d) ==
  /\ call'[d].leads = IF d = c THEN call[d].leads \ {r} ELSE call[d].leads
  /\ call'[d].follows = IF call[d].digest[r] = call[c].digest[r] THEN call[d].follows \ {r}
                        ELSE call[d].follows
  /\ \A x \in Request :
       \/ /\ d = c => x # r
          /\ call'[d].digest[x] = call[d].digest[x]
          /\ call'[d].result[x] = call[d].result[x]
       \/ /\ x = r /\ call'[d].digest[x] = 0 /\ call'[d].result[x] = None
          /\ r \notin call'[d].leads \cup call'[d].follows \cup call'[d].checked
  /\ call'[d].checked \subseteq call[d].checked

LEMMA CompleteSearchThreads ==
  ASSUME IInv, NEW c \in Caller, NEW r \in Request, r \in call[c].leads, CompleteSearch(c, r)
  PROVE  /\ call' \in [Caller -> Thread]
         /\ \A d \in Caller : Same(d) /\ Forgets(c, r, d)
<1>1. TypeOK /\ AllTidy
  BY DEF IInv
<1>2. ASSUME NEW d \in Caller
      PROVE  /\ call[d] \in Thread /\ Tidy(call[d])
             /\ call[d].digest \in [Request -> 0..MaxVersion]
             /\ call[d].result \in [Request -> Index \cup {None}]
  BY <1>1, ThreadTypes DEF AllTidy
<1> DEFINE told(d) == [call[d] EXCEPT !.leads = @ \ {r}, !.follows = @ \ {r},
                                      !.checked = @ \ {r}, !.written = @ \ {r},
                                      !.digest[r] = 0, !.result[r] = None]
<1>3. ASSUME NEW d \in Caller
      PROVE  /\ told(d) \in Thread
             /\ told(d).leads = call[d].leads \ {r} /\ told(d).follows = call[d].follows \ {r}
             /\ told(d).checked = call[d].checked \ {r}
             /\ told(d).pc = call[d].pc
             /\ told(d).asked = call[d].asked /\ told(d).missed = call[d].missed
             /\ told(d).look = call[d].look /\ told(d).embeds = call[d].embeds
             /\ told(d).awaits = call[d].awaits
             /\ told(d).digest[r] = 0 /\ told(d).result[r] = None
             /\ \A x \in Request \ {r} : /\ told(d).digest[x] = call[d].digest[x]
                                         /\ told(d).result[x] = call[d].result[x]
  <2> DEFINE digest == [call[d].digest EXCEPT ![r] = 0]
             result == [call[d].result EXCEPT ![r] = None]
  <2>1. 0 \in 0..MaxVersion /\ None \in Index \cup {None}
    BY SearchAssumption
  <2>2. digest \in [Request -> 0..MaxVersion] /\ result \in [Request -> Index \cup {None}]
    BY <1>2, <2>1
  <2>3. /\ digest[r] = 0 /\ result[r] = None
        /\ \A x \in Request \ {r} : digest[x] = call[d].digest[x] /\ result[x] = call[d].result[x]
    BY <1>2
  <2>4. told(d) = [call[d] EXCEPT !.leads = @ \ {r}, !.follows = @ \ {r},
                                  !.checked = @ \ {r}, !.written = @ \ {r},
                                  !.digest = digest, !.result = result]
    BY <1>2 DEF Thread
  <2> HIDE DEF told, digest, result
  <2>5. /\ told(d) \in Thread
        /\ told(d).leads = call[d].leads \ {r} /\ told(d).follows = call[d].follows \ {r}
        /\ told(d).checked = call[d].checked \ {r}
        /\ told(d).pc = call[d].pc
        /\ told(d).asked = call[d].asked /\ told(d).missed = call[d].missed
        /\ told(d).look = call[d].look /\ told(d).embeds = call[d].embeds
        /\ told(d).awaits = call[d].awaits
        /\ told(d).digest = digest /\ told(d).result = result
    <3> DEFINE L == call[d].leads \ {r}
               F == call[d].follows \ {r}
               K == call[d].checked \ {r}
               W == call[d].written \ {r}
    <3>1. /\ L \in SUBSET Request /\ F \in SUBSET Request
          /\ K \in SUBSET Request /\ W \in SUBSET Request
      BY <1>1, ThreadTypes
    <3>2. told(d) = Told(call[d], L, F, K, W, digest, result)
      BY <2>4 DEF Told
    <3> HIDE DEF L, F, K, W
    <3>3. /\ told(d) \in Thread
          /\ told(d).leads = L /\ told(d).follows = F /\ told(d).checked = K
          /\ told(d).digest = digest /\ told(d).result = result
          /\ told(d).pc = call[d].pc
          /\ told(d).asked = call[d].asked /\ told(d).missed = call[d].missed
          /\ told(d).look = call[d].look /\ told(d).embeds = call[d].embeds
          /\ told(d).awaits = call[d].awaits
      BY <1>2, <2>2, <3>1, <3>2, ToldThread
    <3> QED BY <3>3 DEF L, F, K
  <2> QED BY <2>3, <2>5
<1> DEFINE hit(d) == d = c \/ (r \in call[d].follows /\ call[d].digest[r] = call[c].digest[r])
<1>4. call' = [d \in Caller |->
                IF d = c \/ (r \in call[d].follows /\ KeyOf(d, r) = KeyOf(c, r))
                THEN told(d) ELSE call[d]]
  BY DEF CompleteSearch
<1> HIDE DEF told
<1>5. \A d \in Caller : call'[d] = IF hit(d) THEN told(d) ELSE call[d]
  BY <1>4 DEF KeyOf, SearchKey
<1>6. call' \in [Caller -> Thread]
  <2>1. call' = [d \in Caller |-> call'[d]]
    BY DEF CompleteSearch
  <2> HIDE DEF hit
  <2> QED BY <1>2, <1>3, <1>5, <2>1
<1>7. ASSUME NEW d \in Caller
      PROVE  Same(d) /\ Forgets(c, r, d)
  <2>1. call[d].leads \cap call[d].follows = {}
    BY <1>2 DEF Tidy
  <2>2. CASE hit(d)
    <3>1. call'[d] = told(d)
      BY <1>5, <2>2
    <3>2. Same(d)
      BY <1>3, <3>1 DEF Same
    <3>3. call'[d].leads = IF d = c THEN call[d].leads \ {r} ELSE call[d].leads
      <4>1. d # c => r \notin call[d].leads
        BY <2>1, <2>2
      <4>2. d # c => call[d].leads \ {r} = call[d].leads
        BY <4>1
      <4> QED BY <1>3, <3>1, <4>2
    <3>4. call'[d].follows = call[d].follows \ {r}
      BY <1>3, <3>1
    <3>5. call[d].digest[r] = call[c].digest[r]
      BY <2>2
    <3>6. \A x \in Request :
            \/ /\ x # r
               /\ call'[d].digest[x] = call[d].digest[x]
               /\ call'[d].result[x] = call[d].result[x]
            \/ x = r /\ call'[d].digest[x] = 0 /\ call'[d].result[x] = None
      BY <1>3, <3>1
    <3>7. /\ r \notin call'[d].leads \cup call'[d].follows \cup call'[d].checked
          /\ call'[d].checked \subseteq call[d].checked
      BY <1>3, <3>1
    <3> QED BY <3>2, <3>3, <3>4, <3>5, <3>6, <3>7 DEF Forgets
  <2>3. CASE ~hit(d)
    <3>1. call'[d] = call[d] /\ d # c
      BY <1>5, <2>3
    <3>2. call[d].follows = IF call[d].digest[r] = call[c].digest[r] THEN call[d].follows \ {r}
                            ELSE call[d].follows
      BY <2>3
    <3> QED BY <3>1, <3>2 DEF Same, Forgets
  <2> QED BY <2>2, <2>3
<1> QED BY <1>6, <1>7

(* A search is completed once nothing is embedded for it any more.            *)
LEMMA CompleteSearchKeeps ==
  ASSUME IInv, NEW c \in Caller, NEW r \in Request, r \in call[c].leads,
         CompleteSearch(c, r), UNCHANGED <<index, vectors, embedFlights>>,
         call[c].look \cup call[c].embeds \cup call[c].awaits = {}
  PROVE  /\ call' \in [Caller -> Thread] /\ searchFlights' \subseteq searchFlights
         /\ AllTidy' /\ AllTimely' /\ OneLeader' /\ SearchTable' /\ EmbedTable'
<1>1. TypeOK /\ AllTidy /\ AllTimely /\ OneLeader /\ SearchTable /\ EmbedTable
  BY DEF IInv
<1>2. index.digest \in 0..MaxVersion
  BY <1>1 DEF TypeOK, Index
<1>3. call' \in [Caller -> Thread]
  BY CompleteSearchThreads
<1>4. \A d \in Caller : Same(d) /\ Forgets(c, r, d)
  BY CompleteSearchThreads
<1>5. ASSUME NEW d \in Caller
      PROVE  /\ call'[d].leads = IF d = c THEN call[d].leads \ {r} ELSE call[d].leads
             /\ call'[d].follows =
                  IF call[d].digest[r] = call[c].digest[r] THEN call[d].follows \ {r}
                  ELSE call[d].follows
  BY <1>4 DEF Forgets
<1>6. ASSUME NEW d \in Caller, NEW x \in Request
      PROVE  \/ /\ d = c => x # r
                /\ call'[d].digest[x] = call[d].digest[x]
                /\ call'[d].result[x] = call[d].result[x]
             \/ /\ x = r /\ call'[d].digest[x] = 0 /\ call'[d].result[x] = None
                /\ r \notin call'[d].leads \cup call'[d].follows \cup call'[d].checked
  BY <1>4 DEF Forgets
<1>7. ASSUME NEW d \in Caller
      PROVE  call'[d].embeds = call[d].embeds /\ call'[d].awaits = call[d].awaits
  BY <1>4 DEF Same
<1>8. searchFlights' = searchFlights \ {<<r, call[c].digest[r]>>}
  BY DEF CompleteSearch, KeyOf, SearchKey
<1>9. AllTidy'
  <2>1. ASSUME NEW d \in Caller
        PROVE  Tidy(call'[d])
    <3>1. Tidy(call[d])
      BY <1>1 DEF AllTidy
    <3>2. call'[d].leads \subseteq call[d].leads /\ call'[d].follows \subseteq call[d].follows
      BY <1>5
    <3>3. call'[d].look \cup call'[d].embeds \cup call'[d].awaits # {} => call'[d].leads # {}
      BY <3>1, <1>4, <1>5 DEF Tidy, Same
    <3> QED BY <3>1, <3>2, <3>3, <1>4 DEF Tidy, Same
  <2> QED BY <2>1 DEF AllTidy
<1>10. AllTimely'
  <2>1. ASSUME NEW d \in Caller
        PROVE  Timely(call'[d], index.digest)
    <3>1. Timely(call[d], index.digest)
      BY <1>1 DEF AllTimely
    <3>2. ASSUME NEW x \in Request, call'[d].result[x] # None
          PROVE  /\ x \in call'[d].leads
                 /\ call'[d].digest[x] = call[d].digest[x] /\ call'[d].result[x] = call[d].result[x]
      BY <3>1, <3>2, <1>5, <1>6 DEF Timely
    <3>3. ASSUME NEW x \in Request
          PROVE  call'[d].digest[x] <= index.digest
      BY <3>1, <1>2, <1>6, SearchAssumption DEF Timely
    <3>4. ASSUME NEW x \in Request, x \in call'[d].checked
          PROVE  /\ x \in call[d].checked
                 /\ call'[d].digest[x] = call[d].digest[x] /\ call'[d].result[x] = call[d].result[x]
      BY <3>4, <1>4, <1>6 DEF Forgets
    <3> QED BY <3>1, <3>2, <3>3, <3>4 DEF Timely
  <2> QED BY <2>1 DEF AllTimely
<1>11. \A d \in Caller, x \in Request :
         x \in call'[d].leads \cup call'[d].follows =>
           /\ x \in call[d].leads \cup call[d].follows
           /\ call'[d].digest[x] = call[d].digest[x]
  BY <1>5, <1>6
<1>12. OneLeader'
  <2>1. ASSUME NEW d \in Caller, NEW e \in Caller, NEW x \in Request,
               x \in call'[d].leads, x \in call'[e].leads, call'[d].digest[x] = call'[e].digest[x]
        PROVE  d = e
    <3>1. x \in call[d].leads /\ x \in call[e].leads
      BY <2>1, <1>5
    <3>2. call[d].digest[x] = call[e].digest[x]
      BY <2>1, <1>11
    <3> QED BY <3>1, <3>2, <1>1 DEF OneLeader
  <2> QED BY <2>1 DEF OneLeader
<1>13. SearchTable'
  <2>1. ASSUME NEW x \in Request, NEW n \in 0..MaxVersion, <<x, n>> \in searchFlights'
        PROVE  \E d \in Caller : x \in call'[d].leads /\ call'[d].digest[x] = n
    <3>1. PICK d \in Caller : x \in call[d].leads /\ call[d].digest[x] = n
      BY <2>1, <1>1, <1>8 DEF SearchTable
    <3>2. ~(d = c /\ x = r)
      BY <2>1, <3>1, <1>8
    <3>3. x \in call'[d].leads
      BY <3>1, <3>2, <1>5
    <3> QED BY <3>1, <3>3, <1>11
  <2>2. ASSUME NEW x \in Request, NEW n \in 0..MaxVersion,
               NEW d \in Caller, x \in call'[d].leads, call'[d].digest[x] = n
        PROVE  <<x, n>> \in searchFlights'
    <3>1. x \in call[d].leads /\ call[d].digest[x] = n
      BY <2>2, <1>5, <1>11
    <3>2. <<x, n>> \in searchFlights
      BY <3>1, <1>1 DEF SearchTable
    <3>3. ~(x = r /\ n = call[c].digest[r])
      <4>1. x = r /\ n = call[c].digest[r] => d = c
        BY <3>1, <1>1 DEF OneLeader
      <4> QED BY <4>1, <2>2, <1>5
    <3> QED BY <3>2, <3>3, <1>8
  <2>3. ASSUME NEW d \in Caller, NEW x \in Request, x \in call'[d].follows
        PROVE  <<x, call'[d].digest[x]>> \in searchFlights'
    <3>1. x \in call[d].follows /\ call'[d].digest[x] = call[d].digest[x]
      BY <2>3, <1>5, <1>11
    <3>2. <<x, call[d].digest[x]>> \in searchFlights
      BY <3>1, <1>1 DEF SearchTable
    <3>3. ~(x = r /\ call[d].digest[x] = call[c].digest[r])
      BY <2>3, <1>5
    <3> QED BY <3>1, <3>2, <3>3, <1>8
  <2> QED BY <2>1, <2>2, <2>3 DEF SearchTable
<1>14. EmbedTable'
  BY <1>1, <1>7 DEF EmbedTable, EmbeddedOnce
<1>15. searchFlights' \subseteq searchFlights
  BY <1>8
<1> QED BY <1>3, <1>9, <1>10, <1>12, <1>13, <1>14, <1>15

(* The same of an embedding, whether it is there now or failed.               *)
LEMMA CompleteEmbeddingKeeps ==
  ASSUME IInv, NEW c \in Caller, NEW q \in Query, q \in call[c].embeds, NEW ok \in BOOLEAN,
         CompleteEmbedding(c, q, ok), UNCHANGED <<index, searchFlights>>
  PROVE  /\ call' \in [Caller -> Thread]
         /\ vectors' \subseteq Query /\ embedFlights' \subseteq Query
         /\ AllTidy' /\ AllTimely' /\ OneLeader' /\ SearchTable' /\ EmbedTable'
         /\ \A d \in Caller : call'[d].leads = call[d].leads
<1>1. TypeOK /\ AllTidy /\ AllTimely /\ OneLeader /\ SearchTable /\ EmbedTable
  BY DEF IInv
<1> DEFINE own(d) == [call[d] EXCEPT !.embeds = @ \ {q}]
           other(d) == [call[d] EXCEPT !.awaits = @ \ {q}]
           told(t) == [t EXCEPT !.lost = IF ok THEN @ ELSE @ \cup {q}]
<1>2. \A d \in Caller : call'[d] = IF d = c THEN told(own(d))
                                   ELSE IF q \in call[d].awaits THEN told(other(d))
                                   ELSE call[d]
  BY DEF CompleteEmbedding
<1>3. ASSUME NEW t \in Thread
      PROVE  /\ told(t) \in Thread
             /\ told(t).embeds = t.embeds /\ told(t).awaits = t.awaits
             /\ told(t).pc = t.pc /\ told(t).look = t.look
             /\ told(t).asked = t.asked /\ told(t).missed = t.missed
             /\ told(t).leads = t.leads /\ told(t).follows = t.follows
             /\ told(t).digest = t.digest /\ told(t).result = t.result
             /\ told(t).checked = t.checked
  BY DEF Thread
<1>4. \A d \in Caller : call[d] \in Thread
  BY <1>1, ThreadTypes
<1> HIDE DEF told
<1>5. ASSUME NEW d \in Caller
      PROVE  /\ call'[d] \in Thread
             /\ call'[d].pc = call[d].pc /\ call'[d].look = call[d].look
             /\ call'[d].asked = call[d].asked /\ call'[d].missed = call[d].missed
             /\ call'[d].leads = call[d].leads /\ call'[d].follows = call[d].follows
             /\ call'[d].digest = call[d].digest /\ call'[d].result = call[d].result
             /\ call'[d].checked = call[d].checked
             /\ call'[d].embeds = IF d = c THEN call[d].embeds \ {q} ELSE call[d].embeds
             /\ call'[d].awaits = IF d = c THEN call[d].awaits ELSE call[d].awaits \ {q}
  <2>1. CASE d = c
    <3>1. call'[d] = told(own(d))
      BY <1>2, <2>1
    <3>2. /\ own(d) \in Thread
          /\ own(d).pc = call[d].pc /\ own(d).look = call[d].look
          /\ own(d).asked = call[d].asked /\ own(d).missed = call[d].missed
          /\ own(d).leads = call[d].leads /\ own(d).follows = call[d].follows
          /\ own(d).digest = call[d].digest /\ own(d).result = call[d].result
          /\ own(d).checked = call[d].checked
          /\ own(d).embeds = call[d].embeds \ {q} /\ own(d).awaits = call[d].awaits
      BY <1>4 DEF Thread
    <3> HIDE DEF own
    <3> QED BY <3>1, <3>2, <2>1, <1>3
  <2>2. CASE d # c /\ q \in call[d].awaits
    <3>1. call'[d] = told(other(d))
      BY <1>2, <2>2
    <3>2. /\ other(d) \in Thread
          /\ other(d).pc = call[d].pc /\ other(d).look = call[d].look
          /\ other(d).asked = call[d].asked /\ other(d).missed = call[d].missed
          /\ other(d).leads = call[d].leads /\ other(d).follows = call[d].follows
          /\ other(d).digest = call[d].digest /\ other(d).result = call[d].result
          /\ other(d).checked = call[d].checked
          /\ other(d).embeds = call[d].embeds /\ other(d).awaits = call[d].awaits \ {q}
      BY <1>4 DEF Thread
    <3> HIDE DEF other
    <3> QED BY <3>1, <3>2, <2>2, <1>3
  <2>3. CASE d # c /\ q \notin call[d].awaits
    BY <1>2, <1>4, <2>3
  <2> QED BY <2>1, <2>2, <2>3
<1>6. call' \in [Caller -> Thread]
  <2>1. call' = [d \in Caller |-> call'[d]]
    BY DEF CompleteEmbedding
  <2> QED BY <1>5, <2>1
<1>7. /\ vectors' = IF ok THEN vectors \cup {q} ELSE vectors
      /\ embedFlights' = embedFlights \ {q}
  BY DEF CompleteEmbedding
<1>8. q \notin call[c].awaits
  BY <1>1 DEF AllTidy, Tidy
<1>9. AllTidy'
  <2>1. ASSUME NEW d \in Caller
        PROVE  Tidy(call'[d])
    <3>1. Tidy(call[d])
      BY <1>1 DEF AllTidy
    <3>2. call'[d].embeds \subseteq call[d].embeds /\ call'[d].awaits \subseteq call[d].awaits
      BY <1>5
    <3> QED BY <3>1, <3>2, <1>5 DEF Tidy
  <2> QED BY <2>1 DEF AllTidy
<1>10. AllTimely'
  <2>1. ASSUME NEW d \in Caller
        PROVE  Timely(call'[d], index.digest)
    <3>1. Timely(call[d], index.digest)
      BY <1>1 DEF AllTimely
    <3>2. /\ call'[d].leads = call[d].leads /\ call'[d].checked = call[d].checked
          /\ call'[d].digest = call[d].digest /\ call'[d].result = call[d].result
      BY <1>5
    <3> QED BY <3>1, <3>2 DEF Timely
  <2> QED BY <2>1 DEF AllTimely
<1>11. OneLeader'
  BY <1>1, <1>5 DEF OneLeader
<1>12. SearchTable'
  <2>1. ASSUME NEW r \in Request, NEW n \in 0..MaxVersion
        PROVE  <<r, n>> \in searchFlights' <=>
                 \E d \in Caller : r \in call'[d].leads /\ call'[d].digest[r] = n
    <3>1. <<r, n>> \in searchFlights <=>
            \E d \in Caller : r \in call[d].leads /\ call[d].digest[r] = n
      BY <1>1 DEF SearchTable
    <3> QED BY <3>1, <1>5
  <2>2. ASSUME NEW d \in Caller, NEW r \in Request, r \in call'[d].follows
        PROVE  <<r, call'[d].digest[r]>> \in searchFlights'
    BY <2>2, <1>1, <1>5 DEF SearchTable
  <2> QED BY <2>1, <2>2 DEF SearchTable
<1>13. EmbedTable'
  <2>1. \A d \in Caller \ {c} : q \notin call[d].embeds
    BY <1>1 DEF EmbedTable, EmbeddedOnce
  <2>2. \A x \in Query : x \in embedFlights' <=> \E d \in Caller : x \in call'[d].embeds
    BY <2>1, <1>1, <1>5, <1>7 DEF EmbedTable
  <2>3. \A d \in Caller, x \in Query : x \in call'[d].awaits => x \in embedFlights'
    BY <1>1, <1>5, <1>7, <1>8 DEF EmbedTable
  <2>4. EmbeddedOnce'
    BY <1>1, <1>5, <1>7 DEF EmbedTable, EmbeddedOnce
  <2> QED BY <2>2, <2>3, <2>4 DEF EmbedTable
<1>14. vectors' \subseteq Query /\ embedFlights' \subseteq Query
  BY <1>1, <1>7 DEF TypeOK
<1> QED BY <1>5, <1>6, <1>9, <1>10, <1>11, <1>12, <1>13, <1>14

-----------------------------------------------------------------------------
(* The actions.                                                               *)

LEMMA InitIInv ==
  Init => IInv
<1> SUFFICES ASSUME Init PROVE IInv
  OBVIOUS
<1>1. \A c \in Caller : call[c] = Idle
  BY DEF Init
<1>2. TypeOK
  <2>1. index \in Index
    BY SearchAssumption DEF Init, Index
  <2>2. call \in [Caller -> Thread]
    BY IdleThread DEF Init
  <2> QED BY <2>1, <2>2 DEF Init, TypeOK
<1>3. AllTidy /\ AllTimely
  <2>1. index.digest \in Nat
    BY DEF Init
  <2> QED BY <1>1, <2>1, IdleThread DEF AllTidy, AllTimely
<1>4. OneLeader /\ SearchTable /\ EmbedTable
  BY <1>1 DEF Init, Idle, OneLeader, SearchTable, EmbedTable, EmbeddedOnce
<1>5. CandidatesMatchTheirKey
  BY DEF Init, CandidatesMatchTheirKey
<1> QED BY <1>2, <1>3, <1>4, <1>5 DEF IInv

(* Nothing but the index and the cache of results changes.                    *)
LEMMA RefreshIInv ==
  ASSUME IInv, index' \in Index, index.digest <= index'.digest, candidates' = {},
         UNCHANGED <<vectors, flights, call>>
  PROVE  IInv'
<1>1. TypeOK /\ AllTidy /\ AllTimely /\ OneLeader /\ SearchTable /\ EmbedTable
  BY DEF IInv
<1>2. UNCHANGED <<vectors, searchFlights, embedFlights, call>>
  BY DEF flights
<1>3. TypeOK'
  BY <1>1, <1>2 DEF TypeOK
<1>4. AllTidy' /\ OneLeader' /\ SearchTable' /\ EmbedTable'
  BY <1>1, <1>2 DEF AllTidy, OneLeader, SearchTable, EmbedTable, EmbeddedOnce
<1>5. AllTimely'
  <2>1. ASSUME NEW c \in Caller
        PROVE  Timely(call[c], index'.digest)
    <3>1. /\ call[c].digest \in [Request -> 0..MaxVersion]
          /\ call[c].result \in [Request -> Index \cup {None}]
      BY <1>1, ThreadTypes
    <3>2. Timely(call[c], index.digest)
      BY <1>1 DEF AllTimely
    <3>3. index.digest \in Nat /\ index'.digest \in Nat
      BY <1>1 DEF TypeOK, Index
    <3>4. ASSUME NEW r \in Request, call[c].result[r] # None
          PROVE  call[c].result[r].digest \in Nat
      BY <3>1, <3>4 DEF Index
    <3>5. ASSUME NEW r \in Request
          PROVE  call[c].digest[r] \in Nat
      BY <3>1
    <3> QED BY <3>2, <3>3, <3>4, <3>5 DEF Timely
  <2> QED BY <2>1, <1>2 DEF AllTimely
<1>6. CandidatesMatchTheirKey'
  BY DEF CandidatesMatchTheirKey
<1> QED BY <1>3, <1>4, <1>5, <1>6 DEF IInv

(* A thread moves on in a place where it completes nothing, and the cache of  *)
(* results may change.                                                        *)
LEMMA LocalCacheIInv ==
  ASSUME IInv, NEW c \in Caller, NEW t \in Thread, Becomes(c, t),
         UNCHANGED <<index, vectors, flights>>,
         candidates' \subseteq Candidate, CandidatesMatchTheirKey',
         Tidy(t), Timely(t, index.digest),
         t.leads = call[c].leads, t.follows \subseteq call[c].follows,
         \A r \in call[c].leads \cup call[c].follows : t.digest[r] = call[c].digest[r],
         t.embeds = call[c].embeds, t.awaits \subseteq call[c].awaits
  PROVE  IInv'
<1>1. TypeOK
  BY DEF IInv
<1>2. UNCHANGED <<index, vectors, searchFlights, embedFlights>>
  BY DEF flights
<1>3. call' \in [Caller -> Thread] /\ AllTidy' /\ AllTimely'
  BY <1>2, OneThreadTidy
<1>4. OneLeader' /\ SearchTable'
  BY <1>2, SearchesKept
<1>5. EmbedTable'
  BY <1>2, EmbedsKept
<1>6. TypeOK'
  BY <1>1, <1>2, <1>3 DEF TypeOK
<1> QED BY <1>3, <1>4, <1>5, <1>6 DEF IInv

LEMMA LocalIInv ==
  ASSUME IInv, NEW c \in Caller, NEW t \in Thread, Becomes(c, t),
         UNCHANGED <<index, caches, flights>>,
         Tidy(t), Timely(t, index.digest),
         t.leads = call[c].leads, t.follows \subseteq call[c].follows,
         \A r \in call[c].leads \cup call[c].follows : t.digest[r] = call[c].digest[r],
         t.embeds = call[c].embeds, t.awaits \subseteq call[c].awaits
  PROVE  IInv'
<1>1. UNCHANGED <<index, candidates, vectors, flights>>
  BY DEF caches
<1>2. candidates' \subseteq Candidate /\ CandidatesMatchTheirKey'
  BY <1>1 DEF IInv, TypeOK, CandidatesMatchTheirKey
<1> QED BY <1>1, <1>2, LocalCacheIInv

LEMMA StartIInv ==
  ASSUME IInv, NEW c \in Caller, Start(c)
  PROVE  IInv'
<1>1. TypeOK /\ Tidy(call[c])
  BY DEF IInv, AllTidy
<1>2. PICK asked \in Batch : Becomes(c, [Idle EXCEPT !.pc = "search", !.asked = asked])
  BY DEF Start
<1> DEFINE t == [Idle EXCEPT !.pc = "search", !.asked = asked]
<1>3. UNCHANGED <<index, caches, flights>>
  BY DEF Start
<1>4. asked \subseteq Request
  BY SearchAssumption
<1>5. /\ t \in Thread /\ t.pc = "search" /\ t.asked = asked /\ t.missed = {}
      /\ t.leads = {} /\ t.follows = {} /\ t.look = {} /\ t.embeds = {} /\ t.awaits = {}
      /\ t.digest = Idle.digest /\ t.result = Idle.result /\ t.checked = Idle.checked
  BY <1>4, IdleThread DEF Idle, Thread
<1>6. call[c].leads = {} /\ call[c].follows = {} /\ call[c].embeds = {} /\ call[c].awaits = {}
  BY <1>1 DEF Start, At, Tidy
<1> HIDE DEF t
<1>7. Tidy(t)
  BY <1>5 DEF Tidy
<1>8. Timely(t, index.digest)
  <2>1. Timely(Idle, index.digest)
    BY <1>1, IdleThread DEF TypeOK, Index
  <2> QED BY <1>5, <2>1 DEF Timely, Idle
<1> QED BY <1>2, <1>3, <1>5, <1>6, <1>7, <1>8, LocalIInv DEF t

LEMMA ReadCandidatesIInv ==
  ASSUME IInv, NEW c \in Caller, NEW r \in Request, ReadCandidates(c, r)
  PROVE  IInv'
<1>1. TypeOK /\ Tidy(call[c]) /\ Timely(call[c], index.digest)
  BY DEF IInv, AllTidy, AllTimely
<1>2. /\ call[c] \in Thread
      /\ call[c].digest \in [Request -> 0..MaxVersion]
      /\ call[c].result \in [Request -> Index \cup {None}]
  BY <1>1, ThreadTypes
<1>3. UNCHANGED <<index, caches, flights>> /\ r \in call[c].asked /\ call[c].pc = "search"
  BY DEF ReadCandidates, At
<1> DEFINE hit == [call[c] EXCEPT !.asked = @ \ {r}]
           miss == [call[c] EXCEPT !.asked = @ \ {r}, !.missed = {r}, !.digest[r] = index.digest]
<1>4. CASE Becomes(c, hit)
  <2>1. /\ hit \in Thread /\ hit.pc = call[c].pc /\ hit.asked = call[c].asked \ {r}
        /\ hit.missed = call[c].missed /\ hit.leads = call[c].leads
        /\ hit.follows = call[c].follows /\ hit.look = call[c].look
        /\ hit.embeds = call[c].embeds /\ hit.awaits = call[c].awaits
        /\ hit.digest = call[c].digest /\ hit.result = call[c].result
        /\ hit.checked = call[c].checked
    BY <1>2 DEF Thread
  <2> HIDE DEF hit
  <2>2. Tidy(hit) /\ Timely(hit, index.digest)
    BY <1>1, <2>1 DEF Tidy, Timely
  <2> QED BY <1>3, <1>4, <2>1, <2>2, LocalIInv
<1>5. CASE Becomes(c, miss)
  <2>1. index.digest \in 0..MaxVersion
    BY <1>1 DEF TypeOK, Index
  <2>2. /\ miss \in Thread /\ miss.pc = call[c].pc /\ miss.asked = call[c].asked \ {r}
        /\ miss.missed = {r} /\ miss.leads = call[c].leads
        /\ miss.follows = call[c].follows /\ miss.look = call[c].look
        /\ miss.embeds = call[c].embeds /\ miss.awaits = call[c].awaits
        /\ miss.digest = [call[c].digest EXCEPT ![r] = index.digest]
        /\ miss.result = call[c].result /\ miss.checked = call[c].checked
    BY <1>2, <2>1 DEF Thread
  <2> HIDE DEF miss
  <2>3. /\ miss.digest[r] = index.digest
        /\ \A x \in Request \ {r} : miss.digest[x] = call[c].digest[x]
    BY <1>2, <2>2
  <2>4. r \notin call[c].leads \cup call[c].follows
    BY <1>1, <1>3 DEF Tidy
  <2>5. Tidy(miss)
    BY <1>1, <1>3, <2>2, <2>4 DEF Tidy
  <2>6. Timely(miss, index.digest)
    BY <1>1, <2>1, <2>2, <2>3, <2>4 DEF Timely
  <2>7. \A x \in call[c].leads \cup call[c].follows : miss.digest[x] = call[c].digest[x]
    BY <1>1, <2>3, <2>4, ThreadTypes
  <2> QED BY <1>3, <1>5, <2>2, <2>5, <2>6, <2>7, LocalIInv
<1> QED BY <1>4, <1>5 DEF ReadCandidates

LEMMA EnlistIInv ==
  ASSUME IInv, NEW c \in Caller, NEW r \in Request, Enlist(c, r)
  PROVE  IInv'
<1>1. /\ TypeOK /\ Tidy(call[c]) /\ Timely(call[c], index.digest)
      /\ OneLeader /\ SearchTable /\ EmbedTable /\ CandidatesMatchTheirKey
  BY DEF IInv, AllTidy, AllTimely
<1>2. /\ call[c] \in Thread
      /\ call[c].digest \in [Request -> 0..MaxVersion]
  BY <1>1, ThreadTypes
<1>3. /\ UNCHANGED <<index, candidates, vectors, embedFlights>>
      /\ r \in call[c].missed /\ call[c].pc = "search"
  BY DEF Enlist, At, caches
<1>4. KeyOf(c, r) = <<r, call[c].digest[r]>>
  BY DEF KeyOf, SearchKey
<1> DEFINE joins == [call[c] EXCEPT !.missed = {}, !.follows = @ \cup {r}]
           begins == [call[c] EXCEPT !.missed = {}, !.leads = @ \cup {r},
                                     !.look = @ \cup {QueryOf[r]}]
<1>5. CASE Becomes(c, joins) /\ KeyOf(c, r) \in searchFlights /\ UNCHANGED searchFlights
  <2>1. /\ joins \in Thread /\ joins.pc = call[c].pc /\ joins.asked = call[c].asked
        /\ joins.missed = {} /\ joins.leads = call[c].leads
        /\ joins.follows = call[c].follows \cup {r} /\ joins.look = call[c].look
        /\ joins.embeds = call[c].embeds /\ joins.awaits = call[c].awaits
        /\ joins.digest = call[c].digest /\ joins.result = call[c].result
        /\ joins.checked = call[c].checked
    BY <1>2 DEF Thread
  <2> HIDE DEF joins
  <2>2. Tidy(joins) /\ Timely(joins, index.digest)
    BY <1>1, <1>3, <2>1 DEF Tidy, Timely
  <2>3. call' \in [Caller -> Thread] /\ AllTidy' /\ AllTimely'
    BY <1>3, <1>5, <2>1, <2>2, OneThreadTidy
  <2>4. call'[c] = joins /\ \A d \in Caller \ {c} : call'[d] = call[d]
    BY <1>1, <1>5, <2>1, BecomesThread
  <2>5. \A d \in Caller : call'[d].leads = call[d].leads /\ call'[d].digest = call[d].digest
    BY <2>1, <2>4
  <2>6. OneLeader'
    BY <1>1, <2>5 DEF OneLeader
  <2>7. SearchTable'
    <3>1. \A d \in Caller, x \in Request :
            x \in call'[d].follows => x \in call[d].follows \/ (d = c /\ x = r)
      BY <2>1, <2>4
    <3> QED BY <1>1, <1>4, <1>5, <2>5, <3>1 DEF SearchTable
  <2>8. EmbedTable'
    BY <1>3, <1>5, <2>1, EmbedsKept
  <2>9. TypeOK'
    BY <1>1, <1>3, <1>5, <2>3 DEF TypeOK
  <2> QED BY <1>1, <1>3, <2>3, <2>6, <2>7, <2>8, <2>9 DEF IInv, CandidatesMatchTheirKey
<1>6. CASE /\ Becomes(c, begins) /\ KeyOf(c, r) \notin searchFlights
           /\ searchFlights' = searchFlights \cup {KeyOf(c, r)}
  <2>1. QueryOf[r] \in Query
    BY SearchAssumption
  <2>2. /\ begins \in Thread /\ begins.pc = call[c].pc /\ begins.asked = call[c].asked
        /\ begins.missed = {} /\ begins.leads = call[c].leads \cup {r}
        /\ begins.follows = call[c].follows /\ begins.look = call[c].look \cup {QueryOf[r]}
        /\ begins.embeds = call[c].embeds /\ begins.awaits = call[c].awaits
        /\ begins.digest = call[c].digest /\ begins.result = call[c].result
        /\ begins.checked = call[c].checked
    BY <1>2, <2>1 DEF Thread
  <2> HIDE DEF begins
  <2>3. call[c].embeds \cup call[c].awaits = {}
    BY <1>1, <1>3 DEF Tidy
  <2>4. Tidy(begins) /\ Timely(begins, index.digest)
    BY <1>1, <1>3, <2>2, <2>3 DEF Tidy, Timely
  <2>5. call' \in [Caller -> Thread] /\ AllTidy' /\ AllTimely'
    BY <1>3, <1>6, <2>2, <2>4, OneThreadTidy
  <2>6. call'[c] = begins /\ \A d \in Caller \ {c} : call'[d] = call[d]
    BY <1>1, <1>6, <2>2, BecomesThread
  <2>7. /\ \A d \in Caller : call'[d].follows = call[d].follows /\ call'[d].digest = call[d].digest
        /\ \A d \in Caller, x \in Request :
             x \in call'[d].leads <=> x \in call[d].leads \/ (d = c /\ x = r)
    BY <2>2, <2>6
  <2>8. \A d \in Caller : r \in call[d].leads => call[d].digest[r] # call[c].digest[r]
    BY <1>1, <1>2, <1>4, <1>6 DEF SearchTable
  <2>9. OneLeader'
    BY <1>1, <2>7, <2>8 DEF OneLeader
  <2>10. SearchTable'
    <3>1. ASSUME NEW x \in Request, NEW n \in 0..MaxVersion
          PROVE  <<x, n>> \in searchFlights' <=>
                   \E d \in Caller : x \in call'[d].leads /\ call'[d].digest[x] = n
      BY <1>1, <1>4, <1>6, <2>7 DEF SearchTable
    <3>2. ASSUME NEW d \in Caller, NEW x \in Request, x \in call'[d].follows
          PROVE  <<x, call'[d].digest[x]>> \in searchFlights'
      BY <3>2, <1>1, <1>6, <2>7 DEF SearchTable
    <3> QED BY <3>1, <3>2 DEF SearchTable
  <2>11. EmbedTable'
    BY <1>3, <1>6, <2>2, EmbedsKept
  <2>12. TypeOK'
    <3>1. KeyOf(c, r) \in Request \X (0..MaxVersion)
      BY <1>2, <1>4
    <3> QED BY <1>1, <1>3, <1>6, <2>5, <3>1 DEF TypeOK
  <2> QED BY <1>1, <1>3, <2>5, <2>9, <2>10, <2>11, <2>12 DEF IInv, CandidatesMatchTheirKey
<1> QED BY <1>5, <1>6 DEF Enlist

LEMMA LookUpIInv ==
  ASSUME IInv, NEW c \in Caller, NEW q \in Query, LookUp(c, q)
  PROVE  IInv'
<1>1. /\ TypeOK /\ Tidy(call[c]) /\ Timely(call[c], index.digest)
      /\ EmbedTable /\ CandidatesMatchTheirKey
  BY DEF IInv, AllTidy, AllTimely
<1>2. call[c] \in Thread
  BY <1>1, ThreadTypes
<1>3. /\ UNCHANGED <<index, candidates, vectors, searchFlights>>
      /\ q \in call[c].look /\ call[c].pc = "search"
      /\ call[c].asked = {} /\ call[c].missed = {}
  BY DEF LookUp, Enlisted, At, caches
<1> DEFINE found == [call[c] EXCEPT !.look = @ \ {q}]
           waits == [call[c] EXCEPT !.look = @ \ {q}, !.awaits = @ \cup {q}]
           embeds == [call[c] EXCEPT !.look = @ \ {q}, !.embeds = @ \cup {q}]
<1>4. CASE Becomes(c, found) /\ UNCHANGED embedFlights
  <2>1. /\ found \in Thread /\ found.pc = call[c].pc /\ found.asked = call[c].asked
        /\ found.missed = call[c].missed /\ found.leads = call[c].leads
        /\ found.follows = call[c].follows /\ found.look = call[c].look \ {q}
        /\ found.embeds = call[c].embeds /\ found.awaits = call[c].awaits
        /\ found.digest = call[c].digest /\ found.result = call[c].result
        /\ found.checked = call[c].checked
    BY <1>2 DEF Thread
  <2> HIDE DEF found
  <2>2. Tidy(found) /\ Timely(found, index.digest)
    BY <1>1, <1>3, <2>1 DEF Tidy, Timely
  <2> QED BY <1>3, <1>4, <2>1, <2>2, LocalIInv DEF caches, flights
<1>5. CASE Becomes(c, waits) /\ q \in embedFlights /\ UNCHANGED embedFlights
  <2>1. /\ waits \in Thread /\ waits.pc = call[c].pc /\ waits.asked = call[c].asked
        /\ waits.missed = call[c].missed /\ waits.leads = call[c].leads
        /\ waits.follows = call[c].follows /\ waits.look = call[c].look \ {q}
        /\ waits.embeds = call[c].embeds /\ waits.awaits = call[c].awaits \cup {q}
        /\ waits.digest = call[c].digest /\ waits.result = call[c].result
        /\ waits.checked = call[c].checked
    BY <1>2 DEF Thread
  <2> HIDE DEF waits
  <2>2. Tidy(waits) /\ Timely(waits, index.digest)
    BY <1>1, <1>3, <2>1 DEF Tidy, Timely
  <2>3. call' \in [Caller -> Thread] /\ AllTidy' /\ AllTimely'
    BY <1>3, <1>5, <2>1, <2>2, OneThreadTidy
  <2>4. OneLeader' /\ SearchTable'
    BY <1>3, <1>5, <2>1, SearchesKept
  <2>5. call'[c] = waits /\ \A d \in Caller \ {c} : call'[d] = call[d]
    BY <1>1, <1>5, <2>1, BecomesThread
  <2>6. EmbedTable'
    <3>1. /\ \A d \in Caller : call'[d].embeds = call[d].embeds
          /\ \A d \in Caller, x \in Query : x \in call'[d].awaits => x \in call[d].awaits \/ x = q
      BY <2>1, <2>5
    <3> QED BY <1>1, <1>3, <1>5, <3>1 DEF EmbedTable, EmbeddedOnce
  <2>7. TypeOK'
    BY <1>1, <1>3, <1>5, <2>3 DEF TypeOK
  <2> QED BY <1>1, <1>3, <2>3, <2>4, <2>6, <2>7 DEF IInv, CandidatesMatchTheirKey
<1>6. CASE /\ Becomes(c, embeds) /\ q \notin vectors /\ q \notin embedFlights
           /\ embedFlights' = embedFlights \cup {q}
  <2>1. /\ embeds \in Thread /\ embeds.pc = call[c].pc /\ embeds.asked = call[c].asked
        /\ embeds.missed = call[c].missed /\ embeds.leads = call[c].leads
        /\ embeds.follows = call[c].follows /\ embeds.look = call[c].look \ {q}
        /\ embeds.embeds = call[c].embeds \cup {q} /\ embeds.awaits = call[c].awaits
        /\ embeds.digest = call[c].digest /\ embeds.result = call[c].result
        /\ embeds.checked = call[c].checked
    BY <1>2 DEF Thread
  <2> HIDE DEF embeds
  <2>2. Tidy(embeds) /\ Timely(embeds, index.digest)
    BY <1>1, <1>3, <2>1 DEF Tidy, Timely
  <2>3. call' \in [Caller -> Thread] /\ AllTidy' /\ AllTimely'
    BY <1>3, <1>6, <2>1, <2>2, OneThreadTidy
  <2>4. OneLeader' /\ SearchTable'
    BY <1>3, <1>6, <2>1, SearchesKept
  <2>5. call'[c] = embeds /\ \A d \in Caller \ {c} : call'[d] = call[d]
    BY <1>1, <1>6, <2>1, BecomesThread
  <2>6. EmbedTable'
    <3>1. /\ \A d \in Caller, x \in Query :
               x \in call'[d].embeds <=> x \in call[d].embeds \/ (d = c /\ x = q)
          /\ \A d \in Caller : call'[d].awaits = call[d].awaits
      BY <2>1, <2>5
    <3>2. \A d \in Caller : q \notin call[d].embeds
      BY <1>1, <1>6 DEF EmbedTable
    <3>3. \A x \in Query : x \in embedFlights' <=> \E d \in Caller : x \in call'[d].embeds
      BY <1>1, <1>6, <3>1 DEF EmbedTable
    <3>4. \A d \in Caller, x \in Query : x \in call'[d].awaits => x \in embedFlights'
      BY <1>1, <1>6, <3>1 DEF EmbedTable
    <3>5. embedFlights' \cap vectors' = {}
      BY <1>1, <1>3, <1>6 DEF EmbedTable, EmbeddedOnce
    <3>6. ASSUME NEW d \in Caller, NEW e \in Caller, d # e
          PROVE  call'[d].embeds \cap call'[e].embeds = {}
      <4>1. \A x \in call'[d].embeds \cap call'[e].embeds : x \in Query
        BY <2>3, ThreadTypes DEF Thread
      <4>2. call[d].embeds \cap call[e].embeds = {}
        BY <3>6, <1>1 DEF EmbedTable, EmbeddedOnce
      <4> QED BY <3>1, <3>2, <3>6, <4>1, <4>2
    <3> QED BY <3>3, <3>4, <3>5, <3>6 DEF EmbedTable, EmbeddedOnce
  <2>7. TypeOK'
    BY <1>1, <1>3, <1>6, <2>3 DEF TypeOK
  <2> QED BY <1>1, <1>3, <2>3, <2>4, <2>6, <2>7 DEF IInv, CandidatesMatchTheirKey
<1> QED BY <1>4, <1>5, <1>6 DEF LookUp

(* Embed and FailEmbedding.                                                   *)
LEMMA EmbedIInv ==
  ASSUME IInv, NEW c \in Caller, NEW q \in Query, q \in call[c].embeds, NEW ok \in BOOLEAN,
         CompleteEmbedding(c, q, ok), UNCHANGED <<index, candidates, searchFlights>>
  PROVE  IInv'
<1>1. TypeOK /\ CandidatesMatchTheirKey
  BY DEF IInv
<1>2. /\ call' \in [Caller -> Thread]
      /\ vectors' \subseteq Query /\ embedFlights' \subseteq Query
      /\ AllTidy' /\ AllTimely' /\ OneLeader' /\ SearchTable' /\ EmbedTable'
  BY CompleteEmbeddingKeeps
<1>3. TypeOK'
  BY <1>1, <1>2 DEF TypeOK
<1> QED BY <1>1, <1>2, <1>3 DEF IInv, CandidatesMatchTheirKey

(* FailSearch, Finish, and RankLegacy when it fails.                          *)
LEMMA CompleteIInv ==
  ASSUME IInv, NEW c \in Caller, NEW r \in Request, r \in call[c].leads,
         CompleteSearch(c, r), UNCHANGED <<index, vectors, embedFlights>>,
         call[c].look \cup call[c].embeds \cup call[c].awaits = {},
         candidates' \subseteq Candidate, CandidatesMatchTheirKey'
  PROVE  IInv'
<1>1. TypeOK
  BY DEF IInv
<1>2. /\ call' \in [Caller -> Thread] /\ searchFlights' \subseteq searchFlights
      /\ AllTidy' /\ AllTimely' /\ OneLeader' /\ SearchTable' /\ EmbedTable'
  BY CompleteSearchKeeps
<1>3. TypeOK'
  BY <1>1, <1>2 DEF TypeOK
<1> QED BY <1>2, <1>3 DEF IInv

LEMMA RankLegacyIInv ==
  ASSUME IInv, NEW c \in Caller, NEW r \in Request, RankLegacy(c, r)
  PROVE  IInv'
<1>1. /\ TypeOK /\ Tidy(call[c]) /\ Timely(call[c], index.digest) /\ CandidatesMatchTheirKey
  BY DEF IInv, AllTidy, AllTimely
<1>2. /\ call[c] \in Thread
      /\ call[c].result \in [Request -> Index \cup {None}]
      /\ index \in Index /\ index.digest \in Nat
  BY <1>1, ThreadTypes DEF TypeOK, Index
<1>3. /\ UNCHANGED <<index, candidates, vectors, embedFlights>>
      /\ r \in call[c].leads /\ call[c].result[r] = None
      /\ call[c].look \cup call[c].embeds \cup call[c].awaits = {}
  BY DEF RankLegacy, Embedded, caches
<1>4. CASE CompleteSearch(c, r)
  BY <1>1, <1>3, <1>4, CompleteIInv DEF TypeOK, CandidatesMatchTheirKey
<1> DEFINE t == [call[c] EXCEPT !.result[r] = index]
           results == [call[c].result EXCEPT ![r] = index]
<1>5. CASE Becomes(c, t) /\ UNCHANGED searchFlights
  <2>1. results \in [Request -> Index \cup {None}]
    BY <1>2
  <2>2. t = [call[c] EXCEPT !.result = results]
    BY <1>2 DEF Thread
  <2>3. results[r] = index /\ \A x \in Request \ {r} : results[x] = call[c].result[x]
    BY <1>2
  <2> HIDE DEF t, results
  <2>4. /\ t.pc = call[c].pc /\ t.asked = call[c].asked
        /\ t.missed = call[c].missed /\ t.leads = call[c].leads
        /\ t.follows = call[c].follows /\ t.look = call[c].look
        /\ t.embeds = call[c].embeds /\ t.awaits = call[c].awaits
        /\ t.digest = call[c].digest /\ t.result = results
        /\ t.checked = call[c].checked
    BY <1>2, <2>2 DEF Thread
  <2>5. t \in Thread
    BY <1>2, <2>1, <2>2 DEF Thread
  <2>6. Tidy(t)
    BY <1>1, <2>4 DEF Tidy
  <2>7. Timely(t, index.digest)
    <3>1. call[c].digest[r] <= index.digest
      BY <1>1 DEF Timely
    <3> QED BY <1>1, <1>2, <1>3, <2>3, <2>4, <3>1 DEF Timely
  <2> QED BY <1>3, <1>5, <2>4, <2>5, <2>6, <2>7, LocalIInv DEF caches, flights
<1> QED BY <1>4, <1>5 DEF RankLegacy

(* What is fit for the cache comes from the content it is asked of: it is no  *)
(* older than that, and no newer than the index, which still has it.          *)
LEMMA CheckIInv ==
  ASSUME IInv, NEW c \in Caller, NEW r \in Request, Check(c, r)
  PROVE  IInv'
<1>1. TypeOK /\ Tidy(call[c]) /\ Timely(call[c], index.digest)
  BY DEF IInv, AllTidy, AllTimely
<1>2. /\ call[c] \in Thread
      /\ call[c].digest \in [Request -> 0..MaxVersion]
      /\ call[c].result \in [Request -> Index \cup {None}]
      /\ index.digest \in Nat
  BY <1>1, ThreadTypes DEF TypeOK, Index
<1> DEFINE t == [call[c] EXCEPT !.checked = {r}]
<1>3. /\ Becomes(c, t) /\ UNCHANGED <<index, caches, flights>>
      /\ call[c].result[r] # None /\ index.digest = call[c].digest[r]
  BY DEF Check, Handles, Ranked, MayCache
<1>4. /\ t \in Thread /\ t.pc = call[c].pc /\ t.asked = call[c].asked
      /\ t.missed = call[c].missed /\ t.leads = call[c].leads
      /\ t.follows = call[c].follows /\ t.look = call[c].look
      /\ t.embeds = call[c].embeds /\ t.awaits = call[c].awaits
      /\ t.digest = call[c].digest /\ t.result = call[c].result
      /\ t.checked = {r}
  BY <1>2 DEF Thread
<1> HIDE DEF t
<1>5. call[c].result[r].digest = call[c].digest[r]
  <2>1. call[c].result[r].digest \in Nat
    BY <1>2, <1>3 DEF Index
  <2>2. /\ call[c].digest[r] <= call[c].result[r].digest
        /\ call[c].result[r].digest <= index.digest
    BY <1>1, <1>3 DEF Timely
  <2> QED BY <1>2, <1>3, <2>1, <2>2
<1>6. Tidy(t) /\ Timely(t, index.digest)
  BY <1>1, <1>3, <1>4, <1>5 DEF Tidy, Timely
<1> QED BY <1>3, <1>4, <1>6, LocalIInv

(* So does what is inserted, whatever the index has become since the check.   *)
LEMMA InsertIInv ==
  ASSUME IInv, NEW c \in Caller, NEW r \in Request, Insert(c, r)
  PROVE  IInv'
<1>1. TypeOK /\ Tidy(call[c]) /\ Timely(call[c], index.digest) /\ CandidatesMatchTheirKey
  BY DEF IInv, AllTidy, AllTimely
<1>2. /\ call[c] \in Thread
      /\ call[c].digest \in [Request -> 0..MaxVersion]
      /\ call[c].result \in [Request -> Index \cup {None}]
  BY <1>1, ThreadTypes
<1> DEFINE t == [call[c] EXCEPT !.checked = {}, !.written = {r}]
           row == [request |-> r, digest |-> call[c].digest[r], from |-> call[c].result[r]]
<1>3. /\ Becomes(c, t) /\ UNCHANGED <<index, vectors, flights>>
      /\ r \in call[c].checked
  BY DEF Insert
<1>4. /\ t \in Thread /\ t.pc = call[c].pc /\ t.asked = call[c].asked
      /\ t.missed = call[c].missed /\ t.leads = call[c].leads
      /\ t.follows = call[c].follows /\ t.look = call[c].look
      /\ t.embeds = call[c].embeds /\ t.awaits = call[c].awaits
      /\ t.digest = call[c].digest /\ t.result = call[c].result
      /\ t.checked = {}
  BY <1>2 DEF Thread
<1> HIDE DEF t
<1>5. call[c].result[r] \in Index /\ call[c].result[r].digest = call[c].digest[r]
  BY <1>1, <1>2, <1>3 DEF Timely
<1>6. row \in Candidate /\ row.from.digest = row.digest
  BY <1>2, <1>5 DEF Candidate
<1>7. \A x \in candidates' : x \in candidates \/ x = row
  BY DEF Insert
<1> HIDE DEF row
<1>8. candidates' \subseteq Candidate /\ CandidatesMatchTheirKey'
  BY <1>1, <1>6, <1>7 DEF TypeOK, CandidatesMatchTheirKey
<1>9. Tidy(t) /\ Timely(t, index.digest)
  BY <1>1, <1>4 DEF Tidy, Timely
<1> QED BY <1>3, <1>4, <1>8, <1>9, LocalCacheIInv

LEMMA FinishIInv ==
  ASSUME IInv, NEW c \in Caller, NEW r \in Request, Finish(c, r)
  PROVE  IInv'
<1>1. TypeOK /\ CandidatesMatchTheirKey
  BY DEF IInv
<1>2. /\ UNCHANGED <<index, vectors, candidates, embedFlights>> /\ CompleteSearch(c, r)
      /\ r \in call[c].leads
      /\ call[c].look \cup call[c].embeds \cup call[c].awaits = {}
  BY DEF Finish, Handles, Ranked, Embedded, caches
<1>3. candidates' \subseteq Candidate /\ CandidatesMatchTheirKey'
  BY <1>1, <1>2 DEF TypeOK, CandidatesMatchTheirKey
<1> QED BY <1>2, <1>3, CompleteIInv

(* Return and Raise: the thread has nothing left to complete.                 *)
LEMMA EndIInv ==
  ASSUME IInv, NEW c \in Caller, Becomes(c, Idle), UNCHANGED <<index, caches, flights>>,
         call[c].leads = {}, call[c].follows = {}, call[c].embeds = {}
  PROVE  IInv'
<1>1. TypeOK /\ index.digest \in Nat
  BY DEF IInv, TypeOK, Index
<1>2. /\ Idle.leads = {} /\ Idle.follows = {} /\ Idle.embeds = {} /\ Idle.awaits = {}
  BY DEF Idle
<1>3. Idle \in Thread /\ Tidy(Idle) /\ Timely(Idle, index.digest)
  BY <1>1, IdleThread
<1> QED BY <1>1, <1>2, <1>3, LocalIInv

LEMMA InterruptIInv ==
  ASSUME IInv, NEW c \in Caller, Interrupt(c)
  PROVE  IInv'
<1>1. TypeOK /\ Tidy(call[c]) /\ Timely(call[c], index.digest) /\ OneLeader /\ SearchTable
  BY DEF IInv, AllTidy, AllTimely
<1>2. /\ call[c] \in Thread
      /\ call[c].digest \in [Request -> 0..MaxVersion]
  BY <1>1, ThreadTypes
<1> DEFINE t == [Idle EXCEPT !.pc = "fail", !.digest = call[c].digest,
                             !.leads = call[c].leads, !.embeds = call[c].embeds]
<1>3. Becomes(c, t) /\ UNCHANGED <<index, caches, flights>>
  BY DEF Interrupt
<1>4. /\ t \in Thread /\ t.pc = "fail" /\ t.asked = {} /\ t.missed = {}
      /\ t.leads = call[c].leads /\ t.follows = {} /\ t.look = {}
      /\ t.embeds = call[c].embeds /\ t.awaits = {}
      /\ t.digest = call[c].digest /\ t.result = Idle.result /\ t.checked = Idle.checked
  BY <1>2, IdleThread DEF Idle, Thread
<1>5. Idle.checked = {} /\ \A r \in Request : Idle.result[r] = None
  BY DEF Idle
<1> HIDE DEF t
<1>6. Tidy(t) /\ Timely(t, index.digest)
  BY <1>1, <1>4, <1>5 DEF Tidy, Timely
<1> QED BY <1>3, <1>4, <1>6, LocalIInv

LEMMA StepIInv ==
  ASSUME IInv, NEW c \in Caller, Step(c)
  PROVE  IInv'
<1>1. TypeOK /\ Tidy(call[c]) /\ CandidatesMatchTheirKey
  BY DEF IInv, AllTidy
<1>2. ASSUME NEW r \in Request, FailSearch(c, r)
      PROVE  IInv'
  <2>1. call[c].look \cup call[c].embeds \cup call[c].awaits = {}
    BY <1>1, <1>2 DEF FailSearch, At, Tidy
  <2>2. candidates' \subseteq Candidate /\ CandidatesMatchTheirKey'
    BY <1>1, <1>2 DEF FailSearch, caches, TypeOK, CandidatesMatchTheirKey
  <2> QED BY <1>2, <2>1, <2>2, CompleteIInv DEF FailSearch, caches
<1>3. ASSUME NEW q \in Query, Embed(c, q)
      PROVE  IInv'
  BY <1>3, EmbedIInv DEF Embed
<1>4. ASSUME NEW q \in Query, FailEmbedding(c, q)
      PROVE  IInv'
  BY <1>4, EmbedIInv DEF FailEmbedding
<1>5. ASSUME Return(c)
      PROVE  IInv'
  <2>1. call[c].leads = {} /\ call[c].follows = {} /\ call[c].embeds = {}
    BY <1>1, <1>5 DEF Return, Tidy
  <2> QED BY <1>5, <2>1, EndIInv DEF Return
<1>6. ASSUME Raise(c)
      PROVE  IInv'
  <2>1. call[c].leads = {} /\ call[c].follows = {} /\ call[c].embeds = {}
    BY <1>1, <1>6 DEF Raise, At, Tidy
  <2> QED BY <1>6, <2>1, EndIInv DEF Raise
<1> QED BY <1>2, <1>3, <1>4, <1>5, <1>6, ReadCandidatesIInv, EnlistIInv, RankLegacyIInv,
           CheckIInv, InsertIInv, FinishIInv, LookUpIInv DEF Step

LEMMA NextIInv ==
  IInv /\ [Next]_vars => IInv'
<1> SUFFICES ASSUME IInv, [Next]_vars PROVE IInv'
  OBVIOUS
<1>1. TypeOK
  BY DEF IInv
<1>2. CASE RefreshContent
  <2>1. index' \in Index /\ index.digest <= index'.digest
    BY <1>1, <1>2, SearchAssumption DEF RefreshContent, TypeOK, Index
  <2> QED BY <1>2, <2>1, RefreshIInv DEF RefreshContent
<1>3. CASE RefreshVectors
  <2>1. index' \in Index /\ index.digest <= index'.digest
    <3>1. index \in Index /\ index' = [index EXCEPT !.vectors = TRUE]
      BY <1>1, <1>3 DEF RefreshVectors, TypeOK
    <3>2. index' \in Index /\ index'.digest = index.digest /\ index.digest \in 0..MaxVersion
      BY <3>1 DEF Index
    <3> QED BY <3>2, SearchAssumption
  <2> QED BY <1>3, <2>1, RefreshIInv DEF RefreshVectors
<1>4. CASE UNCHANGED vars
  BY <1>4 DEF vars, caches, flights, IInv, TypeOK, AllTidy, AllTimely, OneLeader, SearchTable,
              EmbedTable, EmbeddedOnce, CandidatesMatchTheirKey
<1> QED BY <1>2, <1>3, <1>4, StartIInv, StepIInv, InterruptIInv DEF Next

LEMMA SpecIInv ==
  Spec => []IInv
<1>1. Init => IInv
  BY InitIInv
<1>2. IInv /\ [Next]_vars => IInv'
  BY NextIInv
<1> QED BY <1>1, <1>2, PTL DEF Spec

-----------------------------------------------------------------------------
(* The theorems.                                                              *)

(* The tables, the caches, the index and the local variables of every thread  *)
(* keep their types.                                                          *)
THEOREM SearchTypeCorrect ==
  Spec => []TypeOK
<1>1. IInv => TypeOK
  BY DEF IInv
<1> QED BY <1>1, SpecIInv, PTL

(* However many threads search, fail or are interrupted, a future that is in  *)
(* a table is completed by a thread that is still at it, and nobody waits for *)
(* one that is in no table.                                                   *)
THEOREM SearchEveryFlightIsLed ==
  Spec => []EveryFlightIsLed
<1>1. IInv => EveryFlightIsLed
  <2> SUFFICES ASSUME IInv PROVE EveryFlightIsLed
    OBVIOUS
  <2>1. TypeOK /\ SearchTable /\ EmbedTable
    BY DEF IInv
  <2>2. \A c \in Caller, r \in Request : KeyOf(c, r) = <<r, call[c].digest[r]>>
    BY DEF KeyOf, SearchKey
  <2>3. searchFlights = UNION {{KeyOf(c, r) : r \in call[c].leads} : c \in Caller}
    <3>1. ASSUME NEW k \in searchFlights
          PROVE  \E c \in Caller : \E r \in call[c].leads : k = KeyOf(c, r)
      <4>1. PICK r \in Request, n \in 0..MaxVersion : k = <<r, n>>
        BY <2>1 DEF TypeOK
      <4> QED BY <2>1, <2>2, <4>1 DEF SearchTable
    <3>2. ASSUME NEW c \in Caller, NEW r \in call[c].leads
          PROVE  KeyOf(c, r) \in searchFlights
      <4>1. r \in Request /\ call[c].digest[r] \in 0..MaxVersion
        BY <2>1, ThreadTypes
      <4> QED BY <2>1, <2>2, <4>1 DEF SearchTable
    <3> QED BY <3>1, <3>2
  <2>4. embedFlights = UNION {call[c].embeds : c \in Caller}
    <3>1. embedFlights \subseteq Query /\ \A c \in Caller : call[c].embeds \subseteq Query
      BY <2>1, ThreadTypes DEF TypeOK
    <3> QED BY <2>1, <3>1 DEF EmbedTable
  <2>5. ASSUME NEW c \in Caller
        PROVE  /\ \A r \in call[c].follows : KeyOf(c, r) \in searchFlights
               /\ call[c].awaits \subseteq embedFlights
    BY <2>1, <2>2, ThreadTypes DEF SearchTable, EmbedTable
  <2> QED BY <2>3, <2>4, <2>5 DEF EveryFlightIsLed
<1> QED BY <1>1, SpecIInv, PTL

(* A query is embedded by one thread at a time, and never when the cache has  *)
(* its vector.                                                                *)
THEOREM SearchEmbeddedOnce ==
  Spec => []EmbeddedOnce
<1>1. IInv => EmbeddedOnce
  BY DEF IInv, EmbedTable
<1> QED BY <1>1, SpecIInv, PTL

(* However the index is replaced between the steps of the searches, a cached  *)
(* row comes from the content it is filed under, and only readers who found   *)
(* that content ask for it.                                                   *)
THEOREM SearchCandidatesMatchTheirKey ==
  Spec => []CandidatesMatchTheirKey
<1>1. IInv => CandidatesMatchTheirKey
  BY DEF IInv
<1> QED BY <1>1, SpecIInv, PTL

(* A thread is done with a search only by completing it.                      *)
LEMMA LeadsEnd ==
  ASSUME IInv, Next, NEW c \in Caller, NEW r \in Request,
         r \in call[c].leads, r \notin call'[c].leads
  PROVE  CompleteSearch(c, r)
<1>1. /\ TypeOK /\ \A e \in Caller : Tidy(call[e]) /\ call[e] \in Thread
  BY ThreadTypes DEF IInv, AllTidy
<1>2. ASSUME NEW e \in Caller, NEW t, Becomes(e, t)
      PROVE  e = c /\ r \notin t.leads
  <2>1. \A d \in Caller : call'[d] = IF d = e THEN t ELSE call[d]
    BY <1>1, <1>2 DEF Becomes, TypeOK
  <2> QED BY <2>1
<1>3. ASSUME NEW e \in Caller, NEW x \in Request, x \in call[e].leads, CompleteSearch(e, x)
      PROVE  CompleteSearch(c, r)
  <2>1. Forgets(e, x, c)
    BY <1>3, CompleteSearchThreads
  <2>2. e = c /\ x = r
    BY <2>1 DEF Forgets
  <2> QED BY <1>3, <2>2
<1>4. ASSUME NEW e \in Caller, NEW q \in Query, NEW ok \in BOOLEAN, q \in call[e].embeds,
             CompleteEmbedding(e, q, ok), UNCHANGED <<index, searchFlights>>
      PROVE  FALSE
  BY <1>4, CompleteEmbeddingKeeps
<1>5. ASSUME NEW e \in Caller
      PROVE  /\ ~Start(e) /\ ~Interrupt(e) /\ ~Return(e) /\ ~Raise(e)
             /\ \A x \in Request : ~ReadCandidates(e, x) /\ ~Enlist(e, x)
             /\ \A x \in Request : ~Check(e, x) /\ ~Insert(e, x)
             /\ \A q \in Query : ~LookUp(e, q) /\ ~Embed(e, q) /\ ~FailEmbedding(e, q)
  <2>1. ~Start(e)
    <3>1. Start(e) => e = c /\ At(e, "idle")
      BY <1>2 DEF Start
    <3> QED BY <1>1, <3>1 DEF At, Tidy
  <2>2. ~Interrupt(e)
    <3>1. SUFFICES ASSUME Interrupt(e) PROVE FALSE
      OBVIOUS
    <3> DEFINE t == [Idle EXCEPT !.pc = "fail", !.digest = call[e].digest,
                                 !.leads = call[e].leads, !.embeds = call[e].embeds]
    <3>2. Becomes(e, t)
      BY <3>1 DEF Interrupt
    <3>3. t.leads = call[e].leads
      BY DEF Idle
    <3> HIDE DEF t
    <3> QED BY <1>2, <3>2, <3>3
  <2>3. ~Return(e) /\ ~Raise(e)
    BY <1>2 DEF Return, Raise
  <2>4. ASSUME NEW x \in Request PROVE ~ReadCandidates(e, x)
    <3> DEFINE hit == [call[e] EXCEPT !.asked = @ \ {x}]
               miss == [call[e] EXCEPT !.asked = @ \ {x}, !.missed = {x}, !.digest[x] = index.digest]
    <3>1. hit.leads = call[e].leads /\ miss.leads = call[e].leads
      BY <1>1 DEF Thread
    <3>2. ReadCandidates(e, x) => Becomes(e, hit) \/ Becomes(e, miss)
      BY DEF ReadCandidates
    <3> HIDE DEF hit, miss
    <3> QED BY <1>2, <3>1, <3>2
  <2>5. ASSUME NEW x \in Request PROVE ~Enlist(e, x)
    <3> DEFINE joins == [call[e] EXCEPT !.missed = {}, !.follows = @ \cup {x}]
               begins == [call[e] EXCEPT !.missed = {}, !.leads = @ \cup {x},
                                         !.look = @ \cup {QueryOf[x]}]
    <3>1. joins.leads = call[e].leads /\ call[e].leads \subseteq begins.leads
      BY <1>1 DEF Thread
    <3>2. Enlist(e, x) => Becomes(e, joins) \/ Becomes(e, begins)
      BY DEF Enlist
    <3> HIDE DEF joins, begins
    <3> QED BY <1>2, <3>1, <3>2
  <2>6. ASSUME NEW q \in Query PROVE ~LookUp(e, q)
    <3> DEFINE found == [call[e] EXCEPT !.look = @ \ {q}]
               waits == [call[e] EXCEPT !.look = @ \ {q}, !.awaits = @ \cup {q}]
               embeds == [call[e] EXCEPT !.look = @ \ {q}, !.embeds = @ \cup {q}]
    <3>1. /\ found.leads = call[e].leads /\ waits.leads = call[e].leads
          /\ embeds.leads = call[e].leads
      BY <1>1 DEF Thread
    <3>2. LookUp(e, q) => Becomes(e, found) \/ Becomes(e, waits) \/ Becomes(e, embeds)
      BY DEF LookUp
    <3> HIDE DEF found, waits, embeds
    <3> QED BY <1>2, <3>1, <3>2
  <2>7. ASSUME NEW q \in Query PROVE ~Embed(e, q) /\ ~FailEmbedding(e, q)
    BY <1>4 DEF Embed, FailEmbedding
  <2>8. ASSUME NEW x \in Request PROVE ~Check(e, x) /\ ~Insert(e, x)
    <3> DEFINE checks == [call[e] EXCEPT !.checked = {x}]
               inserts == [call[e] EXCEPT !.checked = {}, !.written = {x}]
    <3>1. checks.leads = call[e].leads /\ inserts.leads = call[e].leads
      BY <1>1 DEF Thread
    <3>2. (Check(e, x) => Becomes(e, checks)) /\ (Insert(e, x) => Becomes(e, inserts))
      BY DEF Check, Insert
    <3> HIDE DEF checks, inserts
    <3> QED BY <1>2, <3>1, <3>2
  <2> QED BY <2>1, <2>2, <2>3, <2>4, <2>5, <2>6, <2>7, <2>8
<1>6. ASSUME NEW e \in Caller, NEW x \in Request, RankLegacy(e, x)
      PROVE  CompleteSearch(c, r)
  <2>1. CASE CompleteSearch(e, x)
    BY <1>3, <1>6, <2>1 DEF RankLegacy
  <2>2. CASE Becomes(e, [call[e] EXCEPT !.result[x] = index])
    <3>1. [call[e] EXCEPT !.result[x] = index].leads = call[e].leads
      BY <1>1 DEF Thread
    <3> QED BY <1>2, <2>2, <3>1
  <2> QED BY <1>6, <2>1, <2>2 DEF RankLegacy
<1>7. ASSUME NEW e \in Caller, NEW x \in Request, Finish(e, x) \/ FailSearch(e, x)
      PROVE  CompleteSearch(c, r)
  BY <1>3, <1>7 DEF Finish, Handles, FailSearch
<1>8. ~RefreshContent /\ ~RefreshVectors
  BY DEF RefreshContent, RefreshVectors
<1> QED BY <1>5, <1>6, <1>7, <1>8 DEF Next, Step

(* The result of a search is handed to those who read the same content as the *)
(* thread that ran it, which found this content or a newer one: nobody gets   *)
(* what an older index said than the one it found when it began.              *)
THEOREM SearchNeverOlder ==
  Spec => NeverOlder
<1>1. ASSUME IInv, [Next]_vars, NEW c \in Caller, NEW d \in Caller, NEW r \in Request,
             r \in call[c].leads, r \notin call'[c].leads, call[c].result[r] # None,
             c = d \/ (r \in call[d].follows /\ r \notin call'[d].follows)
      PROVE  call[c].result[r].digest >= call[d].digest[r]
  <2>1. TypeOK /\ AllTimely
    BY <1>1 DEF IInv
  <2>2. Next
    BY <1>1 DEF vars
  <2>3. CompleteSearch(c, r)
    BY <1>1, <2>2, LeadsEnd
  <2>4. Forgets(c, r, d)
    BY <1>1, <2>3, CompleteSearchThreads
  <2>5. call[d].digest[r] = call[c].digest[r]
    BY <1>1, <2>4 DEF Forgets
  <2>6. call[c].digest[r] \in 0..MaxVersion /\ call[c].result[r] \in Index
    BY <1>1, <2>1, ThreadTypes
  <2> QED BY <1>1, <2>1, <2>5, <2>6 DEF AllTimely, Timely, Index
<1>2. IInv /\ [Next]_vars =>
        [\A c, d \in Caller, r \in Request :
           /\ r \in call[c].leads /\ r \notin call'[c].leads /\ call[c].result[r] # None
           /\ c = d \/ (r \in call[d].follows /\ r \notin call'[d].follows)
           => call[c].result[r].digest >= call[d].digest[r]]_vars
  BY <1>1
<1> QED BY <1>2, SpecIInv, PTL DEF Spec, NeverOlder
=============================================================================
