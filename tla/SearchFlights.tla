--------------------------- MODULE SearchFlights ---------------------------
(* Searches of the long-form authority index: search_many of                  *)
(* scripts/longform/authority.py, called by several threads, with the tables  *)
(* of futures it shares whole searches and query embeddings through, the      *)
(* caches behind them, and refresh, which replaces the index under the        *)
(* searches that run. What reranks share is left out: a rerank answers or     *)
(* fails.                                                                     *)
(*                                                                            *)
(* A future is completed and leaves its table in one critical section, so     *)
(* whoever waits for a key waits for the future now in the table. A step is   *)
(* one critical section, one statement or transaction on the index, or one    *)
(* provider call.                                                             *)
EXTENDS Naturals, FiniteSets

CONSTANTS
  Caller,      \* threads that search, each one search_many at a time
  Request,     \* what can be asked for: a query with its filters
  Query,       \* normalized queries
  QueryOf,     \* [Request -> Query]
  Batch,       \* the sets of requests one call may make
  MaxVersion,  \* bound: contents the index goes through, never the same twice
  Unembedded,  \* the contents that are first indexed without chunk vectors
  None         \* a search that has no result

ASSUME SearchAssumption ==
  /\ QueryOf \in [Request -> Query]
  /\ Batch \subseteq SUBSET Request
  /\ MaxVersion \in Nat
  /\ Unembedded \subseteq 0..MaxVersion

(* index_digest is a hash of the content; the chunk vectors are not part of   *)
(* it.                                                                        *)
Index == [digest : 0..MaxVersion, vectors : BOOLEAN]

ASSUME NoneAssumption == None \notin Index

VARIABLES
  index,          \* the authority index
  candidates,     \* rerank_candidate_cache
  vectors,        \* keys of _SHARED_QUERY_EMBEDDING_CACHE
  searchFlights,  \* keys of _SHARED_SEARCH_FLIGHTS
  embedFlights,   \* keys of _SHARED_QUERY_EMBEDDING_FLIGHTS
  call            \* [Caller -> local variables of search_many]

caches == <<candidates, vectors>>
flights == <<searchFlights, embedFlights>>
vars == <<index, caches, flights, call>>

(* A cached row: its key, and the index its result was computed from.         *)
Candidate == [request : Request, digest : 0..MaxVersion, from : Index]

Thread ==
  [pc       : {"idle", "search", "fail"},
   asked    : SUBSET Request,               \* not looked at yet
   missed   : SUBSET Request,               \* not found in the cache just now
   digest   : [Request -> 0..MaxVersion],   \* index_digest read for a request
   leads    : SUBSET Request,               \* searches this call has to complete
   follows  : SUBSET Request,               \* searches it waits for
   look     : SUBSET Query,                 \* queries not looked up yet
   embeds   : SUBSET Query,                 \* embeddings this call has to complete
   awaits   : SUBSET Query,                 \* embeddings it waits for
   lost     : SUBSET Query,                 \* embeddings that failed
   checked  : SUBSET Request,               \* found fit for the cache just now
   written  : SUBSET Request,               \* put into the cache just now
   result   : [Request -> Index \cup {None}]] \* the index the result comes from

Idle ==
  [pc |-> "idle", asked |-> {}, missed |-> {}, digest |-> [r \in Request |-> 0],
   leads |-> {}, follows |-> {}, look |-> {}, embeds |-> {}, awaits |-> {}, lost |-> {},
   checked |-> {}, written |-> {}, result |-> [r \in Request |-> None]]

(* The key of a search leaves out the index.                                  *)
SearchKey_AnyIndex(r, digest) == <<r, 0>>

(* _candidate_cache_key                                                       *)
SearchKey(r, digest) == <<r, digest>>

TypeOK ==
  /\ index \in Index
  /\ candidates \subseteq Candidate
  /\ vectors \subseteq Query
  /\ searchFlights \subseteq Request \X (0..MaxVersion)
  /\ embedFlights \subseteq Query
  /\ call \in [Caller -> Thread]

Init ==
  /\ index = [digest |-> 0, vectors |-> 0 \notin Unembedded]
  /\ candidates = {} /\ vectors = {}
  /\ searchFlights = {} /\ embedFlights = {}
  /\ call = [c \in Caller |-> Idle]

At(c, pc) == call[c].pc = pc
Becomes(c, thread) == call' = [call EXCEPT ![c] = thread]
KeyOf(c, r) == SearchKey(r, call[c].digest[r])

-----------------------------------------------------------------------------
(* refresh: one transaction.                                                  *)

(* New content; the embedding of its chunks may have failed.                  *)
RefreshContent ==
  /\ index.digest < MaxVersion
  /\ index' = [digest |-> index.digest + 1, vectors |-> index.digest + 1 \notin Unembedded]
  /\ candidates' = {}
  /\ UNCHANGED <<vectors, flights, call>>

(* The content is as it was, and vectors that were missing can be had now.    *)
RefreshVectors ==
  /\ ~index.vectors
  /\ index' = [index EXCEPT !.vectors = TRUE]
  /\ candidates' = {}
  /\ UNCHANGED <<vectors, flights, call>>

-----------------------------------------------------------------------------
(* search_many: the requests that have to be searched.                        *)

Start(c) ==
  /\ At(c, "idle")
  /\ \E asked \in Batch :
       Becomes(c, [Idle EXCEPT !.pc = "search", !.asked = asked])
  /\ UNCHANGED <<index, caches, flights>>

(* _read_candidate_cache: a hit is the result. A row may be missed although   *)
(* it was there when the digest was read: the request may not use the cache,  *)
(* and the rows are read by a second statement, after a refresh perhaps.      *)
ReadCandidates(c, r) ==
  /\ At(c, "search") /\ r \in call[c].asked /\ call[c].missed = {}
  /\ \/ /\ \E row \in candidates : row.request = r /\ row.digest = index.digest
        /\ Becomes(c, [call[c] EXCEPT !.asked = @ \ {r}])
     \/ Becomes(c, [call[c] EXCEPT !.asked = @ \ {r}, !.missed = {r},
                                   !.digest[r] = index.digest])
  /\ UNCHANGED <<index, caches, flights>>

(* The search of this request that runs already is joined, if there is one.   *)
Enlist(c, r) ==
  /\ At(c, "search") /\ r \in call[c].missed
  /\ IF KeyOf(c, r) \in searchFlights
     THEN /\ Becomes(c, [call[c] EXCEPT !.missed = {}, !.follows = @ \cup {r}])
          /\ UNCHANGED searchFlights
     ELSE /\ Becomes(c, [call[c] EXCEPT !.missed = {}, !.leads = @ \cup {r},
                                        !.look = @ \cup {QueryOf[r]}])
          /\ searchFlights' = searchFlights \cup {KeyOf(c, r)}
  /\ UNCHANGED <<index, caches, embedFlights>>

Enlisted(c) == At(c, "search") /\ call[c].asked = {} /\ call[c].missed = {}

(* _complete_search_flight: the future leaves the table, and c and whoever    *)
(* waits have the result, or the error, and forget about r.                   *)
CompleteSearch(c, r) ==
  /\ searchFlights' = searchFlights \ {KeyOf(c, r)}
  /\ call' = [d \in Caller |->
       IF d = c \/ (r \in call[d].follows /\ KeyOf(d, r) = KeyOf(c, r))
       THEN [call[d] EXCEPT !.leads = @ \ {r}, !.follows = @ \ {r},
                            !.checked = @ \ {r}, !.written = @ \ {r},
                            !.digest[r] = 0, !.result[r] = None]
       ELSE call[d]]

-----------------------------------------------------------------------------
(* _query_embeddings                                                          *)

(* A query that another call embeds is embedded once more.                    *)
LookUp_Alone(c, q) ==
  /\ Enlisted(c) /\ q \in call[c].look
  /\ Becomes(c, IF q \in vectors THEN [call[c] EXCEPT !.look = @ \ {q}]
                ELSE [call[c] EXCEPT !.look = @ \ {q}, !.embeds = @ \cup {q}])
  /\ embedFlights' = IF q \in vectors THEN embedFlights ELSE embedFlights \cup {q}
  /\ UNCHANGED <<index, caches, searchFlights>>

(* A query found in neither cache nor table is embedded by this call.         *)
LookUp(c, q) ==
  /\ Enlisted(c) /\ q \in call[c].look
  /\ IF q \in vectors
     THEN /\ Becomes(c, [call[c] EXCEPT !.look = @ \ {q}])
          /\ UNCHANGED embedFlights
     ELSE IF q \in embedFlights
     THEN /\ Becomes(c, [call[c] EXCEPT !.look = @ \ {q}, !.awaits = @ \cup {q}])
          /\ UNCHANGED embedFlights
     ELSE /\ Becomes(c, [call[c] EXCEPT !.look = @ \ {q}, !.embeds = @ \cup {q}])
          /\ embedFlights' = embedFlights \cup {q}
  /\ UNCHANGED <<index, caches, searchFlights>>

(* _complete_embedding_flight, when the provider answered q or failed on it.  *)
(* Only an answer is cached.                                                  *)
CompleteEmbedding(c, q, ok) ==
  /\ vectors' = IF ok THEN vectors \cup {q} ELSE vectors
  /\ embedFlights' = embedFlights \ {q}
  /\ LET told(t) == [t EXCEPT !.lost = IF ok THEN @ ELSE @ \cup {q}]
     IN call' = [d \in Caller |->
          IF d = c THEN told([call[c] EXCEPT !.embeds = @ \ {q}])
          ELSE IF q \in call[d].awaits THEN told([call[d] EXCEPT !.awaits = @ \ {q}])
          ELSE call[d]]

(* A call waits for the others before it has done its own.                    *)
Embed_AwaitsFirst(c, q) ==
  /\ Enlisted(c) /\ call[c].look = {} /\ q \in call[c].embeds
  /\ call[c].awaits = {}
  /\ \E ok \in BOOLEAN : CompleteEmbedding(c, q, ok)
  /\ UNCHANGED <<index, candidates, searchFlights>>

(* One query of a batch. Batches, and the single calls when a batch fails,    *)
(* only decide in how many calls the queries are sent.                        *)
Embed(c, q) ==
  /\ Enlisted(c) /\ call[c].look = {} /\ q \in call[c].embeds
  /\ \E ok \in BOOLEAN : CompleteEmbedding(c, q, ok)
  /\ UNCHANGED <<index, candidates, searchFlights>>

(* Every embedding is there, or known to have failed.                         *)
Embedded(c) ==
  Enlisted(c) /\ call[c].look = {} /\ call[c].embeds = {} /\ call[c].awaits = {}

-----------------------------------------------------------------------------
(* search_many: the results.                                                  *)

(* _search_legacy reads the index of the moment, whatever digest was read.    *)
RankLegacy(c, r) ==
  /\ Embedded(c) /\ r \in call[c].leads /\ call[c].result[r] = None
  /\ \/ /\ Becomes(c, [call[c] EXCEPT !.result[r] = index])
        /\ UNCHANGED searchFlights
     \/ CompleteSearch(c, r)
  /\ UNCHANGED <<index, caches, embedFlights>>

Ranked(c) == Embedded(c) /\ \A r \in call[c].leads : call[c].result[r] # None

(* The write does not look whether the index changed.                         *)
MayCache_Blindly(c, r) == TRUE

(* The check of _write_candidate_cache.                                       *)
MayCache(c, r) == index.digest = call[c].digest[r]

(* A call takes its answers one by one.                                       *)
Handles(c, r) ==
  /\ Ranked(c) /\ r \in call[c].leads
  /\ call[c].checked \cup call[c].written \subseteq {r}

(* The reranker answered, the search is whole, and the index is still the one *)
(* it was asked of: a statement of its own, before the one that inserts.      *)
Check(c, r) ==
  /\ Handles(c, r) /\ r \notin call[c].checked \cup call[c].written
  /\ QueryOf[r] \notin call[c].lost
  /\ MayCache(c, r)
  /\ Becomes(c, [call[c] EXCEPT !.checked = {r}])
  /\ UNCHANGED <<index, caches, flights>>

(* INSERT ... ON CONFLICT DO UPDATE, whatever the index has become.           *)
Insert(c, r) ==
  /\ Ranked(c) /\ r \in call[c].checked
  /\ candidates' =
       {row \in candidates : row.request # r \/ row.digest # call[c].digest[r]}
         \cup {[request |-> r, digest |-> call[c].digest[r], from |-> call[c].result[r]]}
  /\ Becomes(c, [call[c] EXCEPT !.checked = {}, !.written = {r}])
  /\ UNCHANGED <<index, vectors, flights>>

(* The answer, or the error, is handed to those who wait for it: after the    *)
(* row was inserted, when it was not to be, or when that failed.              *)
Finish(c, r) ==
  /\ Handles(c, r)
  /\ CompleteSearch(c, r)
  /\ UNCHANGED <<index, caches, embedFlights>>

(* Followed searches are waited for last.                                     *)
Return(c) ==
  /\ Enlisted(c) /\ call[c].leads = {} /\ call[c].follows = {}
  /\ Becomes(c, Idle)
  /\ UNCHANGED <<index, caches, flights>>

-----------------------------------------------------------------------------
(* An interrupt or an unexpected error while the searches run: what the call  *)
(* has to complete is all that still matters.                                 *)

Interrupt(c) ==
  /\ At(c, "search")
  /\ Becomes(c, [Idle EXCEPT !.pc = "fail", !.digest = call[c].digest,
                            !.leads = call[c].leads, !.embeds = call[c].embeds])
  /\ UNCHANGED <<index, caches, flights>>

(* The embeddings this call still has to complete fail.                       *)
FailEmbedding(c, q) ==
  /\ At(c, "fail") /\ q \in call[c].embeds
  /\ CompleteEmbedding(c, q, FALSE)
  /\ UNCHANGED <<index, candidates, searchFlights>>

(* So do its searches.                                                        *)
FailSearch(c, r) ==
  /\ At(c, "fail") /\ r \in call[c].leads /\ call[c].embeds = {}
  /\ CompleteSearch(c, r)
  /\ UNCHANGED <<index, caches, embedFlights>>

(* The error handler of the enlisting phase only completes the last search.   *)
Raise_Early(c) ==
  /\ At(c, "fail") /\ call[c].embeds = {} /\ Cardinality(call[c].leads) <= 1
  /\ Becomes(c, Idle)
  /\ UNCHANGED <<index, caches, flights>>

Raise(c) ==
  /\ At(c, "fail") /\ call[c].embeds = {} /\ call[c].leads = {}
  /\ Becomes(c, Idle)
  /\ UNCHANGED <<index, caches, flights>>

-----------------------------------------------------------------------------
(* What the threads of a search do once it has begun.                         *)
Step(c) ==
  \/ \E r \in Request : \/ ReadCandidates(c, r) \/ Enlist(c, r) \/ RankLegacy(c, r)
                       \/ Check(c, r) \/ Insert(c, r) \/ Finish(c, r)
                       \/ FailSearch(c, r)
  \/ \E q \in Query : LookUp(c, q) \/ Embed(c, q) \/ FailEmbedding(c, q)
  \/ Return(c) \/ Raise(c)

Next ==
  \/ RefreshContent \/ RefreshVectors
  \/ \E c \in Caller : Start(c) \/ Step(c) \/ Interrupt(c)

Spec == Init /\ [][Next]_vars

(* Threads are scheduled and providers answer or fail; nothing makes anyone   *)
(* search, refresh or interrupt.                                              *)
FairSpec == Spec /\ \A c \in Caller : WF_vars(Step(c))

-----------------------------------------------------------------------------
(* Properties                                                                 *)

(* Whoever waits is answered: what is in a table is being completed by a     *)
(* call that is still at it, and nobody waits for what is in no table.        *)
EveryFlightIsLed ==
  /\ searchFlights = UNION {{KeyOf(c, r) : r \in call[c].leads} : c \in Caller}
  /\ embedFlights = UNION {call[c].embeds : c \in Caller}
  /\ \A c \in Caller :
       /\ \A r \in call[c].follows : KeyOf(c, r) \in searchFlights
       /\ call[c].awaits \subseteq embedFlights

(* Nothing is embedded twice: a query that is being embedded is not in the    *)
(* cache, and no second call embeds it.                                       *)
EmbeddedOnce ==
  /\ embedFlights \cap vectors = {}
  /\ \A c, d \in Caller : c # d => call[c].embeds \cap call[d].embeds = {}

(* A search never returns what an older index said than the one it found when *)
(* it began, whichever call c computed the result that d gets.                *)
NeverOlder ==
  [][\A c, d \in Caller, r \in Request :
       /\ r \in call[c].leads /\ r \notin call'[c].leads /\ call[c].result[r] # None
       /\ c = d \/ (r \in call[d].follows /\ r \notin call'[d].follows)
       => call[c].result[r].digest >= call[d].digest[r]]_vars

(* A row of rerank_candidate_cache holds what the content it is filed under   *)
(* says, so a hit is of the index the reader found: the index may be replaced *)
(* between ranking, check and insert, and a row inserted late outlives the    *)
(* refresh that empties the cache. (An index that came back to an earlier     *)
(* content would defeat the check.)                                           *)
CandidatesMatchTheirKey == \A row \in candidates : row.from.digest = row.digest

(* Every search ends, whatever it shares with others that wait for it.        *)
EverySearchEnds == \A c \in Caller : []<>At(c, "idle")
=============================================================================
