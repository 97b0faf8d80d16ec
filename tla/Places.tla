------------------------------- MODULE Places -------------------------------
(***************************************************************************)
(* PlacesService (places.service.ts): searching places at Naver and Kakao, *)
(* and finding the coordinates of a name at Naver.  Answers are kept in    *)
(* Redis, which all processes share; each process remembers for a short    *)
(* while what it was told (searchCache) and which keys Naver refused for   *)
(* now (rateLimitCache), and for the rest of its life that Naver does not  *)
(* know its key (naverUnauthorized).                                       *)
(*                                                                         *)
(* A step of a request ends with a call to Redis, to Naver or to Kakao, or *)
(* with the wait before the next try.  What an answer says is the instant  *)
(* at which it was given.                                                  *)
(***************************************************************************)
EXTENDS Integers, Sequences, FiniteSets

CONSTANTS
  Instances,    \* processes of the backend
  Requests,     \* calls of the service under way
  NaverKeys, KakaoKeys,  \* searches, named by their cache keys
  Fallbacks,    \* the searches of searchNaverPlaces for a type, not for words
  Names,        \* names whose coordinates are asked for
  Queries,      \* the queries of geocodeCity for a name: 6 in the code
  NaverTries, KakaoTries,
  MaxSize,      \* entries of a TTLCache
  Short, Long,  \* how long a TTLCache, and Redis, keep an answer
  Patience,     \* bound: how long a write to Redis takes
  MaxTime,      \* bound of the clock
  None

Keys    == NaverKeys \cup KakaoKeys
GeoKeys == Names \X (1 .. Queries)

\* The keys of searches and of coordinates begin differently.
ASSUME PlacesBounds ==
  /\ {NaverTries, KakaoTries, MaxSize, Queries} \subseteq Nat \ {0}
  /\ {Short, Long, Patience, MaxTime} \subseteq Nat
  /\ Fallbacks \subseteq NaverKeys /\ Keys \cap GeoKeys = {}

VARIABLES
  now,
  memory,       \* of each process: flags, recent, refused
  redis,        \* whether there is one; places by key, and the keys of geo
  req,
  wasted        \* history: calls of a request that its process knew to be refused

placesVars == <<now, memory, redis, req, wasted>>

NoAnswer == [at |-> 0, until |-> 0, full |-> FALSE]
Idle == [pc |-> "idle", inst |-> None, key |-> None, try |-> 1, at |-> 0, full |-> FALSE,
         age |-> 0, from |-> "none", text |-> None, token |-> None, name |-> None, query |-> 1, place |-> None,
         search |-> None, coords |-> None, rest |-> {}, part |-> "base"]

Empty == [flags |-> <<>>, recent |-> <<>>, refused |-> FALSE]

Goto(r, pc) == req' = [req EXCEPT ![r].pc = pc]

----------------------------------------------------------------------------
(* TTLCache: a Map, in the order in which its keys were first set           *)

Alive(cache, k) == {n \in DOMAIN cache : cache[n].key = k /\ now <= cache[n].until}

\* get deletes the entry of the key when it has expired.
Looked(cache, k) ==
  LET gone == {n \in DOMAIN cache : cache[n].key = k /\ cache[n].until < now}
      g    == CHOOSE n \in gone : TRUE
  IN  IF gone = {} THEN cache ELSE SubSeq(cache, 1, g - 1) \o SubSeq(cache, g + 1, Len(cache))

\* set makes room before it looks whether the key is there already, and a key that
\* is there keeps its place.
Put(cache, k) ==
  LET room  == IF Len(cache) >= MaxSize THEN Tail(cache) ELSE cache
      entry == [key |-> k, at |-> now, until |-> now + Short]
      same  == {n \in DOMAIN room : room[n].key = k}
  IN  IF same = {} THEN Append(room, entry)
      ELSE [n \in DOMAIN room |-> IF n \in same THEN entry ELSE room[n]]

Flag(i, k) == [memory EXCEPT ![i].flags = Put(@, k)]

----------------------------------------------------------------------------
(* searchNearby, searchNearbyKakao                                          *)

Tries(k) == IF k \in KakaoKeys THEN KakaoTries ELSE NaverTries

Answer(r, from, at, full) ==
  req' = [req EXCEPT ![r] =
            [Idle EXCEPT !.pc = IF full THEN "done" ELSE "empty", !.inst = req[r].inst,
                         !.key = req[r].key, !.full = full, !.from = from, !.age = now - at]]

\* The next turn of the loop, or its end.
Retry(r, pc, end) ==
  IF req[r].try < Tries(req[r].key) THEN req' = [req EXCEPT ![r].try = @ + 1, ![r].pc = pc]
  ELSE Goto(r, end)

\* A call begins: only Naver's keys are flagged, and what is remembered counts
\* only for a key that is.
Begin(r, i, k) ==
  LET m       == memory[i]
      flagged == k \in NaverKeys /\ Alive(m.flags, k) # {}
      hits    == IF flagged THEN Alive(m.recent, k) ELSE {}
      asked   == [Idle EXCEPT !.pc = "places", !.inst = i, !.key = k]
  IN  /\ memory' = [memory EXCEPT ![i].flags = IF k \in NaverKeys THEN Looked(@, k) ELSE @,
                                  ![i].recent = IF flagged THEN Looked(@, k) ELSE @]
      /\ req' = [req EXCEPT ![r] =
                   IF hits = {} THEN asked
                   ELSE LET e == m.recent[CHOOSE n \in hits : TRUE]
                        IN  [asked EXCEPT !.pc = "done", !.full = TRUE, !.from = "memory",
                                          !.age = now - e.at]]
      /\ UNCHANGED <<now, redis, wasted>>

SearchStart(r, i, k) == req[r].pc = "idle" /\ Begin(r, i, k)

\* searchNaverPlaces: without an answer for the words, one for the type.
FallbackStart(r, k) ==
  /\ req[r].pc = "empty" /\ req[r].key \in NaverKeys \ Fallbacks /\ k \in Fallbacks
  /\ Begin(r, req[r].inst, k)

\* An empty list of Kakao is kept, and found, like any other.
PlacesRead(r) ==
  LET hit == redis.places[req[r].key] IN
  /\ req[r].pc = "places"
  /\ IF redis.on /\ now < hit.until THEN Answer(r, "redis", hit.at, hit.full) ELSE Goto(r, "fetch")
  /\ UNCHANGED <<now, memory, redis, wasted>>

\* items, or documents.
FetchFinds(r) ==
  LET q == req[r] IN
  /\ q.pc = "fetch"
  /\ \E full \in BOOLEAN :
       /\ q.key \in NaverKeys => full
       /\ req' = [req EXCEPT ![r].pc = "keep", ![r].at = now, ![r].full = full]
  /\ memory' = IF q.key \in NaverKeys THEN [memory EXCEPT ![q.inst].recent = Put(@, q.key)] ELSE memory
  /\ UNCHANGED <<now, redis, wasted>>

\* 429, or the call throws: after a pause, the next try.
FetchAgain(r) ==
  LET q == req[r] IN
  /\ q.pc = "fetch" /\ Retry(r, "fetch", "empty")
  /\ memory' \in {memory} \cup (IF q.key \in NaverKeys THEN {Flag(q.inst, q.key)} ELSE {})
  /\ UNCHANGED <<now, redis, wasted>>

\* Another status, or no items at all.
FetchEmpty(r) ==
  /\ req[r].pc = "fetch" /\ Goto(r, "empty") /\ UNCHANGED <<now, memory, redis, wasted>>

\* Mutated form: what is kept is kept for ever.
KeepForEver(r) ==
  LET q == req[r] IN
  /\ q.pc = "keep" /\ Answer(r, "call", q.at, q.full)
  /\ redis' = IF redis.on
              THEN [redis EXCEPT !.places[q.key] = [at |-> q.at, until |-> MaxTime + 1, full |-> q.full]]
              ELSE redis
  /\ UNCHANGED <<now, memory, wasted>>

\* cachePlaces.
Keep(r) ==
  LET q == req[r] IN
  /\ q.pc = "keep" /\ Answer(r, "call", q.at, q.full)
  /\ redis' = IF redis.on
              THEN [redis EXCEPT !.places[q.key] = [at |-> q.at, until |-> now + Long, full |-> q.full]]
              ELSE redis
  /\ UNCHANGED <<now, memory, wasted>>

\* It throws inside the loop: the places that were found are asked for again.
KeepFails(r) ==
  /\ req[r].pc = "keep" /\ redis.on /\ Retry(r, "fetch", "empty")
  /\ UNCHANGED <<now, memory, redis, wasted>>

----------------------------------------------------------------------------
(* geocodeCity, geocodeLocation                                             *)

\* geocodeCity begins.
CityStart(r) ==
  /\ req[r].pc = "city"
  /\ Goto(r, IF memory[req[r].inst].refused THEN "lost" ELSE "key")
  /\ UNCHANGED <<now, memory, redis, wasted>>

\* geocodeLocation begins: a flagged key has no answer, not even the one in Redis.
GeoKey(r) ==
  LET q == req[r]  k == <<q.name, q.query>> IN
  /\ q.pc = "key"
  /\ memory' = [memory EXCEPT ![q.inst].flags = Looked(@, k)]
  /\ req' = [req EXCEPT ![r].pc = IF Alive(memory[q.inst].flags, k) # {} THEN "next" ELSE "geo",
                        ![r].key = k, ![r].try = 1]
  /\ UNCHANGED <<now, redis, wasted>>

\* What was kept is found unless it has expired.
GeoRead(r) ==
  LET k == req[r].key IN
  /\ req[r].pc = "geo"
  /\ \/ k \in redis.geo /\ Goto(r, "found") /\ UNCHANGED redis
     \/ Goto(r, "call") /\ redis' = [redis EXCEPT !.geo = @ \ {k}]
  /\ UNCHANGED <<now, memory, wasted>>

\* The call is counted when the process has been refused before.
Calls(r) ==
  wasted' = [wasted EXCEPT ![r] = IF memory[req[r].inst].refused THEN @ + 1 ELSE @]

GeoFinds(r) ==
  /\ req[r].pc = "call" /\ Goto(r, "geoKeep") /\ Calls(r) /\ UNCHANGED <<now, memory, redis>>

GeoNothing(r) ==
  /\ req[r].pc = "call" /\ Goto(r, "next") /\ Calls(r) /\ UNCHANGED <<now, memory, redis>>

\* 401.
GeoRefused(r) ==
  /\ req[r].pc = "call" /\ Goto(r, "next") /\ Calls(r)
  /\ memory' = [memory EXCEPT ![req[r].inst].refused = TRUE]
  /\ UNCHANGED <<now, redis>>

GeoAgain(r) ==
  LET q == req[r] IN
  /\ q.pc = "call" /\ Retry(r, "call", "next") /\ Calls(r)
  /\ memory' \in {memory, Flag(q.inst, q.key)}
  /\ UNCHANGED <<now, redis>>

GeoKeep(r) ==
  /\ req[r].pc = "geoKeep" /\ Goto(r, "found")
  /\ redis' = IF redis.on THEN [redis EXCEPT !.geo = @ \cup {req[r].key}] ELSE redis
  /\ UNCHANGED <<now, memory, wasted>>

GeoKeepFails(r) ==
  /\ req[r].pc = "geoKeep" /\ redis.on /\ Retry(r, "call", "next")
  /\ UNCHANGED <<now, memory, redis, wasted>>

\* Mutated form: the other queries of the name are tried, too.
GeoNextAnyway(r) ==
  LET q == req[r] IN
  /\ q.pc = "next"
  /\ req' = [req EXCEPT ![r] = IF q.query = Queries
                               THEN [q EXCEPT !.pc = "lost", !.key = None, !.try = 1, !.query = 1]
                               ELSE [q EXCEPT !.pc = "key", !.query = q.query + 1]]
  /\ UNCHANGED <<now, memory, redis, wasted>>

\* No coordinates: the next query of geocodeCity.
GeoNext(r) ==
  LET q == req[r] IN
  /\ q.pc = "next"
  /\ req' = [req EXCEPT ![r] = IF q.query = Queries \/ memory[q.inst].refused
                               THEN [q EXCEPT !.pc = "lost", !.key = None, !.try = 1, !.query = 1]
                               ELSE [q EXCEPT !.pc = "key", !.query = q.query + 1]]
  /\ UNCHANGED <<now, memory, redis, wasted>>

----------------------------------------------------------------------------
\* Redis throws where nothing catches it, or the answer has been used.
End(r) ==
  /\ \/ req[r].pc \in {"done", "empty"}
     \/ req[r].pc \in {"places", "geo"} /\ redis.on
  /\ req' = [req EXCEPT ![r] = Idle] /\ wasted' = [wasted EXCEPT ![r] = 0]
  /\ UNCHANGED <<now, memory, redis>>

\* A write to Redis does not take for ever.
Tick ==
  /\ now < MaxTime
  /\ \A r \in Requests : req[r].pc = "keep" => now - req[r].at < Patience
  /\ now' = now + 1 /\ UNCHANGED <<memory, redis, req, wasted>>

PlacesInit ==
  /\ now = 0 /\ req = [r \in Requests |-> Idle] /\ wasted = [r \in Requests |-> 0]

PlacesStep(r) ==
  \/ \E k \in Keys : FallbackStart(r, k)
  \/ PlacesRead(r) \/ FetchFinds(r) \/ FetchAgain(r) \/ FetchEmpty(r) \/ Keep(r) \/ KeepFails(r)
  \/ CityStart(r) \/ GeoKey(r) \/ GeoRead(r) \/ GeoFinds(r) \/ GeoNothing(r) \/ GeoRefused(r)
  \/ GeoAgain(r) \/ GeoKeep(r) \/ GeoKeepFails(r) \/ GeoNext(r) \/ End(r)

----------------------------------------------------------------------------
(***************************************************************************)
(* What a search answers is not older than the entry it may come from: out *)
(* of the memory of a process five minutes, out of Redis an hour and the   *)
(* time the slowest write of an entry takes, whichever searches overlapped *)
(* and however often a key was set again.                                  *)
(***************************************************************************)
AnswersFresh ==
  \A r \in Requests : req[r].pc = "done" =>
    req[r].age <= IF req[r].from = "memory" THEN Short ELSE Long + Patience

(***************************************************************************)
(* Once Naver has refused the key of a process, a request of that process  *)
(* that is looking for coordinates makes at most the calls of the query it *)
(* is at, whoever was refused (naverUnauthorized).                         *)
(***************************************************************************)
RefusedCallsBounded == \A r \in Requests : wasted[r] <= NaverTries
=============================================================================
