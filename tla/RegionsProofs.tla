---------------------------- MODULE RegionsProofs ----------------------------
(***************************************************************************)
(* Proofs about Regions and Places: for any processes, requests, keys,     *)
(* texts, tries and lives of the entries.                                  *)
(***************************************************************************)
EXTENDS Regions, SequenceTheorems, TLAPS

-----------------------------------------------------------------------------
(* The invariant                                                            *)

Fields == {"pc", "inst", "key", "try", "at", "full", "age", "from", "text", "token", "name",
           "query", "place", "search", "coords", "rest", "part"}

Record(q) == q = [f \in Fields |-> q[f]]

Searching == {"places", "fetch", "keep", "done", "empty"}
Calling   == {"geo", "call", "geoKeep"}
Looking   == {"city", "key", "next", "lost"} \cup Calling
Locating  == Looking \cup {"found", "located"}

Texts == UNION {p.texts : p \in Parts}

\* Where a plan for a text may be made.
Named(t)  == {t.names[n] : n \in DOMAIN t.names}
Sites(t) == (Named(t) \ {None}) \cup {Seoul}

\* A request whose answer is on its way, at an instant: what it found is no older
\* than a write may take, and what it answers than the place it comes from allows.
FreshRequest(q, instant) ==
    /\ q.pc = "keep" => q.at \in Nat /\ q.at <= instant /\ instant <= q.at + Patience /\ q.full \in BOOLEAN
    /\ q.pc = "done" => q.age <= IF q.from = "memory" THEN Short ELSE Long + Patience

\* A request that made w calls after its process was refused: only the calls of the
\* query it is at.
FewCalls(q, w, refused) ==
    /\ w \in Nat /\ w <= NaverTries
    /\ q.pc \notin Locating \/ q.pc \in {"key", "geo"} => w = 0
    /\ w > 0 => refused
    /\ q.pc \in Calling => q.try \in 1 .. NaverTries
    /\ q.pc = "call" => w < q.try
    /\ q.pc = "geoKeep" => w <= q.try

\* A request that looks for places of its text, and nothing else.
NamedPlace(q) ==
    /\ q.pc \in Looking \cup {"found"} =>
         /\ q.text \in Texts /\ q.name \in Sites(q.text) /\ q.query \in 1 .. Queries
         /\ q.part \in {"base", "anchor"} /\ (q.part = "anchor" => q.place \in Sites(q.text))
         /\ \A n \in q.rest : n \in DOMAIN q.text.names /\ q.text.names[n] \in Registry
         /\ q.token # None /\ q.part = "base" => q.token \in Words /\ q.rest = {} /\ q.name \in {q.token, Seoul}
    /\ q.pc \in Looking => q.coords = None
    /\ q.pc \in Calling \/ (q.pc = "found" /\ q.coords = None) => q.key = <<q.name, q.query>>
    /\ q.pc = "found" /\ q.coords # None => q.coords = q.name
    /\ q.pc = "located" => /\ {q.place, q.search} \subseteq Sites(q.text)
                           /\ q.coords \in ({q.search} \X (1 .. Queries)) \cup {q.search}

RequestOK(q) ==
    /\ Record(q)
    /\ q.pc \in {"idle"} \cup Searching \cup Locating
    /\ q.pc # "idle" => q.inst \in Instances
    /\ q.pc \in Searching => q.key \in Keys

\* What a process remembers.
Entries(instant) ==
    {e \in [key : Keys, at : Nat, until : Nat] : e.at <= instant /\ e.until = e.at + Short}

MemoryOK ==
    /\ memory = [i \in Instances |-> memory[i]]
    /\ \A i \in Instances :
         /\ memory[i] = [flags |-> memory[i].flags, recent |-> memory[i].recent, refused |-> memory[i].refused]
         /\ memory[i].recent \in Seq(Entries(now)) /\ memory[i].refused \in BOOLEAN

\* What Redis keeps.
Kept(instant) ==
    {e \in [at : Nat, until : Nat, full : BOOLEAN] : e.at <= instant /\ e.until <= e.at + Long + Patience}

RedisOK ==
    /\ redis = [on |-> redis.on, places |-> redis.places, geo |-> redis.geo,
                count |-> redis.count, alias |-> redis.alias]
    /\ redis.places \in [Keys -> Kept(now)]
    /\ redis.alias = [w \in Words |-> redis.alias[w]]
    /\ \A w \in Words : redis.alias[w] \notin Registry

\* A word that is learnt is learnt to mean itself.
LearningOK ==
    /\ learn = [r \in Requests |-> learn[r]]
    /\ \A r \in Requests :
         /\ learn[r] = [pc |-> learn[r].pc, inst |-> learn[r].inst, word |-> learn[r].word, to |-> learn[r].to]
         /\ learn[r].pc # "idle" => learn[r].inst \in Instances /\ learn[r].word \in Words /\ learn[r].to \in Words

NothingLearnt == known = [i \in Instances |-> NoAlias]

\* What holds of one request.
Good(q, w, refused, instant) ==
    RequestOK(q) /\ FreshRequest(q, instant) /\ NamedPlace(q) /\ FewCalls(q, w, refused)

RefusedTo(q) == q.inst \in Instances /\ memory[q.inst].refused

RequestsGood ==
    /\ req = [r \in Requests |-> req[r]] /\ wasted = [r \in Requests |-> wasted[r]]
    /\ \A r \in Requests : Good(req[r], wasted[r], RefusedTo(req[r]), now)

RegionInv ==
    /\ now \in Nat /\ part \in Parts
    /\ RequestsGood /\ MemoryOK /\ RedisOK /\ LearningOK /\ NothingLearnt

-----------------------------------------------------------------------------
(* What the caches keep                                                     *)

(***************************************************************************)
(* What get leaves of a cache was in it (TTLCache.get).                    *)
(***************************************************************************)
LEMMA LookedKeeps ==
  ASSUME NEW S, NEW cache \in Seq(S), NEW k
  PROVE  Looked(cache, k) \in Seq(S)
<1> DEFINE gone == {n \in DOMAIN cache : cache[n].key = k /\ cache[n].until < now}
           g    == CHOOSE n \in gone : TRUE
<1>1. CASE gone = {}
  BY <1>1 DEF Looked
<1>2. CASE gone # {}
  <2>1. g \in 1 .. Len(cache)
    BY <1>2
  <2> HIDE DEF g
  <2>2. SubSeq(cache, 1, g - 1) \in Seq(S) /\ SubSeq(cache, g + 1, Len(cache)) \in Seq(S)
    BY <2>1, SubSeqProperties
  <2>3. SubSeq(cache, 1, g - 1) \o SubSeq(cache, g + 1, Len(cache)) \in Seq(S)
    BY <2>2, ConcatProperties
  <2> QED BY <1>2, <2>3 DEF Looked, g
<1> QED BY <1>1, <1>2

(***************************************************************************)
(* What set puts into a cache is the new entry, and nothing else           *)
(* (TTLCache.set).                                                         *)
(***************************************************************************)
LEMMA PutAdds ==
  ASSUME now \in Nat, NEW cache \in Seq(Entries(now)), NEW k \in Keys
  PROVE  Put(cache, k) \in Seq(Entries(now))
<1> DEFINE room  == IF Len(cache) >= MaxSize THEN Tail(cache) ELSE cache
           entry == [key |-> k, at |-> now, until |-> now + Short]
           same  == {n \in DOMAIN room : room[n].key = k}
           again == [n \in DOMAIN room |-> IF n \in same THEN entry ELSE room[n]]
<1>1. entry \in Entries(now)
  BY PlacesBounds DEF Entries
<1>2. room \in Seq(Entries(now))
  <2>1. CASE Len(cache) >= MaxSize
    <3>1. Len(cache) \in Nat /\ MaxSize \in Nat /\ MaxSize > 0
      BY LenProperties, PlacesBounds
    <3>2. cache # << >>
      BY <2>1, <3>1
    <3> QED BY <2>1, <3>2, HeadTailProperties
  <2>2. CASE ~(Len(cache) >= MaxSize)
    BY <2>2
  <2> QED BY <2>1, <2>2
<1> HIDE DEF room, entry
<1>3. Append(room, entry) \in Seq(Entries(now))
  BY <1>1, <1>2, AppendProperties
<1>4. again \in Seq(Entries(now))
  <2>1. Len(room) \in Nat /\ DOMAIN room = 1 .. Len(room)
    BY <1>2, LenProperties
  <2>2. \A n \in 1 .. Len(room) : room[n] \in Entries(now)
    BY <1>2, ElementOfSeq
  <2>3. again \in [1 .. Len(room) -> Entries(now)]
    BY <1>1, <2>1, <2>2
  <2> QED BY <2>1, <2>3, IsASeq
<1> QED BY <1>3, <1>4 DEF Put, room, entry

(***************************************************************************)
(* What was remembered stays acceptable as the time passes.                *)
(***************************************************************************)
LEMMA EntriesStay ==
  ASSUME now \in Nat, NEW cache \in Seq(Entries(now))
  PROVE  cache \in Seq(Entries(now + 1))
<1>1. Entries(now) \subseteq Entries(now + 1)
  BY DEF Entries
<1>2. Len(cache) \in Nat /\ cache \in [1 .. Len(cache) -> Entries(now)]
  BY LenProperties
<1>3. cache \in [1 .. Len(cache) -> Entries(now + 1)]
  BY <1>1, <1>2
<1> QED BY <1>2, <1>3, IsASeq

(***************************************************************************)
(* The tries of a key: of coordinates, those of Naver; at least one, and   *)
(* never anything but a number.                                            *)
(***************************************************************************)
LEMMA TriesKnown ==
  ASSUME NEW k
  PROVE  /\ Tries(k) \in Nat \ {0} /\ NaverTries \in Nat \ {0}
         /\ k \in GeoKeys => Tries(k) = NaverTries
BY PlacesBounds DEF Tries, Keys

-----------------------------------------------------------------------------
(* What a step does to the requests                                         *)

LEMMA IdleFields ==
  /\ Record(Idle) /\ Idle.pc = "idle" /\ Idle.try = 1 /\ Idle.query = 1 /\ Idle.part = "base"
  /\ Idle.coords = None /\ Idle.rest = {} /\ Idle.token = None /\ Idle.key = None
BY DEF Idle, Record, Fields

LEMMA IdleGood ==
  ASSUME NEW refused, NEW instant  PROVE Good(Idle, 0, refused, instant)
<1>1. 0 <= NaverTries /\ 0 \in Nat
  BY PlacesBounds
<1> QED BY <1>1, IdleFields DEF Good, RequestOK, FreshRequest, NamedPlace, FewCalls, Searching, Locating, Looking, Calling

(***************************************************************************)
(* A request that goes to another step, at the same or another try, keeps  *)
(* the rest of its record.                                                 *)
(***************************************************************************)
Follows(p, q, pc, try) ==
  /\ Record(p) /\ p.pc = pc /\ p.try = try /\ p.inst = q.inst /\ p.key = q.key
  /\ p.at = q.at /\ p.full = q.full /\ p.age = q.age /\ p.from = q.from /\ p.text = q.text
  /\ p.token = q.token /\ p.name = q.name /\ p.query = q.query /\ p.place = q.place
  /\ p.search = q.search /\ p.coords = q.coords /\ p.rest = q.rest /\ p.part = q.part

LEMMA Moved ==
  ASSUME NEW q, Record(q), NEW pc  PROVE Follows([q EXCEPT !.pc = pc], q, pc, q.try)
BY DEF Record, Fields, Follows

LEMMA TriedAgain ==
  ASSUME NEW q, Record(q), NEW pc
  PROVE  Follows([q EXCEPT !.try = q.try + 1, !.pc = pc], q, pc, q.try + 1)
BY DEF Record, Fields, Follows

(***************************************************************************)
(* A step of one request, which leaves the clock alone: it is enough to    *)
(* look at that request.                                                   *)
(***************************************************************************)
LEMMA OneRequest ==
  ASSUME RequestsGood, NEW r \in Requests, NEW q, NEW w, now' = now,
         req' = [req EXCEPT ![r] = q], wasted' = [wasted EXCEPT ![r] = w],
         \A i \in Instances : memory[i].refused => memory'[i].refused,
         Good(q, w, q.inst \in Instances /\ memory'[q.inst].refused, now)
  PROVE  RequestsGood'
<1>1. req' = [s \in Requests |-> req'[s]] /\ wasted' = [s \in Requests |-> wasted'[s]]
  BY DEF RequestsGood
<1>2. req'[r] = q /\ wasted'[r] = w
  BY DEF RequestsGood
<1>3. ASSUME NEW s \in Requests, s # r
      PROVE  Good(req'[s], wasted'[s], req'[s].inst \in Instances /\ memory'[req'[s].inst].refused, now)
  <2>1. req'[s] = req[s] /\ wasted'[s] = wasted[s]
    BY <1>3 DEF RequestsGood
  <2>2. Good(req[s], wasted[s], RefusedTo(req[s]), now)
    BY DEF RequestsGood
  <2>3. RefusedTo(req[s]) => req[s].inst \in Instances /\ memory'[req[s].inst].refused
    BY DEF RefusedTo
  <2> QED BY <2>1, <2>2, <2>3 DEF Good, FewCalls
<1>4. ASSUME NEW s \in Requests
      PROVE  Good(req'[s], wasted'[s], req'[s].inst \in Instances /\ memory'[req'[s].inst].refused, now')
  BY <1>2, <1>3
<1> QED BY <1>1, <1>4 DEF RequestsGood, RefusedTo

LEMMA CallsCounted ==
  ASSUME RequestsGood, NEW r \in Requests
  PROVE  wasted = [wasted EXCEPT ![r] = wasted[r]] /\ req = [req EXCEPT ![r] = req[r]]
BY DEF RequestsGood

LEMMA OneUncounted ==
  ASSUME RequestsGood, NEW r \in Requests, NEW q, now' = now,
         req' = [req EXCEPT ![r] = q], wasted' = wasted,
         \A i \in Instances : memory[i].refused => memory'[i].refused,
         Good(q, wasted[r], q.inst \in Instances /\ memory'[q.inst].refused, now)
  PROVE  RequestsGood'
<1> DEFINE w == wasted[r]
<1>1. wasted' = [wasted EXCEPT ![r] = w]
  BY CallsCounted
<1>2. Good(q, w, q.inst \in Instances /\ memory'[q.inst].refused, now)
  OBVIOUS
<1> HIDE DEF w
<1> QED BY <1>1, <1>2, OneRequest

LEMMA OneEnds ==
  ASSUME RequestsGood, NEW r \in Requests, now' = now, memory' = memory,
         req' = [req EXCEPT ![r] = Idle], wasted' = [wasted EXCEPT ![r] = 0]
  PROVE  RequestsGood'
<1> DEFINE w == 0
<1>1. Good(Idle, w, Idle.inst \in Instances /\ memory'[Idle.inst].refused, now)
  BY IdleGood
<1>2. wasted' = [wasted EXCEPT ![r] = w]
  OBVIOUS
<1>3. \A i \in Instances : memory[i].refused => memory'[i].refused
  OBVIOUS
<1> HIDE DEF w
<1> QED BY <1>1, <1>2, <1>3, OneRequest

-----------------------------------------------------------------------------
(* A request goes to another step, or tries again                           *)

LEMMA GotoFollows ==
  ASSUME RequestsGood, NEW r \in Requests, NEW pc, Goto(r, pc)
  PROVE  \E p : req' = [req EXCEPT ![r] = p] /\ Follows(p, req[r], pc, req[r].try)
<1>1. Follows([req[r] EXCEPT !.pc = pc], req[r], pc, req[r].try)
  BY Moved DEF RequestsGood, Good, RequestOK
<1>2. req' = [req EXCEPT ![r] = [req[r] EXCEPT !.pc = pc]]
  BY DEF Goto
<1> QED BY <1>1, <1>2

LEMMA RetryFollows ==
  ASSUME RequestsGood, NEW r \in Requests, NEW pc, NEW end, Retry(r, pc, end)
  PROVE  \E p : /\ req' = [req EXCEPT ![r] = p]
                /\ \/ Follows(p, req[r], end, req[r].try)
                   \/ Follows(p, req[r], pc, req[r].try + 1) /\ req[r].try < Tries(req[r].key)
<1>1. req = [s \in Requests |-> req[s]] /\ Record(req[r])
  BY DEF RequestsGood, Good, RequestOK
<1>2. CASE req[r].try < Tries(req[r].key)
  <2> DEFINE p == [req[r] EXCEPT !.try = req[r].try + 1, !.pc = pc]
  <2>1. Follows(p, req[r], pc, req[r].try + 1)
    BY <1>1, TriedAgain
  <2>2. req' = [req EXCEPT ![r] = p]
    BY <1>1, <1>2 DEF Retry
  <2> HIDE DEF p
  <2> QED BY <1>2, <2>1, <2>2
<1>3. CASE ~(req[r].try < Tries(req[r].key))
  <2>1. Goto(r, end)
    BY <1>3 DEF Retry
  <2> QED BY <2>1, GotoFollows
<1> QED BY <1>2, <1>3

(***************************************************************************)
(* What a process remembers, when only flags are set or taken, or when a   *)
(* search is remembered: it stays well formed, and refused.                *)
(***************************************************************************)
LEMMA FlagsOnly ==
  ASSUME MemoryOK, NEW i \in Instances, NEW flags, memory' = [memory EXCEPT ![i].flags = flags], now' = now
  PROVE  MemoryOK' /\ \A j \in Instances : memory[j].refused => memory'[j].refused
<1>1. memory' = [j \in Instances |-> memory'[j]]
  BY DEF MemoryOK
<1>2. ASSUME NEW j \in Instances
      PROVE  /\ memory'[j] = [flags |-> memory'[j].flags, recent |-> memory'[j].recent,
                              refused |-> memory'[j].refused]
             /\ memory'[j].recent = memory[j].recent /\ memory'[j].refused = memory[j].refused
  <2>1. memory[j] = [flags |-> memory[j].flags, recent |-> memory[j].recent, refused |-> memory[j].refused]
    BY DEF MemoryOK
  <2>2. CASE j = i
    BY <2>1, <2>2 DEF MemoryOK
  <2>3. CASE j # i
    BY <2>1, <2>3 DEF MemoryOK
  <2> QED BY <2>2, <2>3
<1>3. ASSUME NEW j \in Instances
      PROVE  memory'[j].recent \in Seq(Entries(now')) /\ memory'[j].refused \in BOOLEAN
  BY <1>2 DEF MemoryOK
<1> QED BY <1>1, <1>2, <1>3 DEF MemoryOK

LEMMA RecentToo ==
  ASSUME MemoryOK, NEW i \in Instances, NEW flags, NEW recent \in Seq(Entries(now)), now' = now,
         memory' = [memory EXCEPT ![i].flags = flags, ![i].recent = recent]
  PROVE  MemoryOK' /\ \A j \in Instances : memory[j].refused => memory'[j].refused
<1>1. memory' = [j \in Instances |-> memory'[j]]
  BY DEF MemoryOK
<1>2. ASSUME NEW j \in Instances
      PROVE  /\ memory'[j] = [flags |-> memory'[j].flags, recent |-> memory'[j].recent,
                              refused |-> memory'[j].refused]
             /\ memory'[j].recent = (IF j = i THEN recent ELSE memory[j].recent)
             /\ memory'[j].refused = memory[j].refused
  <2>1. memory[j] = [flags |-> memory[j].flags, recent |-> memory[j].recent, refused |-> memory[j].refused]
    BY DEF MemoryOK
  <2>2. CASE j = i
    BY <2>1, <2>2 DEF MemoryOK
  <2>3. CASE j # i
    BY <2>1, <2>3 DEF MemoryOK
  <2> QED BY <2>2, <2>3
<1>3. ASSUME NEW j \in Instances
      PROVE  memory'[j].recent \in Seq(Entries(now')) /\ memory'[j].refused \in BOOLEAN
  BY <1>2 DEF MemoryOK
<1> QED BY <1>1, <1>2, <1>3 DEF MemoryOK

LEMMA MemoryStays ==
  ASSUME MemoryOK, memory' = memory, now' = now
  PROVE  MemoryOK' /\ \A j \in Instances : memory[j].refused => memory'[j].refused
BY DEF MemoryOK

LEMMA RedisStays ==
  ASSUME RedisOK, redis' = redis, now' = now  PROVE RedisOK'
BY DEF RedisOK

-----------------------------------------------------------------------------
(* Searches (searchNearby, searchNearbyKakao)                               *)

LEMMA SearchingRequest ==
  ASSUME RegionInv, NEW r \in Requests, req[r].pc \in Searching
  PROVE  /\ Record(req[r]) /\ req[r].inst \in Instances /\ req[r].key \in Keys /\ wasted[r] = 0
         /\ RequestsGood /\ MemoryOK /\ RedisOK /\ now \in Nat
BY DEF RegionInv, RequestsGood, Good, RequestOK, FewCalls, Searching, Locating, Looking, Calling

(***************************************************************************)
(* A request that searches, and has found nothing yet, or what is fresh.   *)
(***************************************************************************)
LEMMA SearchGood ==
  ASSUME NEW q, Record(q), q.pc \in Searching \ {"keep"}, q.inst \in Instances, q.key \in Keys,
         q.pc = "done" => q.age <= IF q.from = "memory" THEN Short ELSE Long + Patience
  PROVE  Good(q, 0, q.inst \in Instances /\ memory'[q.inst].refused, now)
<1>1. 0 <= NaverTries /\ 0 \in Nat
  BY PlacesBounds
<1> QED BY <1>1 DEF Good, RequestOK, FreshRequest, NamedPlace, FewCalls, Searching, Locating, Looking, Calling

LEMMA AnswerFields ==
  ASSUME NEW q, Record(q), NEW pc, NEW inst, NEW key, NEW full, NEW from, NEW age, NEW p,
         p = [q EXCEPT !.pc = pc, !.inst = inst, !.key = key, !.full = full, !.from = from, !.age = age]
  PROVE  /\ Record(p) /\ p.pc = pc /\ p.inst = inst /\ p.key = key /\ p.from = from /\ p.age = age
BY DEF Record, Fields

LEMMA AnswerGood ==
  ASSUME RegionInv, NEW r \in Requests, req[r].pc \in Searching, NEW from, NEW at, NEW full,
         Answer(r, from, at, full), now' = now, wasted' = wasted, memory' = memory,
         now - at <= IF from = "memory" THEN Short ELSE Long + Patience
  PROVE  RequestsGood'
<1> DEFINE pc == IF full THEN "done" ELSE "empty"
           p  == [Idle EXCEPT !.pc = pc, !.inst = req[r].inst, !.key = req[r].key, !.full = full,
                              !.from = from, !.age = now - at]
<1>1. req' = [req EXCEPT ![r] = p]
  BY DEF Answer
<1> HIDE DEF pc
<1>2. /\ Record(p) /\ p.pc = pc /\ p.inst = req[r].inst /\ p.key = req[r].key
      /\ p.from = from /\ p.age = now - at
  BY IdleFields DEF Record, Fields
<1>3. pc \in {"done", "empty"}
  BY DEF pc
<1> HIDE DEF p
<1>4. /\ Record(req[r]) /\ req[r].inst \in Instances /\ req[r].key \in Keys /\ wasted[r] = 0
      /\ RequestsGood
  BY SearchingRequest
<1>5. Good(p, 0, p.inst \in Instances /\ memory'[p.inst].refused, now)
  <2>1. p.pc \in Searching \ {"keep"}
    BY <1>2, <1>3 DEF Searching
  <2> QED BY <1>2, <1>4, <2>1, SearchGood
<1>6. wasted' = [wasted EXCEPT ![r] = 0]
  BY <1>4, CallsCounted
<1> QED BY <1>1, <1>4, <1>5, <1>6, OneRequest

(***************************************************************************)
(* A search that begins is answered out of the memory of its process only  *)
(* while the entry lives.                                                  *)
(***************************************************************************)
LEMMA BeginGood ==
  ASSUME RegionInv, NEW r \in Requests, wasted[r] = 0, NEW i \in Instances, NEW k \in Keys, Begin(r, i, k)
  PROVE  RequestsGood' /\ MemoryOK' /\ RedisOK'
<1> DEFINE m       == memory[i]
           flagged == k \in NaverKeys /\ Alive(m.flags, k) # {}
           hits    == IF flagged THEN Alive(m.recent, k) ELSE {}
           e       == m.recent[CHOOSE n \in hits : TRUE]
           asked   == [Idle EXCEPT !.pc = "places", !.inst = i, !.key = k]
           known0  == [asked EXCEPT !.pc = "done", !.full = TRUE, !.from = "memory", !.age = now - e.at]
           flags   == IF k \in NaverKeys THEN Looked(m.flags, k) ELSE m.flags
           recent  == IF flagged THEN Looked(m.recent, k) ELSE m.recent
<1>0. /\ RequestsGood /\ MemoryOK /\ RedisOK /\ now \in Nat
      /\ now' = now /\ redis' = redis /\ wasted' = wasted
  BY DEF RegionInv, Begin
<1>1. m.recent \in Seq(Entries(now))
  BY <1>0 DEF MemoryOK
<1>2. MemoryOK' /\ \A j \in Instances : memory[j].refused => memory'[j].refused
  <2>1. recent \in Seq(Entries(now))
    BY <1>1, LookedKeeps
  <2>2. memory' = [memory EXCEPT ![i].flags = flags, ![i].recent = recent]
    BY DEF Begin
  <2> HIDE DEF flags, recent
  <2> QED BY <1>0, <2>1, <2>2, RecentToo
<1>3. RedisOK'
  BY <1>0, RedisStays
<1>4. wasted' = [wasted EXCEPT ![r] = 0]
  BY <1>0, CallsCounted
<1>5. CASE hits = {}
  <2>1. req' = [req EXCEPT ![r] = asked]
    BY <1>5 DEF Begin
  <2>2. Record(asked) /\ asked.pc = "places" /\ asked.inst = i /\ asked.key = k
    BY DEF Idle, Record, Fields
  <2> HIDE DEF asked
  <2>3. Good(asked, 0, asked.inst \in Instances /\ memory'[asked.inst].refused, now)
    <3>1. asked.pc \in Searching \ {"keep"} /\ asked.pc # "done"
      BY <2>2 DEF Searching
    <3> QED BY <2>2, <3>1, SearchGood
  <2>9. RequestsGood'
    <3>1. \A j \in Instances : memory[j].refused => memory'[j].refused
      BY <1>2
    <3>2. RequestsGood /\ now' = now
      BY <1>0
    <3> QED BY <1>4, <2>1, <2>3, <3>1, <3>2, OneRequest
  <2> QED BY <1>2, <1>3, <2>9
<1>6. CASE hits # {}
  <2>1. req' = [req EXCEPT ![r] = known0]
    BY <1>6 DEF Begin
  <2>2. (CHOOSE n \in hits : TRUE) \in DOMAIN m.recent /\ now <= e.until
    BY <1>6 DEF Alive
  <2>3. e \in Entries(now)
    <3> DEFINE n == CHOOSE n \in hits : TRUE
    <3>1. Len(m.recent) \in Nat /\ n \in 1 .. Len(m.recent)
      BY <1>1, <2>2, LenProperties
    <3> HIDE DEF n, m, hits
    <3>2. m.recent[n] \in Entries(now)
      BY <1>1, <3>1, ElementOfSeq
    <3> QED BY <3>2 DEF n
  <2>4. now - e.at <= Short
    BY <1>0, <2>2, <2>3, PlacesBounds DEF Entries
  <2> HIDE DEF e
  <2>5. /\ Record(known0) /\ known0.pc = "done" /\ known0.inst = i /\ known0.key = k
        /\ known0.from = "memory" /\ known0.age = now - e.at
    <3>1. Record(asked) /\ asked.inst = i /\ asked.key = k
      BY DEF Idle, Record, Fields
    <3> HIDE DEF asked
    <3> QED BY <3>1 DEF Record, Fields
  <2> HIDE DEF known0
  <2>6. Good(known0, 0, known0.inst \in Instances /\ memory'[known0.inst].refused, now)
    <3>1. known0.pc \in Searching \ {"keep"}
      BY <2>5 DEF Searching
    <3> QED BY <2>4, <2>5, <3>1, SearchGood
  <2>9. RequestsGood'
    <3>1. \A j \in Instances : memory[j].refused => memory'[j].refused
      BY <1>2
    <3>2. RequestsGood /\ now' = now
      BY <1>0
    <3> QED BY <1>4, <2>1, <2>6, <3>1, <3>2, OneRequest
  <2> QED BY <1>2, <1>3, <2>9
<1> QED BY <1>5, <1>6

LEMMA StartGood ==
  ASSUME RegionInv, NEW r \in Requests, NEW k \in Keys,
         \/ \E i \in Instances : SearchStart(r, i, k)
         \/ FallbackStart(r, k)
  PROVE  RequestsGood' /\ MemoryOK' /\ RedisOK'
<1>1. CASE \E i \in Instances : SearchStart(r, i, k)
  <2>1. wasted[r] = 0
    BY <1>1 DEF SearchStart, RegionInv, RequestsGood, Good, FewCalls, Locating, Looking, Calling
  <2> QED BY <1>1, <2>1, BeginGood DEF SearchStart
<1>2. CASE FallbackStart(r, k)
  <2>1. req[r].pc \in Searching
    BY <1>2 DEF FallbackStart, Searching
  <2>2. wasted[r] = 0 /\ req[r].inst \in Instances
    BY <2>1, SearchingRequest
  <2> QED BY <1>2, <2>2, BeginGood DEF FallbackStart
<1> QED BY <1>1, <1>2

(***************************************************************************)
(* A search that goes on to ask, or ends with nothing.                     *)
(***************************************************************************)
LEMMA SearchFollows ==
  ASSUME RegionInv, NEW r \in Requests, req[r].pc \in Searching, NEW pc \in {"fetch", "empty"}, NEW try,
         NEW p, Follows(p, req[r], pc, try)
  PROVE  Good(p, wasted[r], p.inst \in Instances /\ memory'[p.inst].refused, now)
<1>1. /\ req[r].inst \in Instances /\ req[r].key \in Keys /\ wasted[r] = 0
  BY SearchingRequest
<1>2. /\ Record(p) /\ p.pc = pc /\ p.inst = req[r].inst /\ p.key = req[r].key
  BY DEF Follows
<1>3. p.pc \in Searching \ {"keep"} /\ p.pc # "done"
  BY <1>2 DEF Searching
<1>4. Good(p, 0, p.inst \in Instances /\ memory'[p.inst].refused, now)
  BY <1>1, <1>2, <1>3, SearchGood
<1> QED BY <1>1, <1>4

LEMMA SearchMoves ==
  ASSUME RegionInv, NEW r \in Requests, req[r].pc \in Searching,
         now' = now, wasted' = wasted, redis' = redis, MemoryOK',
         \A i \in Instances : memory[i].refused => memory'[i].refused,
         Goto(r, "fetch") \/ Goto(r, "empty") \/ Retry(r, "fetch", "empty")
  PROVE  RequestsGood' /\ RedisOK'
<1>1. RequestsGood /\ RedisOK
  BY SearchingRequest
<1>2. \E p, try, pc : /\ pc \in {"fetch", "empty"}
                     /\ req' = [req EXCEPT ![r] = p]
                     /\ Follows(p, req[r], pc, try)
  BY <1>1, GotoFollows, RetryFollows
<1>3. PICK p, try, pc : /\ pc \in {"fetch", "empty"}
                      /\ req' = [req EXCEPT ![r] = p]
                      /\ Follows(p, req[r], pc, try)
  BY <1>2
<1>4. Good(p, wasted[r], p.inst \in Instances /\ memory'[p.inst].refused, now)
  BY <1>3, SearchFollows
<1>5. req' = [req EXCEPT ![r] = p]
  BY <1>3
<1>6. RequestsGood'
  BY <1>1, <1>4, <1>5, OneUncounted
<1> QED BY <1>1, <1>6, RedisStays

(***************************************************************************)
(* What Redis gives is no older than it may keep it, and the time the      *)
(* write took.                                                             *)
(***************************************************************************)
LEMMA PlacesReadGood ==
  ASSUME RegionInv, NEW r \in Requests, PlacesRead(r)
  PROVE  RequestsGood' /\ MemoryOK' /\ RedisOK'
<1> DEFINE hit == redis.places[req[r].key]
<1>0. req[r].pc \in Searching /\ now' = now /\ memory' = memory /\ redis' = redis /\ wasted' = wasted
  BY DEF PlacesRead, Searching
<1>1. req[r].key \in Keys /\ MemoryOK /\ RedisOK /\ now \in Nat
  BY <1>0, SearchingRequest
<1>2. MemoryOK' /\ RedisOK' /\ \A i \in Instances : memory[i].refused => memory'[i].refused
  BY <1>0, <1>1, MemoryStays, RedisStays
<1>3. CASE redis.on /\ now < hit.until
  <2>1. hit \in Kept(now)
    BY <1>1 DEF RedisOK
  <2>2. now - hit.at <= Long + Patience
    BY <1>1, <1>3, <2>1, PlacesBounds DEF Kept
  <2>3. Answer(r, "redis", hit.at, hit.full)
    BY <1>3 DEF PlacesRead
  <2> HIDE DEF hit
  <2>4. RequestsGood'
    BY <1>0, <2>2, <2>3, AnswerGood
  <2> QED BY <1>2, <2>4
<1>4. CASE ~(redis.on /\ now < hit.until)
  <2>1. Goto(r, "fetch")
    BY <1>4 DEF PlacesRead
  <2>2. MemoryOK' /\ \A i \in Instances : memory[i].refused => memory'[i].refused
    BY <1>2
  <2>3. RequestsGood'
    BY <1>0, <2>1, <2>2, SearchMoves
  <2> QED BY <1>2, <2>3
<1> QED BY <1>3, <1>4

LEMMA FlagGood ==
  ASSUME MemoryOK, now' = now, NEW i \in Instances, NEW k, memory' = memory \/ memory' = Flag(i, k)
  PROVE  MemoryOK' /\ \A j \in Instances : memory[j].refused => memory'[j].refused
<1>1. CASE memory' = memory
  BY <1>1, MemoryStays
<1>2. CASE memory' = Flag(i, k)
  <2>1. memory' = [memory EXCEPT ![i].flags = Put(memory[i].flags, k)]
    BY <1>2 DEF Flag
  <2> QED BY <2>1, FlagsOnly
<1> QED BY <1>1, <1>2

LEMMA FetchGoesOn ==
  ASSUME RegionInv, NEW r \in Requests, FetchAgain(r) \/ FetchEmpty(r) \/ KeepFails(r)
  PROVE  RequestsGood' /\ MemoryOK' /\ RedisOK'
<1>0. /\ req[r].pc \in Searching /\ now' = now /\ redis' = redis /\ wasted' = wasted
      /\ Goto(r, "empty") \/ Retry(r, "fetch", "empty")
      /\ memory' = memory \/ memory' = Flag(req[r].inst, req[r].key)
  BY DEF FetchAgain, FetchEmpty, KeepFails, Searching
<1>1. req[r].inst \in Instances /\ MemoryOK
  BY <1>0, SearchingRequest
<1>2. MemoryOK' /\ \A i \in Instances : memory[i].refused => memory'[i].refused
  BY <1>0, <1>1, FlagGood
<1>3. RequestsGood' /\ RedisOK'
  BY <1>0, <1>2, SearchMoves
<1> QED BY <1>2, <1>3

(***************************************************************************)
(* What a call finds is remembered, and kept, with the instant of the      *)
(* answer.                                                                 *)
(***************************************************************************)
LEMMA FetchFindsGood ==
  ASSUME RegionInv, NEW r \in Requests, FetchFinds(r)
  PROVE  RequestsGood' /\ MemoryOK' /\ RedisOK'
<1>0. req[r].pc \in Searching /\ now' = now /\ redis' = redis /\ wasted' = wasted
  BY DEF FetchFinds, Searching
<1>1. /\ Record(req[r]) /\ req[r].inst \in Instances /\ req[r].key \in Keys /\ wasted[r] = 0
      /\ RequestsGood /\ MemoryOK /\ RedisOK /\ now \in Nat
  BY <1>0, SearchingRequest
<1>2. MemoryOK' /\ \A i \in Instances : memory[i].refused => memory'[i].refused
  <2>1. CASE req[r].key \in NaverKeys
    <3> DEFINE i      == req[r].inst
               recent == Put(memory[i].recent, req[r].key)
    <3>1. memory[i].recent \in Seq(Entries(now))
      BY <1>1 DEF MemoryOK
    <3>2. recent \in Seq(Entries(now))
      BY <1>1, <3>1, PutAdds
    <3>3. memory' = [memory EXCEPT ![i].flags = memory[i].flags, ![i].recent = recent]
      <4>1. memory' = [memory EXCEPT ![i].recent = recent]
        BY <2>1 DEF FetchFinds
      <4>2. memory[i] = [flags |-> memory[i].flags, recent |-> memory[i].recent, refused |-> memory[i].refused]
        BY <1>1 DEF MemoryOK
      <4> HIDE DEF i, recent
      <4> QED BY <4>1, <4>2
    <3> HIDE DEF recent, i
    <3>4. i \in Instances
      BY <1>1 DEF i
    <3> QED BY <1>0, <1>1, <3>2, <3>3, <3>4, RecentToo
  <2>2. CASE req[r].key \notin NaverKeys
    <3>1. memory' = memory
      BY <2>2 DEF FetchFinds
    <3> QED BY <1>0, <1>1, <3>1, MemoryStays
  <2> QED BY <2>1, <2>2
<1>3. PICK full \in BOOLEAN : req' = [req EXCEPT ![r].pc = "keep", ![r].at = now, ![r].full = full]
  BY DEF FetchFinds
<1> DEFINE p == [req[r] EXCEPT !.pc = "keep", !.at = now, !.full = full]
<1>4. req' = [req EXCEPT ![r] = p]
  <2>1. req = [s \in Requests |-> req[s]]
    BY <1>1 DEF RequestsGood
  <2> QED BY <1>3, <2>1
<1>5. Record(p) /\ p.pc = "keep" /\ p.at = now /\ p.inst = req[r].inst /\ p.key = req[r].key /\ p.full = full
  BY <1>1 DEF Record, Fields
<1> HIDE DEF p
<1>6. Good(p, 0, p.inst \in Instances /\ memory'[p.inst].refused, now)
  <2>1. 0 <= NaverTries /\ 0 \in Nat /\ now <= now + Patience /\ now <= now
    BY <1>1, PlacesBounds
  <2> QED BY <1>1, <1>5, <2>1 DEF Good, RequestOK, FreshRequest, NamedPlace, FewCalls, Searching, Locating, Looking, Calling
<1>7. wasted' = [wasted EXCEPT ![r] = 0]
  BY <1>0, <1>1, CallsCounted
<1>8. \A i \in Instances : memory[i].refused => memory'[i].refused
  BY <1>2
<1>9. RequestsGood /\ now' = now
  BY <1>0, <1>1
<1>10. RequestsGood'
  BY <1>4, <1>6, <1>7, <1>8, <1>9, OneRequest
<1> QED BY <1>0, <1>1, <1>2, <1>10, RedisStays

(***************************************************************************)
(* What is written to Redis was found no longer ago than a write may take. *)
(***************************************************************************)
LEMMA KeepGood ==
  ASSUME RegionInv, NEW r \in Requests, Keep(r)
  PROVE  RequestsGood' /\ MemoryOK' /\ RedisOK'
<1> DEFINE at    == req[r].at
           full  == req[r].full
           entry == [at |-> at, until |-> now + Long, full |-> full]
<1>0. req[r].pc \in Searching /\ now' = now /\ memory' = memory /\ wasted' = wasted
  BY DEF Keep, Searching
<1>1. req[r].key \in Keys /\ RequestsGood /\ MemoryOK /\ RedisOK /\ now \in Nat
  BY <1>0, SearchingRequest
<1>2. at \in Nat /\ at <= now /\ now <= at + Patience /\ full \in BOOLEAN
  BY <1>1 DEF Keep, RequestsGood, Good, FreshRequest
<1>3. MemoryOK'
  BY <1>0, <1>1, MemoryStays
<1>4. RequestsGood'
  <2>1. now - at <= Long + Patience
    BY <1>1, <1>2, PlacesBounds
  <2>2. Answer(r, "call", at, full)
    BY DEF Keep
  <2> HIDE DEF at, full
  <2> QED BY <1>0, <2>1, <2>2, AnswerGood
<1>5. RedisOK'
  <2>1. CASE redis.on
    <3>1. entry \in Kept(now)
      BY <1>1, <1>2, PlacesBounds DEF Kept
    <3>2. redis' = [redis EXCEPT !.places[req[r].key] = entry]
      BY <2>1 DEF Keep
    <3> HIDE DEF entry
    <3>3. redis.places \in [Keys -> Kept(now)]
      BY <1>1 DEF RedisOK
    <3>4. /\ redis' = [on |-> redis'.on, places |-> redis'.places, geo |-> redis'.geo,
                      count |-> redis'.count, alias |-> redis'.alias]
          /\ redis'.places = [redis.places EXCEPT ![req[r].key] = entry] /\ redis'.alias = redis.alias
      BY <1>1, <3>2 DEF RedisOK
    <3>5. redis'.places \in [Keys -> Kept(now)]
      BY <1>1, <3>1, <3>3, <3>4
    <3> QED BY <1>0, <1>1, <3>4, <3>5 DEF RedisOK
  <2>2. CASE ~redis.on
    <3>1. redis' = redis
      BY <2>2 DEF Keep
    <3> QED BY <1>0, <1>1, <3>1, RedisStays
  <2> QED BY <2>1, <2>2
<1> QED BY <1>3, <1>4, <1>5

LEMMA EndGood ==
  ASSUME RegionInv, NEW r \in Requests, End(r)
  PROVE  RequestsGood' /\ MemoryOK' /\ RedisOK'
<1>1. RequestsGood /\ MemoryOK /\ RedisOK
  BY DEF RegionInv
<1>2. /\ now' = now /\ memory' = memory /\ redis' = redis
      /\ req' = [req EXCEPT ![r] = Idle] /\ wasted' = [wasted EXCEPT ![r] = 0]
  BY DEF End
<1>3. RequestsGood'
  BY <1>1, <1>2, OneEnds
<1> QED BY <1>1, <1>2, <1>3, MemoryStays, RedisStays

(***************************************************************************)
(* The clock moves on only while no write has taken too long.              *)
(***************************************************************************)
LEMMA TickGood ==
  ASSUME RegionInv, Tick
  PROVE  now' \in Nat /\ RequestsGood' /\ MemoryOK' /\ RedisOK'
<1>1. /\ now \in Nat /\ now' = now + 1 /\ memory' = memory /\ redis' = redis /\ req' = req /\ wasted' = wasted
      /\ RequestsGood /\ MemoryOK /\ RedisOK
  BY DEF Tick, RegionInv
<1>2. MemoryOK'
  <2>1. \A i \in Instances : memory[i].recent \in Seq(Entries(now'))
    BY <1>1, EntriesStay DEF MemoryOK
  <2> QED BY <1>1, <2>1 DEF MemoryOK
<1>3. RedisOK'
  <2>1. Kept(now) \subseteq Kept(now')
    BY <1>1 DEF Kept
  <2>2. redis.places \in [Keys -> Kept(now')]
    BY <1>1, <2>1 DEF RedisOK
  <2> QED BY <1>1, <2>2 DEF RedisOK
<1>4. RequestsGood'
  <2>1. ASSUME NEW s \in Requests
        PROVE  Good(req[s], wasted[s], RefusedTo(req[s]), now')
    <3>1. Good(req[s], wasted[s], RefusedTo(req[s]), now)
      BY <1>1 DEF RequestsGood
    <3>2. FreshRequest(req[s], now')
      BY <1>1, <3>1, PlacesBounds DEF Good, FreshRequest, Tick
    <3> QED BY <3>1, <3>2 DEF Good
  <2>2. \A s \in Requests : RefusedTo(req[s])' = RefusedTo(req[s])
    BY <1>1 DEF RefusedTo
  <2> QED BY <1>1, <2>1, <2>2 DEF RequestsGood
<1> QED BY <1>1, <1>2, <1>3, <1>4

-----------------------------------------------------------------------------
(* Coordinates (geocodeCity, geocodeLocation)                               *)

LEMMA LookingRequest ==
  ASSUME RegionInv, NEW r \in Requests, req[r].pc \in Looking
  PROVE  /\ Record(req[r]) /\ req[r].inst \in Instances
         /\ RequestsGood /\ MemoryOK /\ RedisOK /\ now \in Nat
         /\ wasted[r] \in Nat /\ wasted[r] <= NaverTries /\ NaverTries \in Nat /\ NaverTries > 0
         /\ req[r].pc \in {"key", "geo"} => wasted[r] = 0
         /\ wasted[r] > 0 => memory[req[r].inst].refused
         /\ req[r].pc \in Calling => /\ req[r].try \in 1 .. NaverTries
                                     /\ Tries(req[r].key) = NaverTries
         /\ req[r].pc = "call" => wasted[r] < req[r].try
         /\ req[r].pc = "geoKeep" => wasted[r] <= req[r].try
<1> DEFINE q == req[r]
<1>1. Good(q, wasted[r], RefusedTo(q), now) /\ RequestsGood /\ MemoryOK /\ RedisOK /\ now \in Nat
  BY DEF RegionInv, RequestsGood
<1>2. q.pc # "idle" /\ q.pc \in Locating /\ q.pc \in Looking \cup {"found"}
  BY DEF Locating, Looking, Calling
<1>3. Record(q) /\ q.inst \in Instances /\ NaverTries \in Nat /\ NaverTries > 0
  BY <1>1, <1>2, PlacesBounds DEF Good, RequestOK
<1>4. ASSUME q.pc \in Calling  PROVE Tries(q.key) = NaverTries
  <2>1. q.key = <<q.name, q.query>> /\ q.query \in 1 .. Queries /\ q.text \in Texts /\ q.name \in Sites(q.text)
    BY <1>1, <1>2, <1>4 DEF Good, NamedPlace
  <2>2. q.name \in Names
    BY <2>1, RegionsBounds DEF Sites, Named, Texts
  <2>3. q.key \in GeoKeys
    BY <2>1, <2>2 DEF GeoKeys
  <2> QED BY <2>3, TriesKnown
<1> QED BY <1>1, <1>2, <1>3, <1>4 DEF Good, FewCalls, RefusedTo

(***************************************************************************)
(* A request that goes on looking still looks for a place of its text, and *)
(* what it has found is the key of that place.                             *)
(***************************************************************************)
LEMMA LookingGood ==
  ASSUME RegionInv, NEW r \in Requests, req[r].pc \in Looking, NEW pc \in Looking \cup {"found"},
         pc \in Calling \cup {"found"} => req[r].pc \in Calling,
         NEW try, NEW p, Follows(p, req[r], pc, try), NEW w,
         FewCalls(p, w, p.inst \in Instances /\ memory'[p.inst].refused)
  PROVE  Good(p, w, p.inst \in Instances /\ memory'[p.inst].refused, now)
<1> DEFINE q == req[r]
<1>1. Good(q, wasted[r], RefusedTo(q), now) /\ Record(q) /\ q.inst \in Instances
  BY LookingRequest DEF RequestsGood
<1>2. Record(p) /\ p.pc = pc
  BY DEF Follows
<1>3. pc # "idle" /\ pc \notin Searching /\ pc \in Locating /\ pc # "keep" /\ pc # "done" /\ pc # "located"
  BY DEF Locating, Looking, Calling, Searching
<1>4. RequestOK(p) /\ FreshRequest(p, now)
  BY <1>1, <1>2, <1>3 DEF RequestOK, FreshRequest, Follows
<1>5. NamedPlace(q) /\ q.pc \in Looking \cup {"found"}
  BY <1>1 DEF Good
<1> HIDE DEF q
<1>6. NamedPlace(p)
  <2>1. Follows(p, q, pc, try) /\ q.pc \in Looking /\ (pc \in Calling \cup {"found"} => q.pc \in Calling)
    BY DEF q
  <2>2. /\ p.text = q.text /\ p.name = q.name /\ p.query = q.query /\ p.part = q.part /\ p.place = q.place
        /\ p.rest = q.rest /\ p.token = q.token /\ p.coords = q.coords /\ p.key = q.key
    BY <2>1 DEF Follows
  <2> QED BY <1>2, <1>3, <1>5, <2>1, <2>2 DEF NamedPlace
<1> QED BY <1>4, <1>6 DEF Good

(***************************************************************************)
(* The steps of a lookup that call nobody.                                 *)
(***************************************************************************)
LEMMA LookingMoves ==
  ASSUME RegionInv, NEW r \in Requests, req[r].pc \in Looking, now' = now, wasted' = wasted, memory' = memory,
         \/ req[r].pc = "city" /\ Goto(r, "lost")
         \/ req[r].pc = "city" /\ ~memory[req[r].inst].refused /\ Goto(r, "key")
         \/ req[r].pc = "geo" /\ (Goto(r, "found") \/ Goto(r, "call"))
         \/ req[r].pc = "geoKeep" /\ (Goto(r, "found") \/ Retry(r, "call", "next"))
  PROVE  RequestsGood' /\ MemoryOK'
<1>1. RequestsGood /\ MemoryOK
  BY LookingRequest
<1>2. PICK pc, try, p :
         /\ req' = [req EXCEPT ![r] = p] /\ Follows(p, req[r], pc, try)
         /\ \/ req[r].pc = "city" /\ pc = "lost"
            \/ req[r].pc = "city" /\ ~memory[req[r].inst].refused /\ pc = "key"
            \/ req[r].pc = "geo" /\ pc \in {"found", "call"} /\ try = req[r].try
            \/ req[r].pc = "geoKeep" /\ pc \in {"found", "next"} /\ try = req[r].try
            \/ req[r].pc = "geoKeep" /\ pc = "call" /\ try = req[r].try + 1 /\ try <= NaverTries
  <2>1. CASE req[r].pc = "city" /\ Goto(r, "lost")
    BY <1>1, <2>1, GotoFollows
  <2>2. CASE req[r].pc = "city" /\ ~memory[req[r].inst].refused /\ Goto(r, "key")
    BY <1>1, <2>2, GotoFollows
  <2>3. CASE req[r].pc = "geo" /\ Goto(r, "found")
    BY <1>1, <2>3, GotoFollows
  <2>4. CASE req[r].pc = "geo" /\ Goto(r, "call")
    BY <1>1, <2>4, GotoFollows
  <2>5. CASE req[r].pc = "geoKeep" /\ Goto(r, "found")
    BY <1>1, <2>5, GotoFollows
  <2>6. CASE req[r].pc = "geoKeep" /\ Retry(r, "call", "next")
    <3>1. PICK p : /\ req' = [req EXCEPT ![r] = p]
                   /\ \/ Follows(p, req[r], "next", req[r].try)
                      \/ Follows(p, req[r], "call", req[r].try + 1) /\ req[r].try < Tries(req[r].key)
      BY <1>1, <2>6, RetryFollows
    <3>2. req[r].try \in 1 .. NaverTries /\ Tries(req[r].key) = NaverTries /\ NaverTries \in Nat
      BY <2>6, LookingRequest DEF Looking, Calling
    <3>3. req[r].try < Tries(req[r].key) => req[r].try + 1 <= NaverTries
      BY <3>2
    <3> QED BY <2>6, <3>1, <3>3
  <2> QED BY <2>1, <2>2, <2>3, <2>4, <2>5, <2>6
<1>3. pc \in Looking \cup {"found"} /\ (pc \in Calling \cup {"found"} => req[r].pc \in Calling)
  BY <1>2 DEF Looking, Calling
<1>4. FewCalls(p, wasted[r], p.inst \in Instances /\ memory'[p.inst].refused)
  <2>1. p.pc = pc /\ p.try = try /\ p.inst = req[r].inst
    BY <1>2 DEF Follows
  <2>2. pc \in Locating
    BY <1>3 DEF Locating
  <2> HIDE DEF FewCalls
  <2>3. wasted[r] \in Nat /\ wasted[r] <= NaverTries /\ (wasted[r] > 0 => p.inst \in Instances /\ memory'[p.inst].refused)
    BY <2>1, LookingRequest
  <2>4. pc \in {"key", "geo"} => wasted[r] = 0
    BY <1>2, LookingRequest
  <2>5. pc \in Calling => try \in 1 .. NaverTries /\ pc = "call" /\ wasted[r] < try
    <3> SUFFICES ASSUME pc \in Calling  PROVE try \in 1 .. NaverTries /\ pc = "call" /\ wasted[r] < try
      OBVIOUS
    <3>1. req[r].pc \in Calling /\ pc = "call"
      BY <1>2, <1>3 DEF Calling
    <3>2. req[r].try \in 1 .. NaverTries /\ wasted[r] \in Nat /\ NaverTries \in Nat
      BY <3>1, LookingRequest
    <3>3. CASE req[r].pc = "geo" /\ try = req[r].try
      BY <3>1, <3>2, <3>3, LookingRequest
    <3>4. CASE req[r].pc = "geoKeep" /\ try = req[r].try + 1 /\ try <= NaverTries
      BY <3>1, <3>2, <3>4, LookingRequest
    <3>5. \/ req[r].pc = "geo" /\ try = req[r].try
          \/ req[r].pc = "geoKeep" /\ try = req[r].try + 1 /\ try <= NaverTries
      BY <1>2, <3>1
    <3> QED BY <3>1, <3>3, <3>4, <3>5
  <2> QED BY <2>1, <2>2, <2>3, <2>4, <2>5 DEF FewCalls, Calling
<1>5. Good(p, wasted[r], p.inst \in Instances /\ memory'[p.inst].refused, now)
  BY <1>2, <1>3, <1>4, LookingGood
<1>6. req' = [req EXCEPT ![r] = p] /\ \A i \in Instances : memory[i].refused => memory'[i].refused
  BY <1>2
<1>7. RequestsGood'
  BY <1>1, <1>5, <1>6, OneUncounted
<1> QED BY <1>1, <1>7, MemoryStays

(***************************************************************************)
(* A call: it counts when the process had been refused, and a request that *)
(* tries again has a try left.                                             *)
(***************************************************************************)
LEMMA CallMoves ==
  ASSUME RegionInv, NEW r \in Requests, req[r].pc = "call", Calls(r), now' = now,
         \A i \in Instances : memory[i].refused => memory'[i].refused,
         Goto(r, "geoKeep") \/ Goto(r, "next") \/ Retry(r, "call", "next")
  PROVE  RequestsGood'
<1> DEFINE w == IF memory[req[r].inst].refused THEN wasted[r] + 1 ELSE wasted[r]
<1>1. req[r].pc \in Looking /\ req[r].pc \in Calling
  BY DEF Looking, Calling
<1>2. /\ RequestsGood /\ NaverTries \in Nat /\ wasted[r] \in Nat /\ wasted[r] < req[r].try
      /\ req[r].try \in 1 .. NaverTries /\ Tries(req[r].key) = NaverTries /\ req[r].inst \in Instances
      /\ wasted[r] > 0 => memory[req[r].inst].refused
  BY <1>1, LookingRequest
<1>3. w \in Nat /\ w <= req[r].try /\ w <= NaverTries /\ (w > 0 => memory'[req[r].inst].refused)
  BY <1>2
<1>4. wasted' = [wasted EXCEPT ![r] = w]
  BY DEF Calls
<1> HIDE DEF w
<1>5. PICK p, try, pc :
         /\ pc \in {"geoKeep", "next", "call"}
         /\ req' = [req EXCEPT ![r] = p] /\ Follows(p, req[r], pc, try)
         /\ pc = "geoKeep" => try = req[r].try
         /\ pc = "call" => try = req[r].try + 1 /\ try <= NaverTries
  <2>1. CASE Goto(r, "geoKeep")
    BY <1>2, <2>1, GotoFollows
  <2>2. CASE Goto(r, "next")
    BY <1>2, <2>2, GotoFollows
  <2>3. CASE Retry(r, "call", "next")
    <3>1. PICK p : /\ req' = [req EXCEPT ![r] = p]
                   /\ \/ Follows(p, req[r], "next", req[r].try)
                      \/ Follows(p, req[r], "call", req[r].try + 1) /\ req[r].try < Tries(req[r].key)
      BY <1>2, <2>3, RetryFollows
    <3>2. req[r].try < Tries(req[r].key) => req[r].try + 1 <= NaverTries
      BY <1>2
    <3> QED BY <3>1, <3>2
  <2> QED BY <2>1, <2>2, <2>3
<1>6. FewCalls(p, w, p.inst \in Instances /\ memory'[p.inst].refused)
  <2>1. p.pc = pc /\ p.try = try /\ p.inst = req[r].inst
    BY <1>5 DEF Follows
  <2>2. pc \in Locating /\ pc \notin {"key", "geo"} /\ (pc \in Calling => pc \in {"geoKeep", "call"})
    BY <1>5 DEF Locating, Looking, Calling
  <2>3. pc = "geoKeep" => try \in 1 .. NaverTries /\ w <= try
    BY <1>2, <1>3, <1>5
  <2>4. pc = "call" => try \in 1 .. NaverTries /\ w < try
    BY <1>2, <1>3, <1>5
  <2> QED BY <1>2, <1>3, <2>1, <2>2, <2>3, <2>4 DEF FewCalls
<1>7. Good(p, w, p.inst \in Instances /\ memory'[p.inst].refused, now)
  <2>1. pc \in Looking \cup {"found"}
    BY <1>5 DEF Looking, Calling
  <2>2. Follows(p, req[r], pc, try)
    BY <1>5
  <2> QED BY <1>1, <1>6, <2>1, <2>2, LookingGood
<1>8. req' = [req EXCEPT ![r] = p]
  BY <1>5
<1> QED BY <1>2, <1>4, <1>7, <1>8, OneRequest

LEMMA CallGood ==
  ASSUME RegionInv, NEW r \in Requests, GeoFinds(r) \/ GeoNothing(r) \/ GeoRefused(r) \/ GeoAgain(r)
  PROVE  RequestsGood' /\ MemoryOK' /\ RedisOK'
<1>1. /\ req[r].pc = "call" /\ Calls(r) /\ now' = now /\ redis' = redis
      /\ Goto(r, "geoKeep") \/ Goto(r, "next") \/ Retry(r, "call", "next")
  BY DEF GeoFinds, GeoNothing, GeoRefused, GeoAgain
<1> DEFINE i == req[r].inst
<1>2. i \in Instances /\ MemoryOK /\ RedisOK
  BY <1>1, LookingRequest DEF Looking, Calling
<1>3. MemoryOK' /\ \A j \in Instances : memory[j].refused => memory'[j].refused
  <2>1. CASE memory' = memory \/ memory' = Flag(i, req[r].key)
    <3> HIDE DEF i
    <3> QED BY <1>1, <1>2, <2>1, FlagGood
  <2>2. CASE memory' = [memory EXCEPT ![i].refused = TRUE]
    <3> HIDE DEF i
    <3>1. memory' = [j \in Instances |-> memory'[j]]
      BY <1>2, <2>2 DEF MemoryOK
    <3>2. ASSUME NEW j \in Instances
          PROVE  /\ memory'[j] = [flags |-> memory'[j].flags, recent |-> memory'[j].recent,
                                  refused |-> memory'[j].refused]
                 /\ memory'[j].recent = memory[j].recent
                 /\ memory'[j].refused = (IF j = i THEN TRUE ELSE memory[j].refused)
      <4>1. memory[j] = [flags |-> memory[j].flags, recent |-> memory[j].recent, refused |-> memory[j].refused]
        BY <1>2 DEF MemoryOK
      <4>2. CASE j = i
        BY <1>2, <2>2, <4>1, <4>2 DEF MemoryOK
      <4>3. CASE j # i
        BY <1>2, <2>2, <4>1, <4>3 DEF MemoryOK
      <4> QED BY <4>2, <4>3
    <3>3. ASSUME NEW j \in Instances
          PROVE  memory'[j].recent \in Seq(Entries(now')) /\ memory'[j].refused \in BOOLEAN
      BY <1>1, <1>2, <3>2 DEF MemoryOK
    <3>4. \A j \in Instances : memory[j].refused => memory'[j].refused
      BY <3>2
    <3> QED BY <3>1, <3>2, <3>3, <3>4 DEF MemoryOK
  <2> QED BY <1>1, <2>1, <2>2 DEF GeoFinds, GeoNothing, GeoRefused, GeoAgain
<1>4. \A j \in Instances : memory[j].refused => memory'[j].refused
  BY <1>3
<1>5. RequestsGood'
  BY <1>1, <1>4, CallMoves
<1> QED BY <1>1, <1>2, <1>3, <1>5, RedisStays

LEMMA RedisGeo ==
  ASSUME RedisOK, now' = now, NEW geo, redis' = redis \/ redis' = [redis EXCEPT !.geo = geo]
  PROVE  RedisOK'
<1>1. CASE redis' = redis
  BY <1>1, RedisStays
<1>2. CASE redis' = [redis EXCEPT !.geo = geo]
  <2>1. /\ redis' = [on |-> redis'.on, places |-> redis'.places, geo |-> redis'.geo,
                    count |-> redis'.count, alias |-> redis'.alias]
        /\ redis'.places = redis.places /\ redis'.alias = redis.alias
    BY <1>2 DEF RedisOK
  <2> QED BY <2>1 DEF RedisOK
<1> QED BY <1>1, <1>2

LEMMA LookingGoesOn ==
  ASSUME RegionInv, NEW r \in Requests, CityStart(r) \/ GeoRead(r) \/ GeoKeep(r) \/ GeoKeepFails(r)
  PROVE  RequestsGood' /\ MemoryOK' /\ RedisOK'
<1>1. /\ req[r].pc \in Looking /\ now' = now /\ wasted' = wasted /\ memory' = memory
      /\ \/ req[r].pc = "city" /\ Goto(r, "lost")
         \/ req[r].pc = "city" /\ ~memory[req[r].inst].refused /\ Goto(r, "key")
         \/ req[r].pc = "geo" /\ (Goto(r, "found") \/ Goto(r, "call"))
         \/ req[r].pc = "geoKeep" /\ (Goto(r, "found") \/ Retry(r, "call", "next"))
  BY DEF CityStart, GeoRead, GeoKeep, GeoKeepFails, Looking, Calling
<1>2. RequestsGood' /\ MemoryOK'
  BY <1>1, LookingMoves
<1>3. redis' = redis \/ \E geo : redis' = [redis EXCEPT !.geo = geo]
  BY DEF CityStart, GeoRead, GeoKeep, GeoKeepFails
<1>4. RedisOK
  BY <1>1, LookingRequest
<1> QED BY <1>1, <1>2, <1>3, <1>4, RedisGeo

(***************************************************************************)
(* A query begins, or is skipped because its key is flagged.               *)
(***************************************************************************)
LEMMA GeoKeyGood ==
  ASSUME RegionInv, NEW r \in Requests, GeoKey(r)
  PROVE  RequestsGood' /\ MemoryOK' /\ RedisOK'
<1> DEFINE q     == req[r]
           k     == <<q.name, q.query>>
           pc    == IF Alive(memory[q.inst].flags, k) # {} THEN "next" ELSE "geo"
           p     == [q EXCEPT !.pc = pc, !.key = k, !.try = 1]
           flags == Looked(memory[q.inst].flags, k)
<1>1. q.pc = "key" /\ q.pc \in Looking /\ now' = now /\ redis' = redis /\ wasted' = wasted
  BY DEF GeoKey, Looking
<1>2. /\ Record(q) /\ q.inst \in Instances /\ RequestsGood /\ MemoryOK /\ RedisOK
      /\ wasted[r] = 0 /\ NaverTries \in Nat /\ NaverTries > 0
  BY <1>1, LookingRequest
<1>3. memory' = [memory EXCEPT ![q.inst].flags = flags]
  BY DEF GeoKey
<1>4. MemoryOK' /\ \A i \in Instances : memory[i].refused => memory'[i].refused
  <2> DEFINE i == q.inst
  <2>1. i \in Instances /\ memory' = [memory EXCEPT ![i].flags = flags]
    BY <1>2, <1>3
  <2> HIDE DEF i, flags
  <2> QED BY <1>1, <1>2, <2>1, FlagsOnly
<1>5. pc \in {"next", "geo"}
  OBVIOUS
<1> HIDE DEF pc, flags, k
<1>6. req' = [req EXCEPT ![r] = p]
  <2>1. req = [s \in Requests |-> req[s]]
    BY <1>2 DEF RequestsGood
  <2> QED BY <2>1 DEF GeoKey, pc, k
<1>7. /\ Record(p) /\ p.pc = pc /\ p.key = k /\ p.try = 1 /\ p.inst = q.inst /\ p.text = q.text
      /\ p.name = q.name /\ p.query = q.query /\ p.part = q.part /\ p.place = q.place
      /\ p.rest = q.rest /\ p.token = q.token /\ p.coords = q.coords
  BY <1>2 DEF Record, Fields
<1> HIDE DEF p
<1>8. NamedPlace(q)
  BY <1>2 DEF RequestsGood, Good
<1> HIDE DEF q
<1>9. Good(p, wasted[r], p.inst \in Instances /\ memory'[p.inst].refused, now)
  <2>1. p.pc \in Looking /\ p.pc \in Locating /\ p.pc \notin Searching
    BY <1>5, <1>7 DEF Searching, Locating, Looking, Calling
  <2>2. RequestOK(p) /\ FreshRequest(p, now)
    BY <1>2, <1>5, <1>7, <2>1 DEF RequestOK, FreshRequest
  <2>3. NamedPlace(p)
    BY <1>1, <1>5, <1>7, <1>8, <2>1 DEF NamedPlace, Looking, Calling, k
  <2>4. FewCalls(p, wasted[r], p.inst \in Instances /\ memory'[p.inst].refused)
    BY <1>2, <1>5, <1>7 DEF FewCalls
  <2> QED BY <2>2, <2>3, <2>4 DEF Good
<1>10. \A i \in Instances : memory[i].refused => memory'[i].refused
  BY <1>4
<1>11. RequestsGood'
  BY <1>1, <1>2, <1>6, <1>9, <1>10, OneUncounted
<1> QED BY <1>1, <1>2, <1>4, <1>11, RedisStays

(***************************************************************************)
(* The next query of a name, unless the process has been refused: so no    *)
(* query begins with calls wasted before it.                               *)
(***************************************************************************)
LEMMA GeoNextGood ==
  ASSUME RegionInv, NEW r \in Requests, GeoNext(r)
  PROVE  RequestsGood' /\ MemoryOK' /\ RedisOK'
<1> DEFINE q     == req[r]
           over  == q.query = Queries \/ memory[q.inst].refused
           ended == [q EXCEPT !.pc = "lost", !.key = None, !.try = 1, !.query = 1]
           again == [q EXCEPT !.pc = "key", !.query = q.query + 1]
<1>1. q.pc = "next" /\ q.pc \in Looking /\ now' = now /\ redis' = redis /\ wasted' = wasted /\ memory' = memory
  BY DEF GeoNext, Looking
<1>2. /\ Record(q) /\ q.inst \in Instances /\ RequestsGood /\ MemoryOK /\ RedisOK
      /\ wasted[r] \in Nat /\ wasted[r] <= NaverTries /\ (wasted[r] > 0 => memory[q.inst].refused)
  BY <1>1, LookingRequest
<1>3. NamedPlace(q)
  BY <1>2 DEF RequestsGood, Good
<1>4. q.query \in 1 .. Queries /\ Queries \in Nat
  BY <1>1, <1>3, PlacesBounds DEF NamedPlace
<1>5. \A i \in Instances : memory[i].refused => memory'[i].refused
  BY <1>1
<1>6. req = [s \in Requests |-> req[s]]
  BY <1>2 DEF RequestsGood
<1>7. CASE over
  <2>1. req' = [req EXCEPT ![r] = ended]
    BY <1>6, <1>7 DEF GeoNext
  <2>2. /\ Record(ended) /\ ended.pc = "lost" /\ ended.query = 1 /\ ended.inst = q.inst /\ ended.text = q.text
        /\ ended.name = q.name /\ ended.part = q.part /\ ended.place = q.place
        /\ ended.rest = q.rest /\ ended.token = q.token /\ ended.coords = q.coords
    BY <1>2 DEF Record, Fields
  <2> HIDE DEF ended, q, over
  <2>3. ended.pc \in Looking /\ ended.pc \in Locating /\ ended.pc \notin Searching /\ ended.pc \notin Calling
    BY <2>2 DEF Searching, Locating, Looking, Calling
  <2>4. RequestOK(ended) /\ FreshRequest(ended, now)
    BY <1>2, <2>2, <2>3 DEF RequestOK, FreshRequest
  <2>5. 1 \in 1 .. Queries
    BY <1>4
  <2>6. NamedPlace(ended)
    BY <1>1, <1>3, <2>2, <2>3, <2>5 DEF NamedPlace
  <2>7. FewCalls(ended, wasted[r], ended.inst \in Instances /\ memory'[ended.inst].refused)
    BY <1>1, <1>2, <2>2, <2>3 DEF FewCalls, Calling
  <2>8. Good(ended, wasted[r], ended.inst \in Instances /\ memory'[ended.inst].refused, now)
    BY <2>4, <2>6, <2>7 DEF Good
  <2>9. RequestsGood'
    BY <1>1, <1>2, <1>5, <2>1, <2>8, OneUncounted
  <2> QED BY <1>1, <1>2, <2>9, MemoryStays, RedisStays
<1>8. CASE ~over
  <2>1. req' = [req EXCEPT ![r] = again]
    BY <1>6, <1>8 DEF GeoNext
  <2>2. /\ Record(again) /\ again.pc = "key" /\ again.query = q.query + 1 /\ again.inst = q.inst
        /\ again.text = q.text /\ again.name = q.name /\ again.part = q.part /\ again.place = q.place
        /\ again.rest = q.rest /\ again.token = q.token /\ again.coords = q.coords
    BY <1>2 DEF Record, Fields
  <2>3. q.query + 1 \in 1 .. Queries /\ wasted[r] = 0
    BY <1>2, <1>4, <1>8
  <2> HIDE DEF again, q, over
  <2>4. again.pc \in Looking /\ again.pc \in Locating /\ again.pc \notin Searching /\ again.pc \notin Calling
    BY <2>2 DEF Searching, Locating, Looking, Calling
  <2>5. RequestOK(again) /\ FreshRequest(again, now)
    BY <1>2, <2>2, <2>4 DEF RequestOK, FreshRequest
  <2>6. NamedPlace(again)
    BY <1>1, <1>3, <2>2, <2>3, <2>4 DEF NamedPlace
  <2>7. FewCalls(again, wasted[r], again.inst \in Instances /\ memory'[again.inst].refused)
    BY <1>2, <2>2, <2>3, <2>4 DEF FewCalls, Calling
  <2>8. Good(again, wasted[r], again.inst \in Instances /\ memory'[again.inst].refused, now)
    BY <2>5, <2>6, <2>7 DEF Good
  <2>9. RequestsGood'
    BY <1>1, <1>2, <1>5, <2>1, <2>8, OneUncounted
  <2> QED BY <1>1, <1>2, <2>9, MemoryStays, RedisStays
<1> QED BY <1>7, <1>8

(***************************************************************************)
(* Every step of PlacesService.                                            *)
(***************************************************************************)
LEMMA PlacesStepGood ==
  ASSUME RegionInv, NEW r \in Requests, PlacesStep(r)
  PROVE  now' = now /\ RequestsGood' /\ MemoryOK' /\ RedisOK'
<1>1. now' = now
  BY DEF PlacesStep, FallbackStart, Begin, PlacesRead, FetchFinds, FetchAgain, FetchEmpty, Keep, KeepFails,
         CityStart, GeoKey, GeoRead, GeoFinds, GeoNothing, GeoRefused, GeoAgain, GeoKeep, GeoKeepFails, GeoNext, End
<1>2. CASE \E k \in Keys : FallbackStart(r, k)
  BY <1>1, <1>2, StartGood
<1>3. CASE PlacesRead(r)
  BY <1>1, <1>3, PlacesReadGood
<1>4. CASE FetchFinds(r)
  BY <1>1, <1>4, FetchFindsGood
<1>5. CASE FetchAgain(r) \/ FetchEmpty(r) \/ KeepFails(r)
  BY <1>1, <1>5, FetchGoesOn
<1>6. CASE Keep(r)
  BY <1>1, <1>6, KeepGood
<1>7. CASE CityStart(r) \/ GeoRead(r) \/ GeoKeep(r) \/ GeoKeepFails(r)
  BY <1>1, <1>7, LookingGoesOn
<1>8. CASE GeoKey(r)
  BY <1>1, <1>8, GeoKeyGood
<1>9. CASE GeoFinds(r) \/ GeoNothing(r) \/ GeoRefused(r) \/ GeoAgain(r)
  BY <1>1, <1>9, CallGood
<1>10. CASE GeoNext(r)
  BY <1>1, <1>10, GeoNextGood
<1>11. CASE End(r)
  BY <1>1, <1>11, EndGood
<1> QED BY <1>2, <1>3, <1>4, <1>5, <1>6, <1>7, <1>8, <1>9, <1>10, <1>11 DEF PlacesStep

-----------------------------------------------------------------------------
(* Names (RegionService), and where a plan is made (resolveLocation)        *)

(***************************************************************************)
(* As long as no alias is known, a name is a region or it is not.          *)
(***************************************************************************)
LEMMA NoAliases ==
  ASSUME NothingLearnt, NEW i \in Instances, NEW name
  PROVE  RegionOf(i, name) = IF name \in Registry THEN name ELSE None
<1>1. known[i] = NoAlias
  BY DEF NothingLearnt
<1> QED BY <1>1 DEF RegionOf, NoAlias

LEMMA BestIsFound ==
  ASSUME NEW found \in SUBSET Registry, found # {}
  PROVE  Best(found) \in found
<1>1. \E x \in found : \A y \in found : Rank[y] <= Rank[x]
  BY RegionsBounds
<1> QED BY <1>1 DEF Best

(***************************************************************************)
(* A plan is made where the text says, or in Seoul; and only a word of the *)
(* text that is no region is reported as unrecognised.                     *)
(***************************************************************************)
LEMMA LocationNamed ==
  ASSUME NothingLearnt, NEW i \in Instances, NEW t \in Texts
  PROVE  /\ resolveLocation(i, t) \in Sites(t)
         /\ Unrecognized(i, t) # None => /\ Unrecognized(i, t) \in Words /\ Candidates(i, t.names) = {}
                                         /\ resolveLocation(i, t) = Unrecognized(i, t)
<1> DEFINE found == Scan(i, t.names)
           said  == Scan(i, <<t.model>>)
<1>1. None \notin Registry /\ None \notin Words
  BY RegionsBounds
<1>2. found \subseteq Registry /\ found \subseteq Named(t)
  BY <1>1, NoAliases DEF Scan, Named
<1>3. said = IF t.model \in Registry THEN {t.model} ELSE {}
  <2>1. said = {RegionOf(i, t.model)} \ {None}
    BY DEF Scan
  <2> QED BY <1>1, <2>1, NoAliases
<1>4. ASSUME NamedByText(t)  PROVE t.model \in Named(t) \ {None} /\ t.model \in Registry \cup Words
  <2>1. t.model \in Named(t) \ {None}
    BY <1>4 DEF NamedByText, Named
  <2> QED BY <2>1, RegionsBounds DEF Texts
<1>5. CASE found # {}
  <2>1. Best(found) \in found
    BY <1>2, <1>5, BestIsFound
  <2>2. resolveLocation(i, t) = Best(found) /\ Unrecognized(i, t) = None
    BY <1>5 DEF resolveLocation, Unrecognized
  <2> HIDE DEF found
  <2> QED BY <1>1, <1>2, <2>1, <2>2 DEF Sites
<1>6. CASE found = {} /\ ~NamedByText(t)
  BY <1>6 DEF resolveLocation, Unrecognized, Sites
<1>7. CASE found = {} /\ NamedByText(t) /\ t.model \in Registry
  <2>1. said # {} /\ Best(said) \in said
    BY <1>3, <1>7, BestIsFound
  <2>2. resolveLocation(i, t) = t.model
    BY <1>3, <1>7, <2>1 DEF resolveLocation
  <2>3. Unrecognized(i, t) = None
    BY <1>1, <1>7, NoAliases DEF Unrecognized
  <2> QED BY <1>4, <1>7, <2>2, <2>3 DEF Sites
<1>8. CASE found = {} /\ NamedByText(t) /\ t.model \notin Registry
  <2>1. resolveLocation(i, t) = t.model
    BY <1>3, <1>8 DEF resolveLocation
  <2>2. Unrecognized(i, t) = t.model
    BY <1>8, NoAliases DEF Unrecognized
  <2>3. Candidates(i, t.names) = {}
    BY <1>8 DEF Scan, Candidates
  <2> QED BY <1>4, <1>8, <2>1, <2>2, <2>3 DEF Sites
<1> QED BY <1>5, <1>6, <1>7, <1>8

LEMMA CandidatesNamed ==
  ASSUME NothingLearnt, NEW i \in Instances, NEW t \in Texts
  PROVE  \A n \in Candidates(i, t.names) : n \in DOMAIN t.names /\ t.names[n] \in Registry
BY NoAliases DEF Candidates

(***************************************************************************)
(* A place of the text is resolved: its coordinates are known already, or  *)
(* they are looked up.                                                     *)
(***************************************************************************)
LEMMA ResolveGood ==
  ASSUME NothingLearnt, NEW q, Record(q), q.inst \in Instances, q.text \in Texts, q.query \in 1 .. Queries,
         q.part \in {"base", "anchor"}, q.part = "anchor" => q.place \in Sites(q.text),
         \A n \in q.rest : n \in DOMAIN q.text.names /\ q.text.names[n] \in Registry,
         NEW name \in Sites(q.text),
         q.token # None /\ q.part = "base" => q.token \in Words /\ q.rest = {} /\ name \in {q.token, Seoul},
         NEW w \in Nat, w <= NaverTries, w > 0 => memory'[q.inst].refused,
         NEW p, p = Resolve(q, q.inst, name)
  PROVE  Good(p, w, p.inst \in Instances /\ memory'[p.inst].refused, now)
<1> DEFINE region == RegionOf(q.inst, name)
           there  == [q EXCEPT !.pc = "found", !.name = name, !.coords = region]
           away   == [q EXCEPT !.pc = "city", !.name = name, !.coords = None]
<1>1. region \in Located => region = name /\ region # None
  BY NoAliases, RegionsBounds
<1>2. /\ Record(p) /\ p.pc \in {"found", "city"} /\ p.name = name
      /\ p.coords = (IF p.pc = "found" THEN name ELSE None) /\ (p.pc = "found" => p.coords # None)
      /\ p.inst = q.inst /\ p.text = q.text /\ p.query = q.query /\ p.part = q.part /\ p.place = q.place
      /\ p.rest = q.rest /\ p.token = q.token
  <2>1. CASE region \in Located
    <3>1. p = there
      BY <2>1 DEF Resolve
    <3>2. /\ Record(there) /\ there.pc = "found" /\ there.name = name /\ there.coords = region
          /\ there.inst = q.inst /\ there.text = q.text /\ there.query = q.query /\ there.part = q.part
          /\ there.place = q.place /\ there.rest = q.rest /\ there.token = q.token
      <4> HIDE DEF region
      <4> QED BY DEF Record, Fields
    <3> HIDE DEF there, region
    <3> QED BY <1>1, <2>1, <3>1, <3>2
  <2>2. CASE region \notin Located
    <3>1. p = away
      BY <2>2 DEF Resolve
    <3>2. /\ Record(away) /\ away.pc = "city" /\ away.name = name /\ away.coords = None
          /\ away.inst = q.inst /\ away.text = q.text /\ away.query = q.query /\ away.part = q.part
          /\ away.place = q.place /\ away.rest = q.rest /\ away.token = q.token
      BY DEF Record, Fields
    <3> HIDE DEF away
    <3> QED BY <3>1, <3>2
  <2> QED BY <2>1, <2>2
<1>3. p.pc \in Locating /\ p.pc \notin Searching /\ p.pc \notin Calling
  BY <1>2 DEF Searching, Locating, Looking, Calling
<1>4. RequestOK(p) /\ FreshRequest(p, now)
  BY <1>2, <1>3 DEF RequestOK, FreshRequest
<1>5. NamedPlace(p)
  <2>1. \A n \in p.rest : n \in DOMAIN p.text.names /\ p.text.names[n] \in Registry
    BY <1>2
  <2>2. p.token # None /\ p.part = "base" => p.token \in Words /\ p.rest = {} /\ p.name \in {p.token, Seoul}
    BY <1>2
  <2>3. /\ p.text \in Texts /\ p.name \in Sites(p.text) /\ p.query \in 1 .. Queries
        /\ p.part \in {"base", "anchor"} /\ (p.part = "anchor" => p.place \in Sites(p.text))
    BY <1>2
  <2>4. p.pc \in Looking => p.coords = None
    BY <1>2 DEF Looking, Calling
  <2> QED BY <1>2, <1>3, <2>1, <2>2, <2>3, <2>4 DEF NamedPlace
<1>6. FewCalls(p, w, p.inst \in Instances /\ memory'[p.inst].refused)
  BY <1>2, <1>3 DEF FewCalls, Calling
<1> QED BY <1>4, <1>5, <1>6 DEF Good

-----------------------------------------------------------------------------
(* Making a plan at a place (ExtractIntentStep)                             *)

LEMMA LocateStartGood ==
  ASSUME RegionInv, NEW r \in Requests, NEW i \in Instances, NEW t \in Texts, LocateStart(r, i, t)
  PROVE  RequestsGood'
<1> DEFINE token == Unrecognized(i, t)
           rest  == Candidates(i, t.names)
           name  == resolveLocation(i, t)
           q     == [Idle EXCEPT !.inst = i, !.text = t, !.token = token, !.rest = rest]
           p     == Resolve(q, i, name)
<1>0. /\ RequestsGood /\ NothingLearnt /\ NaverTries \in Nat /\ NaverTries > 0 /\ Queries \in Nat /\ Queries > 0
      /\ now' = now /\ memory' = memory /\ wasted' = wasted /\ req[r].pc = "idle"
  BY PlacesBounds DEF RegionInv, LocateStart
<1>1. req' = [req EXCEPT ![r] = p]
  BY DEF LocateStart
<1>2. wasted[r] = 0
  BY <1>0 DEF RequestsGood, Good, FewCalls, Locating, Looking, Calling
<1>3. name \in Sites(t) /\ (token # None => token \in Words /\ rest = {} /\ name = token)
  BY <1>0, LocationNamed
<1>4. \A n \in rest : n \in DOMAIN t.names /\ t.names[n] \in Registry
  BY <1>0, CandidatesNamed
<1> HIDE DEF token, rest, name
<1>5. /\ Record(q) /\ q.inst = i /\ q.text = t /\ q.token = token /\ q.rest = rest
      /\ q.query = 1 /\ q.part = "base"
  BY IdleFields DEF Record, Fields
<1> HIDE DEF q
<1>6. p = Resolve(q, q.inst, name)
  BY <1>5
<1> HIDE DEF p
<1>7. /\ q.inst \in Instances /\ q.text \in Texts /\ q.query \in 1 .. Queries /\ q.part \in {"base", "anchor"}
      /\ q.part # "anchor" /\ name \in Sites(q.text)
  BY <1>0, <1>3, <1>5
<1>8. \A n \in q.rest : n \in DOMAIN q.text.names /\ q.text.names[n] \in Registry
  BY <1>4, <1>5
<1>9. q.token # None /\ q.part = "base" => q.token \in Words /\ q.rest = {} /\ name \in {q.token, Seoul}
  BY <1>3, <1>5
<1>10. wasted[r] \in Nat /\ wasted[r] <= NaverTries /\ (wasted[r] > 0 => memory'[q.inst].refused)
  BY <1>0, <1>2
<1>11. Good(p, wasted[r], p.inst \in Instances /\ memory'[p.inst].refused, now)
  BY <1>0, <1>5, <1>6, <1>7, <1>8, <1>9, <1>10, ResolveGood
<1>12. \A j \in Instances : memory[j].refused => memory'[j].refused
  BY <1>0
<1> QED BY <1>0, <1>1, <1>11, <1>12, OneUncounted

(***************************************************************************)
(* What a request for a plan knows while its place is found.               *)
(***************************************************************************)
LEMMA FoundRequest ==
  ASSUME RegionInv, NEW r \in Requests, req[r].pc \in {"lost", "found"}
  PROVE  /\ Record(req[r]) /\ req[r].inst \in Instances /\ RequestsGood /\ NothingLearnt
         /\ wasted[r] \in Nat /\ wasted[r] <= NaverTries /\ (wasted[r] > 0 => memory[req[r].inst].refused)
         /\ NamedPlace(req[r]) /\ req[r].pc \in Looking \cup {"found"}
<1>1. Good(req[r], wasted[r], RefusedTo(req[r]), now) /\ RequestsGood /\ NothingLearnt
  BY DEF RegionInv, RequestsGood
<1>2. req[r].pc # "idle" /\ req[r].pc \in Looking \cup {"found"}
  BY DEF Looking
<1> QED BY <1>1, <1>2 DEF Good, RequestOK, FewCalls, RefusedTo

(***************************************************************************)
(* The next candidate of the text, or Seoul.                               *)
(***************************************************************************)
LEMMA LostGood ==
  ASSUME RegionInv, NEW r \in Requests, Lost(r)
  PROVE  RequestsGood'
<1> DEFINE q == req[r]
<1>0. q.pc = "lost" /\ now' = now /\ memory' = memory /\ wasted' = wasted
  BY DEF Lost
<1>1. /\ Record(q) /\ q.inst \in Instances /\ RequestsGood /\ NothingLearnt
      /\ wasted[r] \in Nat /\ wasted[r] <= NaverTries /\ (wasted[r] > 0 => memory[q.inst].refused)
      /\ NamedPlace(q) /\ q.pc \in Looking \cup {"found"} /\ q.pc \in Looking
  BY <1>0, FoundRequest DEF Looking
<1>2. /\ q.text \in Texts /\ q.query \in 1 .. Queries /\ q.coords = None
      /\ q.part \in {"base", "anchor"} /\ (q.part = "anchor" => q.place \in Sites(q.text))
      /\ \A n \in q.rest : n \in DOMAIN q.text.names /\ q.text.names[n] \in Registry
      /\ q.token # None /\ q.part = "base" => q.token \in Words /\ q.rest = {}
  BY <1>1 DEF NamedPlace
<1>3. \A j \in Instances : memory[j].refused => memory'[j].refused
  BY <1>0
<1>4. Seoul # None /\ Seoul \in Sites(q.text)
  BY RegionsBounds DEF Sites
<1>5. CASE q.rest = {}
  <2> DEFINE p == [q EXCEPT !.pc = "found", !.name = Seoul, !.coords = Seoul]
  <2>1. req' = [req EXCEPT ![r] = p]
    BY <1>5 DEF Lost
  <2>2. /\ Record(p) /\ p.pc = "found" /\ p.name = Seoul /\ p.coords = Seoul /\ p.inst = q.inst
        /\ p.text = q.text /\ p.query = q.query /\ p.part = q.part /\ p.place = q.place
        /\ p.rest = q.rest /\ p.token = q.token
    BY <1>1 DEF Record, Fields
  <2> HIDE DEF p, q
  <2>3. p.pc \in Locating /\ p.pc \notin Searching /\ p.pc \notin Calling /\ p.pc \notin Looking
    BY <2>2 DEF Searching, Locating, Looking, Calling
  <2>4. RequestOK(p) /\ FreshRequest(p, now)
    BY <1>1, <2>2, <2>3 DEF RequestOK, FreshRequest
  <2>5. NamedPlace(p)
    BY <1>2, <1>4, <1>5, <2>2, <2>3 DEF NamedPlace
  <2>6. FewCalls(p, wasted[r], p.inst \in Instances /\ memory'[p.inst].refused)
    BY <1>0, <1>1, <2>2, <2>3 DEF FewCalls, Calling
  <2>7. Good(p, wasted[r], p.inst \in Instances /\ memory'[p.inst].refused, now)
    BY <2>4, <2>5, <2>6 DEF Good
  <2> QED BY <1>0, <1>1, <1>3, <2>1, <2>7, OneUncounted
<1>6. CASE q.rest # {}
  <2>1. PICK n \in q.rest : req' = [req EXCEPT ![r] = [q EXCEPT !.pc = "city", !.rest = q.rest \ {n},
                                                    !.name = RegionOf(q.inst, q.text.names[n])]]
    BY <1>6 DEF Lost
  <2> DEFINE name == RegionOf(q.inst, q.text.names[n])
             rest == q.rest \ {n}
             p    == [q EXCEPT !.pc = "city", !.rest = rest, !.name = name]
  <2>2. req' = [req EXCEPT ![r] = p]
    BY <2>1
  <2>3. name \in Sites(q.text)
    <3>1. n \in DOMAIN q.text.names /\ q.text.names[n] \in Registry
      BY <1>2
    <3>2. name = q.text.names[n]
      BY <1>1, <3>1, NoAliases
    <3> QED BY <3>1, <3>2, RegionsBounds DEF Sites, Named
  <2> HIDE DEF name, rest
  <2>4. /\ Record(p) /\ p.pc = "city" /\ p.name = name /\ p.rest = rest /\ p.inst = q.inst
        /\ p.text = q.text /\ p.query = q.query /\ p.part = q.part /\ p.place = q.place
        /\ p.token = q.token /\ p.coords = q.coords
    BY <1>1 DEF Record, Fields
  <2>5. \A m \in rest : m \in q.rest
    BY DEF rest
  <2>6. ~(q.token # None /\ q.part = "base")
    BY <1>2, <1>6
  <2> HIDE DEF p, q
  <2>7. p.pc \in Locating /\ p.pc \notin Searching /\ p.pc \notin Calling
    BY <2>4 DEF Searching, Locating, Looking, Calling
  <2>8. RequestOK(p) /\ FreshRequest(p, now)
    BY <1>1, <2>4, <2>7 DEF RequestOK, FreshRequest
  <2>9. NamedPlace(p)
    BY <1>2, <2>3, <2>4, <2>5, <2>6, <2>7 DEF NamedPlace
  <2>10. FewCalls(p, wasted[r], p.inst \in Instances /\ memory'[p.inst].refused)
    BY <1>0, <1>1, <2>4, <2>7 DEF FewCalls, Calling
  <2>11. Good(p, wasted[r], p.inst \in Instances /\ memory'[p.inst].refused, now)
    BY <2>8, <2>9, <2>10 DEF Good
  <2> QED BY <1>0, <1>1, <1>3, <2>2, <2>11, OneUncounted
<1> QED BY <1>5, <1>6

(***************************************************************************)
(* What was looked for is found: the anchor is looked for next, or the     *)
(* plan is made there.  A word is learnt only where it is itself the place.*)
(***************************************************************************)
LEMMA FoundGood ==
  ASSUME RegionInv, NEW r \in Requests, Found(r)
  PROVE  RequestsGood' /\ LearningOK'
<1> DEFINE q      == req[r]
           t      == q.text
           coords == IF q.coords = None THEN q.key ELSE q.coords
           anchor == q.part = "base" /\ t.anchor # None /\ RegionOf(q.inst, t.anchor) # None
                       /\ RegionOf(q.inst, t.anchor) # q.name
           place  == IF q.part = "base" THEN q.name ELSE q.place
           name   == RegionOf(q.inst, t.anchor)
           rest   == Candidates(q.inst, t.names)
           q1     == [q EXCEPT !.part = "anchor", !.place = q.name, !.key = None, !.try = 1, !.query = 1,
                               !.rest = rest]
           located == [q EXCEPT !.pc = "located", !.place = place, !.search = q.name,
                                !.coords = coords, !.key = None, !.rest = {}, !.try = 1, !.query = 1]
<1>0. q.pc = "found" /\ now' = now /\ memory' = memory /\ wasted' = wasted
  BY DEF Found
<1>1. /\ Record(q) /\ q.inst \in Instances /\ RequestsGood /\ NothingLearnt
      /\ wasted[r] \in Nat /\ wasted[r] <= NaverTries /\ (wasted[r] > 0 => memory[q.inst].refused)
      /\ NamedPlace(q)
  BY <1>0, FoundRequest
<1>2. /\ t \in Texts /\ q.name \in Sites(t) /\ q.query \in 1 .. Queries
      /\ q.part \in {"base", "anchor"} /\ (q.part = "anchor" => q.place \in Sites(t))
      /\ q.token # None /\ q.part = "base" => q.token \in Words /\ q.name \in {q.token, Seoul}
      /\ q.coords = None => q.key = <<q.name, q.query>>
      /\ q.coords # None => q.coords = q.name
  BY <1>0, <1>1 DEF NamedPlace
<1>3. \A j \in Instances : memory[j].refused => memory'[j].refused
  BY <1>0
<1>4. RequestsGood'
  <2>1. CASE anchor
    <3> DEFINE p == Resolve(q1, q.inst, name)
    <3>1. req' = [req EXCEPT ![r] = p]
      BY <2>1 DEF Found
    <3>2. name \in Sites(t)
      <4>1. t.anchor \in Registry /\ name = t.anchor
        BY <1>1, <2>1, NoAliases
      <4>2. t.anchor \in Named(t)
        BY <1>2, <2>1, RegionsBounds DEF Texts, Named
      <4> QED BY <4>1, <4>2, RegionsBounds DEF Sites
    <3>3. \A n \in rest : n \in DOMAIN t.names /\ t.names[n] \in Registry
      BY <1>1, <1>2, CandidatesNamed
    <3>4. 1 \in 1 .. Queries
      BY PlacesBounds
    <3> HIDE DEF name, rest
    <3>5. /\ Record(q1) /\ q1.inst = q.inst /\ q1.text = t /\ q1.query = 1 /\ q1.part = "anchor"
          /\ q1.place = q.name /\ q1.rest = rest
      <4> DEFINE q0 == [q EXCEPT !.part = "anchor", !.place = q.name, !.key = None]
      <4>1. /\ Record(q0) /\ q0.inst = q.inst /\ q0.text = t /\ q0.part = "anchor" /\ q0.place = q.name
        BY <1>1 DEF Record, Fields
      <4>2. q1 = [q0 EXCEPT !.try = 1, !.query = 1, !.rest = rest]
        BY <1>1 DEF Record, Fields
      <4> HIDE DEF q0, q1
      <4> QED BY <4>1, <4>2 DEF Record, Fields
    <3> HIDE DEF q1
    <3>6. p = Resolve(q1, q1.inst, name)
      BY <3>5
    <3> HIDE DEF p, q, t
    <3>7. q1.inst \in Instances /\ q1.text \in Texts /\ q1.query \in 1 .. Queries
      BY <1>1, <1>2, <3>4, <3>5
    <3>8. q1.part \in {"base", "anchor"} /\ (q1.part = "anchor" => q1.place \in Sites(q1.text))
      BY <1>2, <3>5
    <3>9. \A n \in q1.rest : n \in DOMAIN q1.text.names /\ q1.text.names[n] \in Registry
      BY <3>3, <3>5
    <3>10. name \in Sites(q1.text)
      BY <3>2, <3>5
    <3>11. q1.token # None /\ q1.part = "base" => q1.token \in Words /\ q1.rest = {} /\ name \in {q1.token, Seoul}
      BY <3>5
    <3>12. wasted[r] \in Nat /\ wasted[r] <= NaverTries /\ (wasted[r] > 0 => memory'[q1.inst].refused)
      BY <1>0, <1>1, <3>5
    <3>13. Good(p, wasted[r], p.inst \in Instances /\ memory'[p.inst].refused, now)
      BY <1>1, <3>5, <3>6, <3>7, <3>8, <3>9, <3>10, <3>11, <3>12, ResolveGood
    <3> QED BY <1>0, <1>1, <1>3, <3>1, <3>13, OneUncounted
  <2>2. CASE ~anchor
    <3>1. req' = [req EXCEPT ![r] = located]
      BY <2>2 DEF Found
    <3>2. place \in Sites(t) /\ coords \in ({q.name} \X (1 .. Queries)) \cup {q.name}
      BY <1>2
    <3> HIDE DEF place, coords, anchor
    <3>3. /\ Record(located) /\ located.pc = "located" /\ located.place = place /\ located.search = q.name
          /\ located.coords = coords /\ located.inst = q.inst /\ located.text = t
      <4> DEFINE q0 == [q EXCEPT !.pc = "located", !.place = place, !.search = q.name, !.coords = coords]
      <4>1. /\ Record(q0) /\ q0.pc = "located" /\ q0.place = place /\ q0.search = q.name
            /\ q0.coords = coords /\ q0.inst = q.inst /\ q0.text = t
        BY <1>1 DEF Record, Fields
      <4>2. located = [q0 EXCEPT !.key = None, !.rest = {}, !.try = 1, !.query = 1]
        BY <1>1 DEF Record, Fields
      <4> HIDE DEF q0, located
      <4> QED BY <4>1, <4>2 DEF Record, Fields
    <3> HIDE DEF located, q, t
    <3>4. /\ located.pc \in Locating /\ located.pc \notin Searching /\ located.pc \notin Calling
          /\ located.pc \notin Looking \cup {"found"}
      BY <3>3 DEF Searching, Locating, Looking, Calling
    <3>5. RequestOK(located) /\ FreshRequest(located, now)
      BY <1>1, <3>3, <3>4 DEF RequestOK, FreshRequest
    <3>6. NamedPlace(located)
      BY <1>2, <3>2, <3>3, <3>4 DEF NamedPlace
    <3>7. FewCalls(located, wasted[r], located.inst \in Instances /\ memory'[located.inst].refused)
      BY <1>0, <1>1, <3>3, <3>4 DEF FewCalls, Calling
    <3>8. Good(located, wasted[r], located.inst \in Instances /\ memory'[located.inst].refused, now)
      BY <3>5, <3>6, <3>7 DEF Good
    <3> QED BY <1>0, <1>1, <1>3, <3>1, <3>8, OneUncounted
  <2> QED BY <2>1, <2>2
<1>5. LearningOK'
  <2> DEFINE task == [pc |-> "count", inst |-> q.inst, word |-> q.token, to |-> q.name]
  <2>1. LearningOK
    BY DEF RegionInv
  <2>2. CASE learn' = learn
    BY <2>1, <2>2 DEF LearningOK
  <2>3. CASE q.part = "base" /\ q.token # None /\ q.name # Seoul /\ learn' = [learn EXCEPT ![r] = task]
    <3>1. task.inst \in Instances /\ task.word \in Words /\ task.to \in Words
      BY <1>1, <1>2, <2>3
    <3>2. task = [pc |-> task.pc, inst |-> task.inst, word |-> task.word, to |-> task.to]
      OBVIOUS
    <3> HIDE DEF task
    <3> QED BY <2>1, <2>3, <3>1, <3>2 DEF LearningOK
  <2> QED BY <2>2, <2>3 DEF Found
<1> QED BY <1>4, <1>5

LEMMA LocateGood ==
  ASSUME RegionInv, NEW r \in Requests,
         \/ \E i \in Instances, t \in part.texts : LocateStart(r, i, t)
         \/ Lost(r) \/ Found(r) \/ LocateEnd(r)
  PROVE  RegionInv'
<1>1. /\ now \in Nat /\ part \in Parts /\ RequestsGood /\ MemoryOK /\ RedisOK /\ LearningOK /\ NothingLearnt
  BY DEF RegionInv
<1>2. now' = now /\ memory' = memory /\ redis' = redis /\ part' = part /\ known' = known
  BY DEF LocateStart, Lost, Found, LocateEnd
<1>3. MemoryOK' /\ RedisOK' /\ NothingLearnt' /\ now' \in Nat /\ part' \in Parts
  BY <1>1, <1>2, MemoryStays, RedisStays DEF NothingLearnt
<1>4. CASE \E i \in Instances, t \in part.texts : LocateStart(r, i, t)
  <2>1. PICK i \in Instances, t \in part.texts : LocateStart(r, i, t)
    BY <1>4
  <2>2. t \in Texts
    BY <1>1 DEF Texts
  <2>3. RequestsGood'
    BY <2>1, <2>2, LocateStartGood
  <2>4. learn' = learn
    BY <2>1 DEF LocateStart
  <2> QED BY <1>1, <1>3, <2>3, <2>4 DEF RegionInv, LearningOK
<1>5. CASE Lost(r)
  <2>1. RequestsGood' /\ learn' = learn
    BY <1>5, LostGood DEF Lost
  <2> QED BY <1>1, <1>3, <2>1 DEF RegionInv, LearningOK
<1>6. CASE Found(r)
  <2>1. RequestsGood' /\ LearningOK'
    BY <1>6, FoundGood
  <2> QED BY <1>3, <2>1 DEF RegionInv
<1>7. CASE LocateEnd(r)
  <2>1. req' = [req EXCEPT ![r] = Idle] /\ wasted' = [wasted EXCEPT ![r] = 0] /\ learn' = learn
    BY <1>7 DEF LocateEnd
  <2>2. RequestsGood'
    BY <1>1, <1>2, <2>1, OneEnds
  <2> QED BY <1>1, <1>3, <2>1, <2>2 DEF RegionInv, LearningOK
<1> QED BY <1>4, <1>5, <1>6, <1>7

-----------------------------------------------------------------------------
(* Learning aliases (AliasLearningService), and a restart                   *)

(***************************************************************************)
(* A word that is no region is never taken for one: addDynamicAlias is     *)
(* given the word itself.                                                  *)
(***************************************************************************)
LEMMA AliasRefused ==
  ASSUME NEW aliases, NEW word, NEW canonical, canonical \notin Registry
  PROVE  addDynamicAlias(aliases, word, canonical) = aliases
BY DEF addDynamicAlias

LEMMA RequestsStay ==
  ASSUME RequestsGood, now' = now, memory' = memory, req' = req, wasted' = wasted  PROVE RequestsGood'
<1>1. \A s \in Requests : RefusedTo(req[s])' = RefusedTo(req[s])
  BY DEF RefusedTo
<1> QED BY <1>1 DEF RequestsGood

LEMMA LearnGood ==
  ASSUME RegionInv, NEW r \in Requests, LearnCount(r) \/ LearnLook(r) \/ LearnSet(r) \/ LearnFails(r)
  PROVE  RegionInv'
<1> DEFINE l == learn[r]
<1>1. /\ now \in Nat /\ part \in Parts /\ RequestsGood /\ MemoryOK /\ RedisOK /\ LearningOK /\ NothingLearnt
      /\ l.pc # "idle" /\ now' = now /\ memory' = memory /\ part' = part /\ req' = req /\ wasted' = wasted
  BY DEF RegionInv, LearnCount, LearnLook, LearnSet, LearnFails
<1>2. RequestsGood' /\ MemoryOK'
  BY <1>1, RequestsStay, MemoryStays
<1>3. /\ l = [pc |-> l.pc, inst |-> l.inst, word |-> l.word, to |-> l.to]
      /\ l.inst \in Instances /\ l.word \in Words /\ l.to \in Words /\ l.to \notin Registry
  BY <1>1, RegionsBounds DEF LearningOK
<1>4. LearningOK'
  <2>1. PICK m : /\ learn' = [learn EXCEPT ![r] = m]
                 /\ m = NoLearning \/ \E pc : m = [l EXCEPT !.pc = pc]
    BY DEF LearnCount, LearnLook, LearnSet, LearnFails
  <2>2. /\ m = [pc |-> m.pc, inst |-> m.inst, word |-> m.word, to |-> m.to]
        /\ m.pc # "idle" => m.inst \in Instances /\ m.word \in Words /\ m.to \in Words
    BY <1>3, <2>1 DEF NoLearning
  <2> QED BY <1>1, <2>1, <2>2 DEF LearningOK
<1>5. RedisOK' /\ NothingLearnt'
  <2>1. CASE LearnCount(r)
    <3>1. PICK logged : redis' = [redis EXCEPT !.count[l.word] = IF logged < Threshold THEN logged + 1 ELSE logged]
      BY <2>1 DEF LearnCount
    <3>2. /\ redis' = [on |-> redis'.on, places |-> redis'.places, geo |-> redis'.geo,
                      count |-> redis'.count, alias |-> redis'.alias]
          /\ redis'.places = redis.places /\ redis'.alias = redis.alias
      BY <1>1, <3>1 DEF RedisOK
    <3>3. known' = known
      BY <2>1 DEF LearnCount
    <3> QED BY <1>1, <3>2, <3>3 DEF RedisOK, NothingLearnt
  <2>2. CASE LearnLook(r) \/ LearnFails(r)
    <3>1. redis' = redis /\ known' = known
      BY <2>2 DEF LearnLook, LearnFails
    <3> QED BY <1>1, <3>1, RedisStays DEF NothingLearnt
  <2>3. CASE LearnSet(r)
    <3>1. /\ redis' = [redis EXCEPT !.alias[l.word] = l.to]
          /\ known' = [known EXCEPT ![l.inst] = addDynamicAlias(known[l.inst], l.word, l.to)]
      BY <2>3 DEF LearnSet
    <3>2. NothingLearnt'
      <4>1. known' = [known EXCEPT ![l.inst] = known[l.inst]]
        BY <1>3, <3>1, AliasRefused
      <4> QED BY <1>1, <4>1 DEF NothingLearnt
    <3>3. /\ redis' = [on |-> redis'.on, places |-> redis'.places, geo |-> redis'.geo,
                      count |-> redis'.count, alias |-> redis'.alias]
          /\ redis'.places = redis.places /\ redis'.alias = [redis.alias EXCEPT ![l.word] = l.to]
      BY <1>1, <3>1 DEF RedisOK
    <3>4. redis'.alias = [w \in Words |-> redis'.alias[w]] /\ \A w \in Words : redis'.alias[w] \notin Registry
      BY <1>1, <1>3, <3>3 DEF RedisOK
    <3> QED BY <1>1, <3>2, <3>3, <3>4 DEF RedisOK
  <2> QED BY <2>1, <2>2, <2>3
<1> QED BY <1>1, <1>2, <1>4, <1>5 DEF RegionInv

(***************************************************************************)
(* A process starts again: its requests are gone, it has not been refused, *)
(* and it reloads no alias, for none is kept that it would take.           *)
(***************************************************************************)
LEMMA RestartGood ==
  ASSUME RegionInv, NEW i \in Instances, Restart(i)
  PROVE  RegionInv'
<1>1. /\ now \in Nat /\ part \in Parts /\ RequestsGood /\ MemoryOK /\ RedisOK /\ LearningOK /\ NothingLearnt
      /\ now' = now /\ redis' = redis /\ part' = part /\ memory' = [memory EXCEPT ![i] = Empty]
      /\ req' = [r \in Requests |-> IF req[r].inst = i THEN Idle ELSE req[r]]
      /\ wasted' = [r \in Requests |-> IF req[r].inst = i THEN 0 ELSE wasted[r]]
      /\ learn' = [r \in Requests |-> IF learn[r].inst = i THEN NoLearning ELSE learn[r]]
  BY DEF RegionInv, Restart
<1>2. MemoryOK' /\ \A j \in Instances : j # i => memory'[j] = memory[j]
  <2>1. memory' = [j \in Instances |-> memory'[j]] /\ \A j \in Instances : j # i => memory'[j] = memory[j]
    BY <1>1 DEF MemoryOK
  <2>2. memory'[i] = Empty
    BY <1>1 DEF MemoryOK
  <2>3. <<>> \in Seq(Entries(now))
    BY EmptySeq
  <2>4. /\ Empty.recent = <<>> /\ Empty.refused = FALSE
        /\ Empty = [flags |-> Empty.flags, recent |-> Empty.recent, refused |-> Empty.refused]
    BY DEF Empty
  <2>5. ASSUME NEW j \in Instances
        PROVE  /\ memory'[j] = [flags |-> memory'[j].flags, recent |-> memory'[j].recent,
                                refused |-> memory'[j].refused]
               /\ memory'[j].recent \in Seq(Entries(now')) /\ memory'[j].refused \in BOOLEAN
    <3>1. CASE j = i
      BY <1>1, <2>2, <2>3, <2>4, <3>1
    <3>2. CASE j # i
      BY <1>1, <2>1, <3>2 DEF MemoryOK
    <3> QED BY <3>1, <3>2
  <2> QED BY <2>1, <2>5 DEF MemoryOK
<1>3. RequestsGood'
  <2>1. ASSUME NEW r \in Requests
        PROVE  Good(req'[r], wasted'[r], req'[r].inst \in Instances /\ memory'[req'[r].inst].refused, now')
    <3>1. CASE req[r].inst = i
      <4>1. req'[r] = Idle /\ wasted'[r] = 0
        BY <1>1, <3>1
      <4>2. Good(Idle, 0, Idle.inst \in Instances /\ memory'[Idle.inst].refused, now')
        BY IdleGood
      <4> QED BY <4>1, <4>2
    <3>2. CASE req[r].inst # i
      <4>1. req'[r] = req[r] /\ wasted'[r] = wasted[r]
        BY <1>1, <3>2
      <4>2. Good(req[r], wasted[r], RefusedTo(req[r]), now)
        BY <1>1 DEF RequestsGood
      <4>3. RefusedTo(req[r]) => req[r].inst \in Instances /\ memory'[req[r].inst].refused
        BY <1>2, <3>2 DEF RefusedTo
      <4> QED BY <1>1, <4>1, <4>2, <4>3 DEF Good, FewCalls
    <3> QED BY <3>1, <3>2
  <2>2. req' = [r \in Requests |-> req'[r]] /\ wasted' = [r \in Requests |-> wasted'[r]]
    BY <1>1
  <2> QED BY <2>1, <2>2 DEF RequestsGood, RefusedTo
<1>4. LearningOK'
  BY <1>1 DEF LearningOK, NoLearning
<1>5. NothingLearnt'
  <2>1. \A w \in Words : addDynamicAlias(NoAlias, w, redis.alias[w]) = NoAlias
    BY <1>1, AliasRefused DEF RedisOK
  <2>2. Reloaded = NoAlias
    BY <2>1 DEF Reloaded, NoAlias
  <2>3. known' = [known EXCEPT ![i] = NoAlias]
    BY <2>2 DEF Restart
  <2> QED BY <1>1, <2>3 DEF NothingLearnt
<1> QED BY <1>1, <1>2, <1>3, <1>4, <1>5, RedisStays DEF RegionInv

-----------------------------------------------------------------------------
(* The theorems                                                             *)

LEMMA RegionStart == Init => RegionInv
<1> SUFFICES ASSUME Init  PROVE RegionInv
  OBVIOUS
<1>1. /\ now = 0 /\ req = [r \in Requests |-> Idle] /\ wasted = [r \in Requests |-> 0] /\ part \in Parts
      /\ memory = [i \in Instances |-> Empty] /\ known = [i \in Instances |-> NoAlias]
      /\ learn = [r \in Requests |-> NoLearning]
  BY DEF Init, PlacesInit
<1>2. RequestsGood
  <2>1. ASSUME NEW r \in Requests  PROVE Good(req[r], wasted[r], RefusedTo(req[r]), now)
    <3>1. req[r] = Idle /\ wasted[r] = 0
      BY <1>1
    <3>2. Good(Idle, 0, RefusedTo(Idle), now)
      BY IdleGood
    <3> QED BY <3>1, <3>2
  <2> QED BY <1>1, <2>1 DEF RequestsGood
<1>3. MemoryOK
  <2>1. <<>> \in Seq(Entries(now))
    BY EmptySeq
  <2> QED BY <1>1, <2>1 DEF MemoryOK, Empty
<1>4. RedisOK
  <2>1. NoAnswer \in Kept(now)
    BY <1>1, PlacesBounds DEF Kept, NoAnswer
  <2>2. PICK on \in BOOLEAN : redis = [on |-> on, places |-> [k \in Keys |-> NoAnswer], geo |-> {},
                                      count |-> [w \in Words |-> 0], alias |-> NoAlias]
    BY DEF Init
  <2>3. redis.places = [k \in Keys |-> NoAnswer] /\ redis.alias = NoAlias
    BY <2>2
  <2>4. redis = [on |-> redis.on, places |-> redis.places, geo |-> redis.geo,
                 count |-> redis.count, alias |-> redis.alias]
    BY <2>2
  <2>5. None \notin Registry
    BY RegionsBounds
  <2> QED BY <2>1, <2>3, <2>4, <2>5 DEF RedisOK, NoAlias
<1>5. LearningOK /\ NothingLearnt
  BY <1>1 DEF LearningOK, NoLearning, NothingLearnt
<1> QED BY <1>1, <1>2, <1>3, <1>4, <1>5 DEF RegionInv

LEMMA RegionKept == RegionInv /\ [Next]_vars => RegionInv'
<1> SUFFICES ASSUME RegionInv, [Next]_vars  PROVE RegionInv'
  OBVIOUS
<1>1. /\ now \in Nat /\ part \in Parts /\ RequestsGood /\ MemoryOK /\ RedisOK /\ LearningOK /\ NothingLearnt
  BY DEF RegionInv
<1>2. ASSUME part' = part, known' = known, learn' = learn,
             now' \in Nat, RequestsGood', MemoryOK', RedisOK'
      PROVE  RegionInv'
  BY <1>1, <1>2 DEF RegionInv, LearningOK, NothingLearnt
<1>3. CASE (\E r \in Requests : PlacesStep(r)) /\ UNCHANGED <<part, known, learn>>
  BY <1>1, <1>2, <1>3, PlacesStepGood
<1>4. CASE /\ \E r \in Requests, i \in Instances, k \in part.keys : SearchStart(r, i, k)
           /\ UNCHANGED <<part, known, learn>>
  <2>1. PICK r \in Requests, i \in Instances, k \in part.keys : SearchStart(r, i, k)
    BY <1>4
  <2>2. k \in Keys
    BY <1>1, RegionsBounds
  <2>3. RequestsGood' /\ MemoryOK' /\ RedisOK' /\ now' = now
    BY <2>1, <2>2, StartGood DEF SearchStart, Begin
  <2> QED BY <1>1, <1>2, <1>4, <2>3
<1>5. CASE Tick /\ UNCHANGED <<part, known, learn>>
  BY <1>2, <1>5, TickGood
<1>6. CASE \E r \in Requests : \/ \E i \in Instances, t \in part.texts : LocateStart(r, i, t)
                               \/ Lost(r) \/ Found(r) \/ LocateEnd(r)
  BY <1>6, LocateGood
<1>7. CASE \E r \in Requests : LearnCount(r) \/ LearnLook(r) \/ LearnSet(r) \/ LearnFails(r)
  BY <1>7, LearnGood
<1>8. CASE \E i \in Instances : Restart(i)
  BY <1>8, RestartGood
<1>9. CASE UNCHANGED vars
  <2>1. /\ now' = now /\ memory' = memory /\ redis' = redis /\ req' = req /\ wasted' = wasted
        /\ part' = part /\ known' = known /\ learn' = learn
    BY <1>9 DEF vars, placesVars
  <2> QED BY <1>1, <1>2, <2>1, RequestsStay, MemoryStays, RedisStays
<1> QED BY <1>3, <1>4, <1>5, <1>6, <1>7, <1>8, <1>9 DEF Next

LEMMA RegionAlways == Spec => []RegionInv
BY RegionStart, RegionKept, PTL DEF Spec

(***************************************************************************)
(* No search answers with places that are older than the cache they come   *)
(* from keeps them (TTLCache, and the expiry of Redis), for any lives of   *)
(* the entries, and however many searches of a key overlap.                *)
(***************************************************************************)
THEOREM AnswersAreFresh == Spec => []AnswersFresh
<1>1. RegionInv => AnswersFresh
  BY DEF RegionInv, RequestsGood, Good, FreshRequest, AnswersFresh
<1> QED BY <1>1, RegionAlways, PTL

(***************************************************************************)
(* A process that Naver has refused (naverUnauthorized) spends at most the *)
(* tries of one query per request on it, for any number of requests,       *)
(* queries and tries.                                                      *)
(***************************************************************************)
THEOREM RefusalsEnd == Spec => []RefusedCallsBounded
<1>1. RegionInv => RefusedCallsBounded
  BY DEF RegionInv, RequestsGood, Good, FewCalls, RefusedCallsBounded
<1> QED BY <1>1, RegionAlways, PTL

(***************************************************************************)
(* A plan is made where its text says, or in Seoul, and at the coordinates *)
(* of that place, whatever the language model names (resolveLocation,      *)
(* ExtractIntentStep), for any texts and any registry.                     *)
(***************************************************************************)
THEOREM PlacesNamed == Spec => []PlaceFromText
<1>1. RegionInv => PlaceFromText
  <2> SUFFICES ASSUME RegionInv, NEW r \in Requests, req[r].pc = "located"
               PROVE  LET q == req[r]  named == {q.text.names[n] : n \in DOMAIN q.text.names} IN
                      /\ {q.place, q.search} \subseteq named \cup {Seoul}
                      /\ q.coords \in ({q.search} \X (1 .. Queries)) \cup {q.search}
    BY DEF PlaceFromText
  <2>1. NamedPlace(req[r])
    BY DEF RegionInv, RequestsGood, Good
  <2> QED BY <2>1 DEF NamedPlace, Sites, Named
<1> QED BY <1>1, RegionAlways, PTL

(***************************************************************************)
(* AliasLearningService never gives a process an alias: what it counts and *)
(* promotes is a word that stands for itself, and addDynamicAlias takes    *)
(* only regions.                                                           *)
(***************************************************************************)
THEOREM AliasesNeverLearnt == Spec => []NothingLearnt
BY RegionAlways, PTL DEF RegionInv
=============================================================================
