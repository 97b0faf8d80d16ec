------------------------------- MODULE Regions -------------------------------
(***************************************************************************)
(* Where a plan is made: the names of a text (RegionService), the place    *)
(* the language model names (resolveLocation of parse-input.step.ts), the  *)
(* coordinates and the search area (ExtractIntentStep), and the words that *)
(* are counted until they become aliases (AliasLearningService).           *)
(*                                                                         *)
(* A text is the names that are in it, in their order, the anchor of the   *)
(* search and what the language model names, which need not be there; how  *)
(* a name is found between particles is left out.                          *)
(***************************************************************************)
EXTENDS Places

CONSTANTS
  Registry,     \* regions of regions.json
  Rank,         \* TYPE_PRIORITY, and the length of the name
  Located,      \* those with coordinates: the landmarks
  Words,        \* names that regions.json does not have
  Seoul,        \* the fallback
  Threshold,    \* PROMOTE_THRESHOLD
  Parts         \* bound: the searches and the texts of a behaviour

ASSUME RegionsBounds ==
  /\ Seoul \in Registry /\ Located \subseteq Registry /\ Threshold \in Nat \ {0}
  /\ None \notin Registry \cup Words /\ Registry \cap Words = {}
  /\ Names = Registry \cup Words
  /\ \A found \in SUBSET Registry : found # {} => \E x \in found : \A y \in found : Rank[y] <= Rank[x]
  /\ UNION {p.keys : p \in Parts} \subseteq Keys
  /\ \A t \in UNION {p.texts : p \in Parts} :
       /\ {t.names[n] : n \in DOMAIN t.names} \cup {t.model} \subseteq Names \cup {None}
       /\ t.anchor \in {t.names[n] : n \in DOMAIN t.names} \cup {None}

VARIABLES
  part,
  known,        \* aliasMap of each process: the aliases it learnt
  learn         \* the learning under way of each request

vars == <<placesVars, part, known, learn>>

Learnt == [Words -> Registry \cup {None}]
NoAlias == [w \in Words |-> None]
NoLearning == [pc |-> "idle", inst |-> None, word |-> None, to |-> None]

----------------------------------------------------------------------------
(* RegionService                                                            *)

\* getRegion.
RegionOf(i, name) ==
  IF name \in Registry THEN name ELSE IF name \in Words THEN known[i][name] ELSE None

\* scanAll.
Scan(i, names) == {RegionOf(i, names[n]) : n \in DOMAIN names} \ {None}

\* The places of a text where it names a region.
Candidates(i, names) == {n \in DOMAIN names : RegionOf(i, names[n]) # None}

\* resolveBest: of any regions, one comes first.
Best(found) == CHOOSE x \in found : \A y \in found : Rank[y] <= Rank[x]

\* addDynamicAlias: only to a region there is, only a word that has none.
addDynamicAlias(aliases, word, canonical) ==
  IF canonical \in Registry /\ aliases[word] = None THEN [aliases EXCEPT ![word] = canonical]
  ELSE aliases

----------------------------------------------------------------------------
(* resolveLocation, and the coordinates                                     *)

\* Mutated form: the model is believed.
NamedByAnyone(t) == t.model # None

\* rawInput.includes(gptLocation).
NamedByText(t) == t.model # None /\ \E n \in DOMAIN t.names : t.names[n] = t.model

resolveLocation(i, t) ==
  LET found == Scan(i, t.names)  said == Scan(i, <<t.model>>) IN
  IF found # {} THEN Best(found)
  ELSE IF ~NamedByText(t) THEN Seoul
  ELSE IF said # {} THEN Best(said) ELSE t.model

\* resolveCoordsWithValidation of a name: the registry has the coordinates of a
\* landmark; others are looked up.
Resolve(q, i, name) ==
  LET region == RegionOf(i, name) IN
  IF region \in Located THEN [q EXCEPT !.pc = "found", !.name = name, !.coords = region]
  ELSE [q EXCEPT !.pc = "city", !.name = name, !.coords = None]

\* A word that nobody knows: unrecognizedLocationToken.
Unrecognized(i, t) ==
  IF Scan(i, t.names) = {} /\ NamedByText(t) /\ RegionOf(i, t.model) = None THEN t.model ELSE None

LocateStart(r, i, t) ==
  /\ req[r].pc = "idle" /\ learn[r].pc = "idle"
  /\ LET q == [Idle EXCEPT !.inst = i, !.text = t, !.token = Unrecognized(i, t),
                           !.rest = Candidates(i, t.names)]
     IN  req' = [req EXCEPT ![r] = Resolve(q, i, resolveLocation(i, t))]
  /\ UNCHANGED <<now, memory, redis, wasted, part, known, learn>>

\* The candidates of the text, one by one, are always looked up; then Seoul.
Lost(r) ==
  LET q == req[r] IN
  /\ q.pc = "lost"
  /\ IF q.rest = {}
     THEN req' = [req EXCEPT ![r] = [q EXCEPT !.pc = "found", !.name = Seoul, !.coords = Seoul]]
     ELSE \E n \in q.rest :
            /\ \A m \in q.rest : n <= m
            /\ req' = [req EXCEPT ![r] = [q EXCEPT !.pc = "city", !.rest = @ \ {n},
                                                  !.name = RegionOf(q.inst, q.text.names[n])]]
  /\ UNCHANGED <<now, memory, redis, wasted, part, known, learn>>

\* What was looked for is found: a word nobody knew is reported, and an anchor
\* is resolved in the same way; it takes the place of the search area.
Found(r) ==
  LET q      == req[r]
      t      == q.text
      coords == IF q.coords = None THEN q.key ELSE q.coords
      anchor == q.part = "base" /\ t.anchor # None /\ RegionOf(q.inst, t.anchor) # None
                  /\ RegionOf(q.inst, t.anchor) # q.name
      place  == IF q.part = "base" THEN q.name ELSE q.place
  IN  /\ q.pc = "found"
      /\ req' = [req EXCEPT ![r] =
           IF anchor
           THEN Resolve([q EXCEPT !.part = "anchor", !.place = q.name,
                          !.key = None, !.try = 1, !.query = 1,
                          !.rest = Candidates(q.inst, t.names)],
                        q.inst, RegionOf(q.inst, t.anchor))
           ELSE [q EXCEPT !.pc = "located", !.place = place, !.search = q.name,
                          !.coords = coords, !.key = None, !.rest = {}, !.try = 1, !.query = 1]]
      /\ learn' = IF q.part = "base" /\ q.token # None /\ q.name # Seoul /\ redis.on
                  THEN [learn EXCEPT ![r] = [pc |-> "count", inst |-> q.inst, word |-> q.token, to |-> q.name]]
                  ELSE learn
      /\ UNCHANGED <<now, memory, redis, wasted, part, known>>

LocateEnd(r) ==
  /\ req[r].pc = "located" /\ req' = [req EXCEPT ![r] = Idle] /\ wasted' = [wasted EXCEPT ![r] = 0]
  /\ UNCHANGED <<now, memory, redis, part, known, learn>>

----------------------------------------------------------------------------
(* AliasLearningService: nobody waits for it                                *)

\* incr and expire: the log may have expired since.
LearnCount(r) ==
  LET l == learn[r] IN
  /\ l.pc = "count"
  /\ \E logged \in {0, redis.count[l.word]} :
       redis' = [redis EXCEPT !.count[l.word] = IF logged < Threshold THEN logged + 1 ELSE logged]
  /\ learn' = [learn EXCEPT ![r] = IF redis'.count[l.word] >= Threshold THEN [l EXCEPT !.pc = "look"] ELSE NoLearning]
  /\ UNCHANGED <<now, memory, req, wasted, part, known>>

LearnLook(r) ==
  LET l == learn[r] IN
  /\ l.pc = "look"
  /\ learn' = [learn EXCEPT ![r] = IF redis.alias[l.word] # None THEN NoLearning ELSE [l EXCEPT !.pc = "set"]]
  /\ UNCHANGED <<now, memory, redis, req, wasted, part, known>>

\* promoteAlias writes, whoever has written since it looked.
LearnSet(r) ==
  LET l == learn[r] IN
  /\ l.pc = "set"
  /\ redis' = [redis EXCEPT !.alias[l.word] = l.to]
  /\ known' = [known EXCEPT ![l.inst] = addDynamicAlias(@, l.word, l.to)]
  /\ learn' = [learn EXCEPT ![r] = NoLearning]
  /\ UNCHANGED <<now, memory, req, wasted, part>>

LearnFails(r) ==
  /\ learn[r].pc # "idle" /\ learn' = [learn EXCEPT ![r] = NoLearning]
  /\ UNCHANGED <<now, memory, redis, req, wasted, part, known>>

\* loadPersistedAliases.
Reloaded == [w \in Words |-> addDynamicAlias(NoAlias, w, redis.alias[w])[w]]

\* A process stops with what it was doing and starts again.
Restart(i) ==
  /\ part.texts # {} /\ memory[i] # Empty
  /\ memory' = [memory EXCEPT ![i] = Empty]
  /\ known' = [known EXCEPT ![i] = IF redis.on THEN Reloaded ELSE NoAlias]
  /\ req' = [r \in Requests |-> IF req[r].inst = i THEN Idle ELSE req[r]]
  /\ wasted' = [r \in Requests |-> IF req[r].inst = i THEN 0 ELSE wasted[r]]
  /\ learn' = [r \in Requests |-> IF learn[r].inst = i THEN NoLearning ELSE learn[r]]
  /\ UNCHANGED <<now, redis, part>>

----------------------------------------------------------------------------
Init ==
  /\ PlacesInit /\ part \in Parts
  /\ memory = [i \in Instances |-> Empty]
  /\ known = [i \in Instances |-> NoAlias] /\ learn = [r \in Requests |-> NoLearning]
  /\ \E on \in BOOLEAN :
       redis = [on |-> on, places |-> [k \in Keys |-> NoAnswer], geo |-> {},
                count |-> [w \in Words |-> 0], alias |-> NoAlias]

Next ==
  \/ /\ \/ \E r \in Requests : PlacesStep(r)
        \/ \E r \in Requests, i \in Instances, k \in part.keys : SearchStart(r, i, k)
        \/ part.keys # {} /\ Tick
     /\ UNCHANGED <<part, known, learn>>
  \/ \E r \in Requests :
       \/ \E i \in Instances, t \in part.texts : LocateStart(r, i, t)
       \/ Lost(r) \/ Found(r) \/ LocateEnd(r)
       \/ LearnCount(r) \/ LearnLook(r) \/ LearnSet(r) \/ LearnFails(r)
  \/ \E i \in Instances : Restart(i)

Spec == Init /\ [][Next]_vars

----------------------------------------------------------------------------
(***************************************************************************)
(* A plan is made, and its places are searched, at a region that the text  *)
(* names, or in Seoul: what the model made up, and what other texts taught *)
(* the registry, does not get in between; and the coordinates are those of *)
(* the search area, whatever was looked up, refused or cached on the way.  *)
(***************************************************************************)
PlaceFromText ==
  \A r \in Requests : req[r].pc = "located" =>
    LET q == req[r]  named == {q.text.names[n] : n \in DOMAIN q.text.names} IN
    /\ {q.place, q.search} \subseteq named \cup {Seoul}
    /\ q.coords \in ({q.search} \X (1 .. Queries)) \cup {q.search}
=============================================================================
