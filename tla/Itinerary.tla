----------------------------- MODULE Itinerary -----------------------------
(***************************************************************************)
(* The pipeline that turns a request into a timetable (ai.service.ts): read *)
(* the text, fix the activities, search places for each, keep candidates,  *)
(* choose a route, lay it out in time and drop what does not fit.          *)
(*                                                                         *)
(* Places lie on a line, in kilometres, and a distance is the difference of *)
(* two positions.  Scores are counted in sixtieths, which makes the weights *)
(* of the code whole numbers.  A choice the code draws at random is any of  *)
(* the entries that have a positive weight.                                *)
(***************************************************************************)
EXTENDS InputText

CONSTANTS
  Places,           \* places, named by normalizePlaceKey
  PlaceAt,          \* position of each place
  KindsOf,          \* labels and types each place's text suggests
  Chains,           \* places of a chain brand
  Seoul, Home, Area,\* positions: the fallback, the region asked for, a spot in it
  Requests,         \* the requests of the instance
  BeamWidth,        \* BEAM_WIDTH
  MaxCandidates,    \* MAX_CANDIDATES_PER_SLOT
  MaxMerged         \* MAX_MERGED_RESULTS

ASSUME PlacesAreSomewhere ==
  /\ PlaceAt \in [Places -> Nat]
  /\ Chains \subseteq Places
  /\ {Seoul, Home, Area} \subseteq Nat

VARIABLES
  request,     \* the text, what the model answers and what the searches find
  phase,       \* the step that runs next
  parsed,      \* ctx.parsed
  activities,  \* ctx.intent.activities
  centre,      \* ctx.intent.lat, lng
  raw,         \* ctx.rawPlaces, by slot identifier
  candidates,  \* ctx.candidates, by slot identifier
  turn,        \* [next |-> activity to select for, from |-> current centre]
  route,       \* ctx.orderedPlaces, as chosen
  places,      \* what is left of the route when places are dropped
  visits,      \* the timetable built from places
  hints        \* ctx.unsupportedHints

vars == <<request, phase, parsed, activities, centre, raw, candidates, turn,
          route, places, visits, hints>>

Dist(a, b) == IF a < b THEN b - a ELSE a - b
RoundUpToTen(n) == ((n + 9) \div 10) * 10

\* s put in order; entries that are equal keep the order they had
Ranked(s, Before(_, _)) ==
  LET order == SortSeq([i \in DOMAIN s |-> i],
                       LAMBDA i, j : \/ Before(s[i], s[j])
                                     \/ ~Before(s[j], s[i]) /\ i < j)
  IN  MapSeq(order, LAMBDA i : s[i])

SumOver(s, f(_)) == FoldLeft(LAMBDA acc, e : acc + f(e), 0, s)

----------------------------------------------------------------------------
(* ParseInputStep *)

\* The registry, the model's answer if the text holds it, or Seoul.
resolveLocation(r, llm) ==
  IF r.location = "absent" \/ (r.location = "unknown" /\ ~llm.valid) THEN "Seoul" ELSE r.location

ParseInput ==
  /\ phase = "parse"
  /\ LET r       == request
         llm     == validateLlmOutput(r.llm)
         soft    == scanSoftConstraints(r.signs, r.until, r.hours)
         style   == resolveFillerStrategy(r.signs, scanStylePresets(r.signs))
         known   == extractPreferencesFallback(r.text)
         stated  == IF llm.valid THEN llm.prefs ELSE <<>>
         both    == stated \o SelectSeq(known, LAMBDA k : ~Contains(stated, k))
     IN  parsed' =
         [location   |-> resolveLocation(r, llm),
          activities |-> IF llm.valid THEN llm.activities ELSE extractActivitiesFallback(r.text, r.mode),
          timeOfDay  |-> IF llm.valid THEN llm.timeOfDay ELSE timeOfDayFallback(r.text, r.until.period),
          prefs      |-> Upto(both, 3),
          flow       |-> scanFlow(r.text),
          counts     |-> scanRequestedCounts(r.counts),
          themes     |-> scanThemes(r.signs),
          soft       |-> soft,
          fillers    |-> style.fillers,
          chain      |-> style.chain]
  /\ phase' = "extract"
  /\ UNCHANGED <<request, activities, centre, raw, candidates, turn, route, places, visits, hints>>

----------------------------------------------------------------------------
(* ExtractIntentStep *)

\* Where the search is centred: the spot named in the text, else the region if
\* it has coordinates, registered or found by the geocoder, else Seoul.
resolveCoords(r, location) ==
  IF parsed.soft.area THEN Area
  ELSE IF location = "registered" THEN Home
  ELSE IF location = "unknown" /\ r.geocoded THEN Home
  ELSE Seoul

Activity(id, query, anchor, locked, required) ==
  [id |-> id, type |-> TypeOf(query), query |-> query, anchor |-> anchor,
   locked |-> locked, required |-> required]

resolveFlowSlot(slot) == Activity(slot.id, slot.query, slot.anchor, TRUE, TRUE)

FallbackLabel == [food |-> "eats", cafe |-> "cafe", activity |-> "shopping",
                  attraction |-> "exhibition", rest |-> "walk"]

CountOf(list, type) == Len(SelectSeq(list, LAMBDA a : a.type = type))

\* Activities are added until there are as many of a type as were asked for.
applyRequestedCounts(list, counts, locked) ==
  FoldLeft(LAMBDA acc, c :
             acc \o [i \in 1 .. (c.count - CountOf(list, c.type)) |->
                       Activity(Len(acc) + i - 1, FallbackLabel[c.type], None, locked, TRUE)],
           list, counts)

TypeOrder(mode) == IF mode = "date"
                   THEN <<"food", "activity", "cafe", "attraction", "rest">>
                   ELSE <<"activity", "attraction", "food", "cafe", "rest">>

orderByMode(list, mode) ==
  LET Rank(a) == SelectInSeq(TypeOrder(mode), LAMBDA t : t = a.type)
  IN  Ranked(list, LAMBDA a, b : Rank(a) < Rank(b))

resolveFillers(p, r) ==
  LET base == IF p.fillers = "food-heavy" THEN <<"eats", "cafe", "eats", "walk">>
              ELSE IF p.fillers = "cafe-heavy" THEN <<"cafe", "eats", "walk", "exhibition">>
              ELSE IF p.fillers = "active" THEN <<"shopping", "eats", "cafe", "bowling">>
              ELSE IF p.fillers = "calm" THEN <<"cafe", "exhibition", "walk", "eats">>
              ELSE IF r.mode = "trip" THEN <<"eats", "cafe", "walk", "exhibition">>
              ELSE <<"cafe", "walk", "eats">>
      Lacks(s, label) == ~Contains(s, label)
      shop == IF Contains(p.themes, "shopping") /\ Lacks(base, "shopping")
              THEN <<"shopping">> \o base ELSE base
      night == IF Contains(p.themes, "nightView") THEN Append(shop, "nightView") ELSE shop
      inside == SelectSeq(night, LAMBDA l : l \notin {"walk", "nightView"})
      shown == IF Lacks(inside, "exhibition") THEN Append(inside, "exhibition") ELSE inside
  IN  IF p.soft.indoor THEN Append(shown, "movie") ELSE night

\* Optional activities of the types that are missing, up to the mode's minimum.
applyFillers(list, p, r) ==
  LET Add(acc, label) ==
        IF \/ Len(acc) >= (IF r.mode = "trip" THEN 4 ELSE 3)
           \/ TypeOf(label) = "rest" /\ p.soft.indoor
           \/ CountOf(acc, TypeOf(label)) > 0
        THEN acc
        ELSE Append(acc, Activity(Len(acc), label, None, FALSE, FALSE))
  IN  FoldLeft(Add, list, resolveFillers(p, r))

\* What was asked for: the flow of the text as it stands, or the labels by type.
Asked(p, r) ==
  IF p.flow # <<>>
  THEN applyRequestedCounts(MapSeq(p.flow, resolveFlowSlot), p.counts, TRUE)
  ELSE orderByMode(applyRequestedCounts(
                     [i \in DOMAIN p.activities |->
                        Activity(i - 1, p.activities[i], None, FALSE, TRUE)],
                     p.counts, FALSE), r.mode)

ExtractIntent ==
  /\ phase = "extract"
  /\ activities' = applyFillers(Asked(parsed, request), parsed, request)
  /\ centre' = resolveCoords(request, parsed.location)
  /\ phase' = "search"
  /\ UNCHANGED <<request, parsed, raw, candidates, turn, route, places, visits, hints>>

\* TIME_MAP
StartOf(p) == CASE p.timeOfDay = "morning"   -> 540
                [] p.timeOfDay = "afternoon" -> 780
                [] p.timeOfDay = "full-day"  -> 600
                [] OTHER                     -> 1080

----------------------------------------------------------------------------
(* SearchPlacesStep *)

Slots == {activities[i].id : i \in DOMAIN activities}

\* THEME_QUERY_BOOSTS: words added to the queries of some types.
BoostedTypes == [seaside   |-> {"food", "cafe", "rest"},
                 nature    |-> {"cafe", "rest", "attraction"},
                 photo     |-> {"cafe", "attraction", "rest"},
                 nightView |-> {"rest", "cafe", "attraction"},
                 shopping  |-> {"activity"}]

applyThemeBoosts(label, themes) ==
  [label |-> label, boosts |-> SelectSeq(themes, LAMBDA t : TypeOf(label) \in BoostedTypes[t])]

\* A generic meal that is not pinned to the text is searched by preference first,
\* a label of the registry by its own queries last.
buildQueries(a, p) ==
  LET Plain(label) == [label |-> label, boosts |-> <<>>]
      base == <<applyThemeBoosts(a.query, p.themes)>>
  IN  IF IsStrict(a.query) THEN base \o <<Plain(a.query)>>
      ELSE IF a.type = "food" /\ ~a.locked /\ a.query = "eats" THEN MapSeq(p.prefs, Plain) \o base
      ELSE base

\* What is found for a query: with the words of a theme, not what is found without.
Searched(world, list, query) ==
  IF query.boosts # <<>> /\ ~world.themed THEN <<>> ELSE list[query.label]

\* Naver is asked again with the query of the type when it finds nothing.
searchNaverPlaces(world, query, type) ==
  LET found == Searched(world, world.naver, query)
  IN  IF found = <<>> THEN world.naver[FallbackLabel[type]] ELSE found

\* Turn about from the two lists, each name once, no more than MaxMerged.
mergeSources(naver, kakao) ==
  LET At(s, i) == IF i \in DOMAIN s THEN <<s[i]>> ELSE <<>>
      Both == FlatMap([i \in 1 .. Max({Len(naver), Len(kakao)}) |-> i],
                      LAMBDA i : At(naver, i) \o At(kakao, i))
      Push(acc, p) == IF Contains(acc, p) THEN acc ELSE Append(acc, p)
  IN  Upto(FoldLeft(Push, <<>>, Both), MaxMerged)

Found(a) ==
  LET queries == buildQueries(a, parsed)
      naver == FlatMap(queries, LAMBDA q : searchNaverPlaces(request.world, q, a.type))
      kakao == FlatMap(queries, LAMBDA q : Searched(request.world, request.world.kakao, q))
  IN  mergeSources(mergeSources(naver, <<>>), mergeSources(<<>>, kakao))

\* The activity whose results a slot identifier ends up with: the last one.
LastFor(slot) == activities[Max({i \in DOMAIN activities : activities[i].id = slot})]

SearchPlaces ==
  /\ phase = "search"
  /\ raw' = [s \in Slots |-> Found(LastFor(s))]
  /\ phase' = IF \A s \in Slots : raw'[s] = <<>> THEN "failed" ELSE "centre"
  /\ UNCHANGED <<request, parsed, activities, centre, candidates, turn, route, places, visits, hints>>

----------------------------------------------------------------------------
(* SelectCandidatesStep *)

IsLocked == \E i \in DOMAIN activities : activities[i].locked

AllPlaces == FlatMap(SetToSortSeq(Slots, <), LAMBDA s : raw[s])

Mean(s) == SumOver(s, LAMBDA p : PlaceAt[p]) \div Len(s)

\* The centre of the nearest four fifths of the results, when it lies too far
\* from where the search was centred.
baseCentre ==
  LET mean  == Mean(AllPlaces)
      near  == Ranked(AllPlaces, LAMBDA p, q : Dist(PlaceAt[p], mean) < Dist(PlaceAt[q], mean))
      drift == Mean(Upto(near, Max({3, (Len(near) * 4) \div 5})))
  IN  IF /\ Len(AllPlaces) >= 3
         /\ Dist(centre, drift) > (IF request.mode = "date" THEN 3 ELSE 5)
      THEN drift ELSE centre

estimateSpreadKm == LET at == {PlaceAt[p] : p \in ToSet(AllPlaces)} IN Max(at) - Min(at)

RadiusSteps ==
  CASE estimateSpreadKm > 12 -> IF request.mode = "date" THEN {5, 10, 20} ELSE {5, 10, 20, 30}
    [] OTHER                 -> IF request.mode = "date" THEN {3, 5} ELSE {3, 5, 10}

\* The results within the smallest radius that holds any, else the nearest one.
Nearby(found, from) ==
  LET Within(r) == SelectSeq(found, LAMBDA p : Dist(from, PlaceAt[p]) <= r)
      useful == {r \in RadiusSteps : Within(r) # <<>>}
      byDistance == Ranked(found, LAMBDA p, q : Dist(from, PlaceAt[p]) < Dist(from, PlaceAt[q]))
  IN  IF useful # {} THEN Within(Min(useful)) ELSE Upto(byDistance, 1)

isFoodLike(p) == "food" \in KindsOf[p]
isCafeLike(p) == "cafe" \in KindsOf[p]
matchesActivityPlace(p, a) == IsStrict(a.query) => a.query \in KindsOf[p]

FitsType(p, a) ==
  CASE a.type = "food" -> ~isCafeLike(p) \/ isFoodLike(p)
    [] a.type = "cafe" -> ~isFoodLike(p) \/ isCafeLike(p)
    [] OTHER           -> matchesActivityPlace(p, a)

\* A strict activity takes nothing rather than a place that does not match it.
Fitting(near, a) ==
  LET fitting == SelectSeq(near, LAMBDA p : FitsType(p, a))
  IN  IF fitting = <<>> /\ ~IsStrict(a.query) THEN near ELSE fitting

\* How often each place is in the last ten plans of the user for the same words,
\* of the last fifty.
buildDiversityHistory(past) ==
  LET same  == Upto(SelectSeq(Upto(past, 50), LAMBDA plan : plan.same), 10)
      items == FlatMap(same, LAMBDA plan : plan.items)
  IN  [p \in Places |-> Len(SelectSeq(items, LAMBDA q : q = p))]

\* The chains of an instance are of one brand.
scoreCandidate(p, a, distance) ==
  LET count == buildDiversityHistory(request.past)
      perKm == IF parsed.soft.compact /\ request.mode = "date" THEN 30
               ELSE IF parsed.soft.compact THEN 20
               ELSE IF request.mode = "date" THEN 15
               ELSE 10
      liked == Len(SelectSeq(parsed.prefs, LAMBDA k : k \in KindsOf[p]))
      chain == IF p \in Chains
               THEN (IF parsed.chain THEN 30 ELSE 0)
                    + (IF \E q \in Chains : count[q] > 0 THEN 36 ELSE 0)
               ELSE 0
      again == IF count[p] = 0 THEN 0 ELSE Min({150, 90 + 15 * (count[p] - 1)})
      subtype == IF ~IsStrict(a.query) THEN 0
                 ELSE IF matchesActivityPlace(p, a) THEN 30
                 ELSE -24
  IN  60 + 27 * liked + subtype - perKm * distance - chain - again

Better(e, f) == e.score > f.score \/ (e.score = f.score /\ e.distance < f.distance)

\* The drawn entry first, then the best of the rest.
PoolWith(sorted, drawn) ==
  Upto(<<sorted[drawn]>> \o RemoveAt(sorted, drawn), MaxCandidates)

TopBand(sorted) == {i \in 1 .. Min({4, Len(sorted)}) : sorted[1].score - sorted[i].score <= 21}

Hint(h) == hints' = IF Contains(hints, h) THEN hints ELSE Append(hints, h)

BeginSelection ==
  /\ phase = "centre"
  /\ candidates' = [s \in Slots |-> <<>>]
  /\ turn' = [next |-> 1, from |-> baseCentre]
  /\ phase' = "select"
  /\ UNCHANGED <<request, parsed, activities, centre, raw, route, places, visits, hints>>

\* Nothing for this activity: a strict one says so.
SkipActivity(a) ==
  /\ IF IsStrict(a.query) THEN Hint(<<"nothing fits", a.query>>) ELSE UNCHANGED hints
  /\ turn' = [turn EXCEPT !.next = @ + 1]
  /\ UNCHANGED candidates

KeepCandidates(a, fitting) ==
  LET Scored(p) == LET d == Dist(turn.from, PlaceAt[p])
                   IN  [place |-> p, distance |-> d, score |-> scoreCandidate(p, a, d)]
      sorted == Ranked(MapSeq(fitting, Scored), Better)
  IN  \E drawn \in TopBand(sorted) :
        /\ candidates' = [candidates EXCEPT ![a.id] = PoolWith(sorted, drawn)]
        /\ turn' = [next |-> turn.next + 1,
                    from |-> IF IsLocked \/ parsed.soft.compact
                             THEN PlaceAt[sorted[drawn].place] ELSE turn.from]
        /\ UNCHANGED hints

SelectCandidates ==
  /\ phase = "select" /\ turn.next <= Len(activities)
  /\ LET a == activities[turn.next]
         fitting == Fitting(Nearby(raw[a.id], turn.from), a)
     IN  IF fitting = <<>> THEN SkipActivity(a) ELSE KeepCandidates(a, fitting)
  /\ UNCHANGED <<request, phase, parsed, activities, centre, raw, route, places, visits>>

----------------------------------------------------------------------------
(* OptimizeRouteStep *)

\* One stop of a route: a place taken for an activity.
Stop(a, c) == [place |-> c.place, score |-> c.score, id |-> a.id, type |-> a.type,
               query |-> a.query, anchor |-> a.anchor, required |-> a.required]

Groups ==
  MapSeq(SelectSeq(activities, LAMBDA a : candidates[a.id] # <<>>),
         LAMBDA a : MapSeq(candidates[a.id], LAMBDA c : Stop(a, c)))

PenaltyPerKm == IF request.mode = "date" THEN 24 ELSE 15
DuplicatePenalty == 240

PlacesOf(stops) == {stops[i].place : i \in DOMAIN stops}
EndOf(stops, start) == IF stops = <<>> THEN start ELSE PlaceAt[Last(stops).place]

\* The beam with one more stop, at the cost of the way to it.
With(beam, stop, penalty, start) ==
  [stops |-> Append(beam.stops, stop),
   score |-> beam.score + stop.score - penalty
               - PenaltyPerKm * Dist(EndOf(beam.stops, start), PlaceAt[stop.place])]

\* Mutated form: a place is taken again although another one is left.
ExtendAny(beam, group, start) == MapSeq(group, LAMBDA s : With(beam, s, 0, start))

\* A beam goes on with the places it does not hold yet; with those it holds
\* only when the group has no other.
Extend(beam, group, start) ==
  LET fresh == SelectSeq(group, LAMBDA s : s.place \notin PlacesOf(beam.stops))
  IN  IF fresh = <<>> THEN MapSeq(group, LAMBDA s : With(beam, s, DuplicatePenalty, start))
      ELSE MapSeq(fresh, LAMBDA s : With(beam, s, 0, start))

buildCandidateCombinations(start) ==
  LET Grow(beams, group) ==
        Upto(Ranked(FlatMap(beams, LAMBDA b : Extend(b, group, start)),
                    LAMBDA x, y : x.score > y.score), BeamWidth)
  IN  IF Groups = <<>> THEN <<>>
      ELSE MapSeq(FoldLeft(Grow, <<[stops |-> <<>>, score |-> 0]>>, Groups), LAMBDA b : b.stops)

totalDistance(stops, start) ==
  FoldLeftDomain(LAMBDA sum, i :
      sum + Dist(IF i = 1 THEN start ELSE PlaceAt[stops[i - 1].place], PlaceAt[stops[i].place]),
    0, stops)

nearestNeighbor(stops, start) ==
  LET Step(acc, i) ==
        LET from == EndOf(acc.done, start)
            D(k) == Dist(from, PlaceAt[acc.left[k].place])
            next == Min({k \in DOMAIN acc.left : \A j \in DOMAIN acc.left : D(k) <= D(j)})
        IN  [done |-> Append(acc.done, acc.left[next]), left |-> RemoveAt(acc.left, next)]
  IN  FoldLeftDomain(Step, [done |-> <<>>, left |-> stops], stops).done

twoOptSwap(stops, i, k) ==
  SubSeq(stops, 1, i - 1) \o Reverse(SubSeq(stops, i, k)) \o SubSeq(stops, k + 1, Len(stops))

UpTo(n) == [i \in 1 .. n |-> i]

\* The reversals a pass tries, row by row.
Swaps(n) == FlatMap(UpTo(n - 1), LAMBDA i : MapSeq(UpTo(n - i), LAMBDA j : <<i, i + j>>))

\* Passes over every reversal, each one kept when it is shorter, until none is.
twoOpt(stops, start) ==
  LET Try(best, swap) ==
        LET new == twoOptSwap(best, swap[1], swap[2])
        IN  IF totalDistance(new, start) < totalDistance(best, start) THEN new ELSE best
      Pass(r) == FoldLeft(Try, r, Swaps(Len(r)))
      better[r \in Seq(Range(stops))] == IF Pass(r) = r THEN r ELSE better[Pass(r)]
  IN  IF Len(stops) < 3 THEN stops ELSE better[stops]

makeOrdered(stops, start) ==
  LET Visit(done, s) == LET d == Dist(EndOf(done, start), PlaceAt[s.place])
                        IN  Append(done, s @@ [order |-> Len(done) + 1, distance |-> d,
                                               travel |-> RoundUpToTen(12 * d)])
  IN  FoldLeft(Visit, <<>>, stops)

\* Mutated form: an order the text fixes is changed to save distance.
ShortestAlways(stops, start) ==
  makeOrdered(twoOpt(nearestNeighbor(stops, start), start), start)

RouteOf(stops, start) ==
  IF IsLocked THEN makeOrdered(stops, start)
  ELSE makeOrdered(twoOpt(nearestNeighbor(stops, start), start), start)

Evaluated(stops, start) ==
  LET chosen == RouteOf(stops, start)
      distance == totalDistance(chosen, start)
      repeats == Len(stops) - Cardinality(PlacesOf(stops))
  IN  [route |-> chosen, distance |-> distance,
       score |-> SumOver(stops, LAMBDA s : s.score) - repeats * DuplicatePenalty
                   - PenaltyPerKm * distance]

\* Any of the five best routes, or of those within three quarters of a point.
pickWeightedTopRoute(ranked) ==
  {ranked[i] : i \in {k \in DOMAIN ranked : k <= 5 \/ ranked[1].score - ranked[k].score <= 45}}

OptimizeRoute ==
  /\ phase = "select" /\ turn.next > Len(activities)
  /\ LET ranked == Ranked(MapSeq(buildCandidateCombinations(centre),
                                 LAMBDA stops : Evaluated(stops, centre)), Better)
     IN  IF ranked = <<>> THEN route' = <<>>
         ELSE \E winner \in pickWeightedTopRoute(ranked) : route' = winner.route
  /\ phase' = "schedule"
  /\ UNCHANGED <<request, parsed, activities, centre, raw, candidates, turn, places, visits, hints>>
----------------------------------------------------------------------------
(* GenerateScheduleStep *)

Dwell == [food |-> 90, cafe |-> 45, activity |-> 90, attraction |-> 90, rest |-> 30]
FoodGap == 240

\* Mutated form: the second meal follows the first like any other visit.
NoFoodGap(now, stop, lastFoodEnd) ==
  IF stop.anchor # None THEN Max({now, RoundUpToTen(stop.anchor)}) ELSE now

\* When a stop may start: at its hour if it has one, four hours after a meal if
\* it is a meal, else on arrival.
StartFor(now, stop, lastFoodEnd) ==
  IF stop.anchor # None THEN Max({now, RoundUpToTen(stop.anchor)})
  ELSE IF stop.type = "food" /\ lastFoodEnd >= 0 THEN Max({now, RoundUpToTen(lastFoodEnd + FoodGap)})
  ELSE now

buildSchedule(stops, start) ==
  LET Visit(acc, stop) ==
        LET arrival == IF acc.visits = <<>> THEN RoundUpToTen(acc.now)
                       ELSE RoundUpToTen(RoundUpToTen(acc.now) + stop.travel + 10)
            begin == StartFor(arrival, stop, acc.food)
            end == RoundUpToTen(begin + Dwell[stop.type])
        IN  [visits |-> Append(acc.visits, stop @@ [start |-> begin, end |-> end]),
             now    |-> end,
             food   |-> IF stop.type = "food" THEN end ELSE acc.food]
  IN  FoldLeft(Visit, [visits |-> <<>>, now |-> start, food |-> -1], stops).visits

EndMin(list) == IF list = <<>> THEN StartOf(parsed) ELSE Last(list).end

\* The end a cap on the duration asks for, unless a required hour lies beyond it.
CapEnd == StartOf(parsed) + parsed.soft.cap
CapConflicts ==
  /\ parsed.soft.cap # None
  /\ \E i \in DOMAIN route : route[i].required /\ route[i].anchor > CapEnd
enforcedEnds == (IF parsed.soft.endBy = None THEN {} ELSE {parsed.soft.endBy})
                \cup (IF parsed.soft.cap = None \/ CapConflicts THEN {} ELSE {CapEnd})

Droppable(list) == {i \in DOMAIN list : ~list[i].required}

MustShorten == \E end \in enforcedEnds : EndMin(visits) > end

GenerateSchedule ==
  /\ phase = "schedule" /\ route # <<>>
  /\ places' = route
  /\ visits' = buildSchedule(route, StartOf(parsed))
  /\ IF CapConflicts THEN Hint(<<"cap conflicts", parsed.soft.cap>>) ELSE UNCHANGED hints
  /\ phase' = "fit"
  /\ UNCHANGED <<request, parsed, activities, centre, raw, candidates, turn, route>>

findLastDroppableIndex(list) == Max(Droppable(list))

\* While the timetable is too long, its last optional place is dropped.
DropPlace ==
  /\ phase = "fit" /\ MustShorten /\ Droppable(places) # {}
  /\ places' = RemoveAt(places, findLastDroppableIndex(places))
  /\ visits' = buildSchedule(places', StartOf(parsed))
  /\ UNCHANGED <<request, phase, parsed, activities, centre, raw, candidates, turn, route, hints>>

LateHints ==
  (IF parsed.soft.endBy # None /\ EndMin(visits) > parsed.soft.endBy
   THEN <<<<"ends late", parsed.soft.endBy>>>> ELSE <<>>)
  \o (IF parsed.soft.cap # None /\ ~CapConflicts /\ EndMin(visits) > CapEnd
      THEN <<<<"takes long", parsed.soft.cap>>>> ELSE <<>>)

\* The result is returned, or refused when it is empty (runPipeline).
Finish ==
  /\ phase = "fit" /\ ~(MustShorten /\ Droppable(places) # {})
  /\ hints' = hints \o SelectSeq(LateHints, LAMBDA h : ~Contains(hints, h))
  /\ phase' = IF visits = <<>> THEN "failed" ELSE "done"
  /\ UNCHANGED <<request, parsed, activities, centre, raw, candidates, turn, route, places, visits>>

NoRoute ==
  /\ phase = "schedule" /\ route = <<>>
  /\ phase' = "failed"
  /\ UNCHANGED <<request, parsed, activities, centre, raw, candidates, turn, route, places, visits, hints>>

----------------------------------------------------------------------------
Init ==
  /\ request \in Requests
  /\ phase = "parse"
  /\ parsed = <<>> /\ activities = <<>> /\ centre = Seoul
  /\ raw = <<>> /\ candidates = <<>> /\ turn = [next |-> 1, from |-> Seoul]
  /\ route = <<>> /\ places = <<>> /\ visits = <<>> /\ hints = <<>>

Next == \/ ParseInput \/ ExtractIntent \/ SearchPlaces
        \/ BeginSelection \/ SelectCandidates \/ OptimizeRoute
        \/ GenerateSchedule \/ DropPlace \/ Finish \/ NoRoute

Spec == Init /\ [][Next]_vars

----------------------------------------------------------------------------
Done == phase = "done"
Selected == SelectSeq(activities, LAMBDA a : candidates[a.id] # <<>>)
Required(list) == SelectSeq(list, LAMBDA e : e.required)
Named(list) == MapSeq(list, LAMBDA e : <<e.id, e.query>>)
SlotsDistinct == Cardinality(Slots) = Len(activities)

(***************************************************************************)
(* No keyword of the text is lost in the flow: merged, paired or replaced, *)
(* it leaves a slot of its type near where it was written (scanFlow).      *)
(***************************************************************************)
KeywordsKept ==
  phase = "extract" /\ parsed.flow # <<>> =>
    \A i \in DOMAIN findAllKeywordHits(request.text) :
      LET hit == findAllKeywordHits(request.text)[i]
      IN  \E k \in DOMAIN parsed.flow :
            /\ parsed.flow[k].type = TypeOf(hit.word)
            /\ Dist(parsed.flow[k].at, hit.at) <= FlowWindow

\* A place is visited twice only for an activity all of whose candidates are on
\* the route.
NoNeedlessRepeat ==
  \A i, j \in DOMAIN route :
    i # j /\ route[i].place = route[j].place =>
      \E s \in {route[i], route[j]} :
        \A k \in DOMAIN candidates[s.id] : candidates[s.id][k].place \in PlacesOf(route)

\* A strict activity is spent in a place that matches it; when there is none, the
\* result says it was left out.  Two activities under one slot identifier share
\* their candidates, and the second may then be given what suits the first.
StrictOrSaid ==
  SlotsDistinct =>
    /\ \A i \in DOMAIN route : IsStrict(route[i].query) => route[i].query \in KindsOf[route[i].place]
    /\ Done => \A i \in DOMAIN activities :
         IsStrict(activities[i].query) /\ candidates[activities[i].id] = <<>>
           => Contains(hints, <<"nothing fits", activities[i].query>>)

\* At least as many activities of a type as the text counts.
CountsMet ==
  activities # <<>> =>
    \A i \in DOMAIN parsed.counts :
      CountOf(activities, parsed.counts[i].type) >= parsed.counts[i].count

(***************************************************************************)
(* What is chosen is what was asked for: no place twice without need, an   *)
(* activity only where it can be done or a word that it was left out, and  *)
(* the counts of the text (applyRequestedCounts, filterCandidatesByType,   *)
(* buildCandidateCombinations).                                            *)
(***************************************************************************)
SelectionSound == NoNeedlessRepeat /\ StrictOrSaid /\ CountsMet

\* However the timetable was shortened, what was asked for and found is visited,
\* once for each activity, and in the order of the text when it fixes one.
RequiredVisited ==
  Done => /\ Len(Required(visits)) = Len(Required(Selected))
          /\ IsLocked => Named(Required(visits)) = Named(Required(Selected))

\* A route the text does not fix cannot be shortened by turning a stretch of it
\* round.
RouteTwoOptimal ==
  ~IsLocked /\ Len(route) > 2 =>
    \A i, k \in DOMAIN route :
      i < k => totalDistance(twoOptSwap(route, i, k), centre) >= totalDistance(route, centre)

(***************************************************************************)
(* The route visits what was asked for, in the order asked for, and is     *)
(* otherwise as short as reversals make it (RouteOf, twoOpt,               *)
(* findLastDroppableIndex).                                                *)
(***************************************************************************)
RouteSound == RequiredVisited /\ RouteTwoOptimal

\* A timetable that ends later than asked says so, and nothing that could still be
\* dropped is left in it.
LateIsSaid ==
  Done =>
    /\ (\E end \in enforcedEnds : EndMin(visits) > end) => Droppable(visits) = {}
    /\ parsed.soft.endBy \in 0 .. (EndMin(visits) - 1)
         => Contains(hints, <<"ends late", parsed.soft.endBy>>)
    /\ parsed.soft.cap # None /\ EndMin(visits) > CapEnd
         => \E why \in {"takes long", "cap conflicts"} : Contains(hints, <<why, parsed.soft.cap>>)

\* Two meals, the second without an hour of its own, are four hours apart,
\* whatever lies or lay between them.
MealsApart ==
  \A i, j \in DOMAIN visits :
    (/\ i < j
     /\ visits[i].type = "food" /\ visits[j].type = "food" /\ visits[j].anchor = None)
      => visits[j].start >= visits[i].end + FoodGap

(***************************************************************************)
(* The timetable keeps its limits or says that it does not, and keeps      *)
(* meals apart after any shortening (applySoftConstraintTrimming,          *)
(* buildSchedule).                                                         *)
(***************************************************************************)
TimetableSound == LateIsSaid /\ MealsApart
=============================================================================
