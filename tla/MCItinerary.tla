---------------------------- MODULE MCItinerary ----------------------------
EXTENDS Itinerary

MCPlaces == {"pasta1", "bar1", "cafe1", "chain1", "park1", "cinema1", "far1"}
MCPlaceAt == [pasta1 |-> 1, bar1 |-> 5, cafe1 |-> 2, chain1 |-> 0, park1 |-> 4,
              cinema1 |-> 3, far1 |-> 14]
MCKindsOf == [pasta1 |-> {"food", "pasta"}, bar1 |-> {"food", "bar"}, cafe1 |-> {"cafe"},
              chain1 |-> {"cafe"}, park1 |-> {"walk"}, cinema1 |-> {"movie"}, far1 |-> {"food"}]

\* What the two services find: everything there is, too little, the same two
\* places for everything, only what does not fit, or nothing.
ByType(food, cafe, activity, other) ==
  [l \in Labels |-> CASE TypeOf(l) = "food"     -> food
                      [] TypeOf(l) = "cafe"     -> cafe
                      [] TypeOf(l) = "activity" -> activity
                      [] OTHER                  -> other]
Rich   == [naver |-> ByType(<<"pasta1", "bar1">>, <<"cafe1", "chain1">>, <<"cinema1", "bar1">>, <<"park1">>),
           kakao |-> ByType(<<"bar1", "far1">>, <<"cafe1">>, <<>>, <<"park1", "cafe1">>),
           themed |-> TRUE]
Themeless == [Rich EXCEPT !.themed = FALSE]
Poor   == [naver |-> ByType(<<"far1">>, <<>>, <<"bar1">>, <<>>),
           kakao |-> ByType(<<>>, <<"far1">>, <<>>, <<>>), themed |-> TRUE]
Alike  == [naver |-> ByType(<<"cafe1", "pasta1">>, <<"cafe1", "pasta1">>, <<"cafe1">>, <<"park1">>),
           kakao |-> ByType(<<>>, <<"cafe1">>, <<>>, <<>>), themed |-> TRUE]
Unfit  == [naver |-> ByType(<<>>, <<>>, <<"bar1">>, <<"bar1">>), kakao |-> ByType(<<>>, <<>>, <<>>, <<>>), themed |-> TRUE]
Barren == [naver |-> ByType(<<>>, <<>>, <<>>, <<>>), kakao |-> ByType(<<>>, <<>>, <<>>, <<>>), themed |-> TRUE]

NoModel == [place |-> FALSE, activities |-> <<>>, timeOfDay |-> "full-day", prefs |-> <<>>]
Model   == [place |-> TRUE, activities |-> <<"pasta", "cafe", "movie", "eats">>,
            timeOfDay |-> "evening", prefs |-> <<"bar">>]
Empty   == [Model EXCEPT !.activities = <<>>]
Verbose == [Model EXCEPT !.timeOfDay = "noon",
              !.activities = <<"walk", "pasta", "cafe", "movie", "eats", "bar", "shopping">>]
NoHour  == [hour |-> 24, period |-> "none"]

Plain == [text |-> <<>>, mode |-> "date", llm |-> NoModel, signs |-> {}, counts |-> <<>>,
          until |-> NoHour, hours |-> 0, location |-> "registered", geocoded |-> TRUE,
          past |-> <<>>, world |-> Rich]

TextOf(words, gap) == [i \in DOMAIN words |-> [word |-> words[i], at |-> gap * (i - 1)]]
Words == {"lunch", "dinner", "brunchCafe", "eats", "pasta", "bar", "cafe", "walk", "movie"}
Few   == {"lunch", "dinner", "eats", "pasta", "cafe", "movie"}
Short == {<<>>} \cup {<<a>> : a \in Words} \cup {<<a, b>> : a, b \in Words}
Long  == {<<a, b, c>> : a, b, c \in Few}

Sparse == {<<"eats", "eats", "cafe">>, <<"cafe", "walk", "walk">>, <<"pasta", "bar", "pasta">>}

Texts    == {[Plain EXCEPT !.text = TextOf(t, 6), !.mode = m] : t \in Short \cup Long, m \in {"date", "trip"}}
Apart    == {[Plain EXCEPT !.text = TextOf(t, 20)] : t \in Short \cup Sparse}
Samples  == {<<>>, <<"walk">>, <<"lunch", "cafe", "dinner">>, <<"movie", "eats">>, <<"cafe", "walk">>, <<"walk", "movie">>}
Places4  == {[Plain EXCEPT !.text = TextOf(t, 6), !.mode = m, !.world = w, !.llm = l, !.location = p, !.geocoded = g] :
               t \in Samples, m \in {"date", "trip"}, w \in {Rich, Poor, Alike, Unfit, Barren},
               l \in {NoModel, Model}, p \in {"registered", "unknown"}, g \in BOOLEAN}
Limits   == {[Plain EXCEPT !.text = TextOf(t, 6), !.llm = l, !.until = u, !.hours = c, !.counts = n] :
               t \in Samples, l \in {NoModel, Model}, c \in {0, 2, 5},
               u \in {NoHour, [hour |-> 4, period |-> "afternoon"], [hour |-> 12, period |-> "night"],
                      [hour |-> 9, period |-> "night"]},
               n \in {<<>>, <<[type |-> "cafe", count |-> 2]>>}}
Before(visited, n) == [i \in 1 .. n |-> [same |-> TRUE, items |-> visited]]
Other == [same |-> FALSE, items |-> <<"cafe1">>]
Styles   == {[Plain EXCEPT !.text = TextOf(t, 6), !.llm = l, !.signs = s \cup i, !.past = r, !.world = w] :
               t \in {<<>>, <<"walk">>}, l \in {NoModel, Model},
               s \in {{}, {"romantic", "unique", "shopping"}, {"healing", "nightView"},
                      {"active", "photo", "shopping"}, {"food-heavy", "seaside", "nature"}},
               i \in {{}, {"indoor", "area"}, {"compact"}, {"indoor", "compact", "area"}},
               r \in {<<>>, <<Other>> \o Before(<<"chain1", "pasta1">>, 1), Before(<<"pasta1", "bar1">>, 2)},
               w \in {Rich, Themeless}}
Answers  == {[Plain EXCEPT !.text = TextOf(t, 6), !.llm = l, !.location = p] :
               t \in Samples, l \in {Empty, Verbose}, p \in {"registered", "unknown"}}

MCRequests == Texts \cup Apart \cup Places4 \cup Limits \cup Styles \cup Answers
=============================================================================
