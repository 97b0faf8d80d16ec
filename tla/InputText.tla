----------------------------- MODULE InputText -----------------------------
(***************************************************************************)
(* What the planner reads in a request written in natural language,        *)
(* without the language model (parse-input.step.ts).  A text is the        *)
(* sequence of the keywords it contains, each at a character position; one *)
(* keyword stands for each class of FLOW_TOKEN_DEFS the code distinguishes *)
(* by type, anchor, meal kind or genericness.  brunchCafe is the one whose *)
(* text contains the text of two others.                                   *)
(***************************************************************************)
EXTENDS Integers, Sequences, FiniteSets, SequencesExt

CONSTANT FlowWindow      \* FLOW_WINDOW_CHARS

ASSUME FlowWindowIsNat == FlowWindow \in Nat

None == -1

\* f of each entry of s, and the sequences f gives put one after the other
MapSeq(s, f(_)) == FoldLeft(LAMBDA acc, e : Append(acc, f(e)), <<>>, s)
FlatMap(s, f(_)) == FoldLeft(LAMBDA acc, e : acc \o f(e), <<>>, s)

(***************************************************************************)
(* The labels an activity can be asked by, by type.  Labels of the last    *)
(* three types have a subtype in the activity registry, and every subtype  *)
(* of the registry matches strictly.                                       *)
(***************************************************************************)
LabelsOf ==
  [food       |-> {"lunch", "dinner", "brunch", "brunchCafe", "eats", "pasta", "bar"},
   cafe       |-> {"cafe"},
   activity   |-> {"movie", "shopping", "bowling"},
   attraction |-> {"exhibition"},
   rest       |-> {"walk", "nightView"}]

Types == DOMAIN LabelsOf
Labels == UNION {LabelsOf[t] : t \in Types}
TypeOf(label) == CHOOSE t \in Types : label \in LabelsOf[t]
IsStrict(label) == TypeOf(label) \in {"activity", "attraction", "rest"}

\* FLOW_TOKEN_DEFS: the query, the hour and the kind a keyword stands for.
QueryOf(word) == IF word = "brunch" THEN "brunchCafe" ELSE word
IsMeal(word) == word \in {"lunch", "dinner", "brunch"}
AnchorOf(word) == CASE word \in {"brunch", "brunchCafe"} -> 660
                    [] word = "lunch"                    -> 720
                    [] word \in {"dinner", "bar"}        -> 1080
                    [] OTHER                             -> None
Length(word) == CASE word = "brunchCafe"                          -> 5
                  [] word \in {"brunch", "pasta"}                 -> 3
                  [] OTHER                                        -> 2
GenericFood == {"eats", "lunch", "dinner"}

Occurrences(text) ==
  LET Inside(o) == IF o.word = "brunchCafe"
                   THEN {[o EXCEPT !.word = "brunch"],
                         [word |-> "cafe", at |-> o.at + 3]}
                   ELSE {}
  IN  ToSet(text) \cup UNION {Inside(o) : o \in ToSet(text)}

Includes(text, word) == \E o \in Occurrences(text) : o.word = word

----------------------------------------------------------------------------
\* Keywords from left to right; one that starts inside another is dropped.
findAllKeywordHits(text) ==
  LET Earlier(a, b) == \/ a.at < b.at
                       \/ a.at = b.at /\ Length(a.word) > Length(b.word)
      Covers(prev, hit) == hit.at \in prev.at .. (prev.at + Length(prev.word) - 1)
      Keep(kept, hit) == IF \E i \in DOMAIN kept : Covers(kept[i], hit)
                         THEN kept ELSE Append(kept, hit)
  IN  FoldLeft(Keep, <<>>, SetToSortSeq(Occurrences(text), Earlier))

\* The food a meal is paired with: 0 when there is none within the window.
selectNearbyFoodHit(hits, i) ==
  LET near == {j \in (i + 1) .. Len(hits) :
                 /\ TypeOf(hits[j].word) = "food"
                 /\ ~IsMeal(hits[j].word)
                 /\ hits[j].at - hits[i].at <= FlowWindow}
      specific == {j \in near : QueryOf(hits[j].word) \notin GenericFood \cup {"brunchCafe"}}
  IN  IF near = {} THEN 0
      ELSE IF specific # {} THEN Min(specific)
      ELSE Min(near)

SlotAt(slots, hit, word) ==
  [id |-> Len(slots), query |-> QueryOf(word), type |-> TypeOf(word),
   anchor |-> AnchorOf(hit.word), at |-> hit.at]

\* Mutated form: words far apart are taken for one.
MergeableAnywhere(prev, slot) == prev.type = slot.type /\ prev.anchor = slot.anchor

\* Two words near each other, of one type and for one hour.
Mergeable(prev, slot) ==
  /\ slot.at - prev.at <= FlowWindow
  /\ prev.type = slot.type
  /\ prev.anchor = slot.anchor

(***************************************************************************)
(* A generic food word next to a slot of its type and hour adds nothing,   *)
(* and a specific one replaces the generic slot before it: with the        *)
(* identifier it was given, which is the number of slots there were.       *)
(***************************************************************************)
pushSlot(slots, slot) ==
  IF slots = <<>> THEN <<slot>> ELSE
  LET prev == Last(slots) IN
  IF /\ Mergeable(prev, slot)
     /\ prev.query = slot.query \/ slot.query \in GenericFood
  THEN slots
  ELSE IF /\ Mergeable(prev, slot)
          /\ prev.type = "food" /\ prev.query \in GenericFood
          /\ prev.query # slot.query
  THEN Append(Front(slots), slot)
  ELSE Append(slots, slot)

\* A flow of two slots or more, in the order of the text; else no flow.
scanFlow(text) ==
  LET hits == findAllKeywordHits(text)
      Step(acc, i) ==
        LET hit  == hits[i]
            pair == IF IsMeal(hit.word) THEN selectNearbyFoodHit(hits, i) ELSE 0
            word == IF pair = 0 THEN hit.word ELSE hits[pair].word
        IN  IF i \in acc.consumed THEN acc
            ELSE [slots    |-> pushSlot(acc.slots, SlotAt(acc.slots, hit, word)),
                  consumed |-> acc.consumed \cup {pair}]
      slots == FoldLeftDomain(Step, [slots |-> <<>>, consumed |-> {}], hits).slots
      dinner == \E i \in DOMAIN slots : slots[i].type = "food" /\ slots[i].anchor = 1080
      open == {i \in DOMAIN slots : slots[i].type = "food" /\ slots[i].anchor = None}
  IN  IF Len(hits) < 2 \/ Len(slots) < 2 THEN <<>>
      ELSE IF dinner /\ open # {} THEN [slots EXCEPT ![Min(open)].anchor = 720]
      ELSE slots

----------------------------------------------------------------------------
(***************************************************************************)
(* Hours: "9 in the evening", "12 at night" (which the code reads as       *)
(* noon), "11" with no part of the day.                                    *)
(***************************************************************************)
resolveClockMinutes(hour, period) ==
  IF hour \notin 0 .. 23 THEN None
  ELSE IF period = "lunch" /\ hour # 12 THEN (hour + 12) * 60
  ELSE IF period \in {"afternoon", "evening", "night"} THEN
         (IF hour < 12 THEN hour + 12 ELSE hour) * 60
  ELSE hour * 60

\* One entry for each type counted, in the order they are first named; the last
\* count of a type wins, and a count of zero is no count.
scanRequestedCounts(matches) ==
  LET Note(counts, m) ==
        LET i == SelectInSeq(counts, LAMBDA c : c.type = m.type)
        IN  IF m.count <= 0 THEN counts
            ELSE IF i = 0 THEN Append(counts, m)
            ELSE [counts EXCEPT ![i] = m]
  IN  FoldLeft(Note, <<>>, matches)

\* THEME_DEFS and STYLE_PRESET_DEFS: a text has the signs of some of them.
ThemeDefs == <<"seaside", "nature", "photo", "nightView", "shopping">>
StylePresetDefs == <<"romantic", "safeDate", "healing", "active", "familyFriendly", "unique">>
SoftSigns == {"indoor", "compact", "area", "food-heavy", "cafe-heavy"}
Signs == ToSet(ThemeDefs) \cup ToSet(StylePresetDefs) \cup SoftSigns

scanThemes(signs) == SelectSeq(ThemeDefs, LAMBDA t : t \in signs)
scanStylePresets(signs) == SelectSeq(StylePresetDefs, LAMBDA p : p \in signs)

\* until is the first hour followed by "until", hours the first limit of hours.
scanSoftConstraints(signs, until, hours) ==
  [indoor  |-> "indoor" \in signs,
   compact |-> "compact" \in signs,
   area    |-> "area" \in signs,
   endBy   |-> resolveClockMinutes(until.hour, until.period),
   cap     |-> IF hours > 0 THEN hours * 60 ELSE None]

resolveFillerStrategy(signs, presets) ==
  LET Apply(acc, p) ==
        [fillers |-> CASE p \in {"romantic", "safeDate"}      -> "cafe-heavy"
                       [] p \in {"healing", "familyFriendly"} -> "calm"
                       [] p = "active"                        -> "active"
                       [] OTHER                               -> acc.fillers,
         chain   |-> CASE p = "unique"                         -> TRUE
                       [] p \in {"safeDate", "familyFriendly"} -> FALSE
                       [] OTHER                                -> acc.chain]
      heavy == SelectSeq(<<"food-heavy", "cafe-heavy">>, LAMBDA h : h \in signs)
  IN  IF heavy # <<>> THEN [fillers |-> Head(heavy), chain |-> FALSE]
      ELSE FoldLeft(Apply, [fillers |-> "default", chain |-> FALSE], presets)

\* ACTIVITY_KEYWORDS and MENU_PREFERENCE_KEYWORDS, in the order of the lists
ActivityKeywords == <<"lunch", "dinner", "brunch", "eats", "pasta", "bar", "cafe",
                      "movie", "bowling", "shopping", "exhibition", "walk">>
MenuKeywords == <<"pasta", "brunch", "brunchCafe", "cafe", "bar", "eats", "lunch", "dinner">>

Upto(s, n) == SubSeq(s, 1, Min({n, Len(s)}))

\* What the model answers is used when it names a place and an activity; what it
\* says of the time of day must be one of the four.
validateLlmOutput(answer) ==
  [valid      |-> answer.place /\ answer.activities # <<>>,
   activities |-> Upto(answer.activities, 6),
   timeOfDay  |-> IF answer.timeOfDay \in {"morning", "afternoon", "evening", "full-day"}
                  THEN answer.timeOfDay ELSE "full-day",
   prefs      |-> Upto(answer.prefs, 5)]

extractActivitiesFallback(text, mode) ==
  LET found == SelectSeq(ActivityKeywords, LAMBDA k : Includes(text, k))
  IN  IF Len(found) >= 2 THEN Upto(found, 4)
      ELSE IF mode = "date" THEN <<"eats", "cafe">>
      ELSE <<"eats", "walk">>

extractPreferencesFallback(text) ==
  Upto(SelectSeq(MenuKeywords, LAMBDA k : Includes(text, k)), 3)

\* period is the part of the day named before an hour; a text that says
\* "9 in the evening" or "1 at lunch" holds the keyword dinner or lunch as well.
timeOfDayFallback(text, period) ==
  IF Includes(text, "dinner") \/ period = "night" THEN "evening"
  ELSE IF Includes(text, "brunch") \/ period = "morning" THEN "morning"
  ELSE IF Includes(text, "lunch") \/ period = "afternoon" THEN "afternoon"
  ELSE "full-day"
=============================================================================
