-------------------------- MODULE ClassifierWorkflow --------------------------
(***************************************************************************)
(* The classification of one torrent (src/internal/classifier): the        *)
(* actions and conditions a workflow is compiled to, and the default       *)
(* workflow of classifier.core.yml, whose four actions are steps here.     *)
(* What the language model, the database and TMDB answer is left open.  Of *)
(* a torrent there is what most of its bytes are, whether that is much,    *)
(* the keywords in its name, and the form of the name; of a title and a    *)
(* date, where they come from.                                             *)
(***************************************************************************)
EXTENDS Naturals, Sequences, FiniteSets

CONSTANTS Bodies,      \* what a torrent may contain: [most, much, words]
          Names,       \* forms of a name: [form, dated], see ParseTitle
          AnswerTypes  \* content types that the language model may give

VARIABLES torrent, tmdbEnabled, llmEnabled, strict,
          stage,     \* the action of the default workflow that is next
          result,
          failure,   \* what the run ended with, or "none"
          answer     \* history: the language model's, or NotAsked or Failed

vars == <<torrent, tmdbEnabled, llmEnabled, strict, stage, result, failure, answer>>

None == "none"
NotAsked == [type |-> "notAsked", title |-> FALSE, date |-> None]
Failed == [type |-> "failed", title |-> FALSE, date |-> None]
Nothing == [type |-> None, title |-> None, date |-> None, content |-> None]

\* 1970-01-01 is no date to a condition, as it is second 0.
Answers == [type : AnswerTypes \cup {"unknown"}, title : BOOLEAN, date : {None, "year", "full", "epoch"}]

Contents == {"movie", "tv_show", "other"}

----------------------------------------------------------------------------
(***************************************************************************)
(* The atoms of conditions.  An extension may count for several kinds.     *)
(***************************************************************************)
Kinds(most) ==
    CASE most = "flac" -> {"audio", "music"}
      [] most = "m4b" -> {"audio", "audiobook"}
      [] most = "iso" -> {"video", "software"}
      [] OTHER -> {most}

Most(kind) == kind \in Kinds(torrent.most)
MuchOf(kind) == Most(kind) /\ torrent.much
Says(word) == word \in torrent.words

Untyped(r) == r.type \in {None, "unknown"}
Undated(r) == r.date \in {None, "epoch"}

Holds(atom, r) ==
    CASE atom = "untyped" -> Untyped(r)
      [] atom = "undated" -> Undated(r)
      [] atom = "audiobook" -> MuchOf("audio") /\ (Says("audiobook") \/ Most("audiobook"))
      [] atom = "comic" -> Most("comic")
      [] atom = "ebook" -> Most("ebook")
      [] atom = "music" -> Most("music") \/ (Says("music") /\ Most("audio"))
      [] atom = "software" -> Most("software")
      [] atom = "adult" -> (Most("video") \/ Most("image")) /\ Says("adult")
      [] atom = "video" -> r.title = None /\ (r.type \in {"movie", "tv_show"} \/ MuchOf("video"))
      [] atom = "attachable" -> r.content = None /\ r.title # None /\ r.type \in Contents
      [] atom = "tmdb_enabled" -> tmdbEnabled
      [] atom = "local_search_enabled" -> TRUE

----------------------------------------------------------------------------
(***************************************************************************)
(* Leaves.  An outcome is a result or an error, of which "unmatched" is    *)
(* the one that find_match takes for an invitation to go on.               *)
(***************************************************************************)
Good(r) == [error |-> None, result |-> r]
Bad(e, r) == [error |-> e, result |-> r]
Unmatched(r) == Bad("unmatched", r)

Typed(r) == IF r.type = None THEN [r EXCEPT !.type = "unknown"] ELSE r

\* As Classify, a failure being a match that says nothing.
ClassifyAnyway(r, says) ==
    IF says = NotAsked THEN Unmatched(Typed(r)) ELSE Good(Typed(r))

\* An answer without a type is an answer: the type is then known to be unknown.
Classify(r, says) ==
    LET typed == Typed(r) IN
      CASE says = NotAsked -> Unmatched(typed)
        [] says = Failed -> IF strict THEN Bad("llm", typed) ELSE Unmatched(typed)
        [] OTHER -> Good([typed EXCEPT !.type = IF says.type = "unknown" THEN @ ELSE says.type,
                              !.title = IF says.title THEN "llm" ELSE @,
                              !.date = IF says.date = None THEN @ ELSE says.date])

ParseDate(r) ==
    IF torrent.dated THEN Good([r EXCEPT !.date = "name"]) ELSE Unmatched(r)

\* ParseTitleYearEpisodes: the parts found in a name when episodes are looked for or not.
ParseTitle(episodes) ==
    LET form == torrent.form IN
      CASE form = "untitled" -> {}
        [] form = "plain" -> {"title"}
        [] form = "year" -> {"title", "year"}
        [] form = "episodes" -> IF episodes THEN {"title", "episodes"} ELSE {"title"}
        [] form = "both" -> IF episodes THEN {"title", "year", "episodes"} ELSE {"title", "year"}

\* A title without year or episodes is not trusted; what is there already is kept.
ParseVideo(r) ==
    LET parts == ParseTitle(r.type \in {None, "tv_show", "unknown"})
        type == CASE "episodes" \in parts -> "tv_show"
                  [] "episodes" \notin parts /\ r.type # None -> r.type
                  [] "year" \in parts /\ "episodes" \notin parts /\ r.type = None -> "movie"
                  [] OTHER -> None
    IN IF parts = {} /\ r.type = None THEN Unmatched(r)
       ELSE Good([r EXCEPT !.type = IF @ = None THEN type ELSE @,
                           !.title = IF @ = None /\ parts \cap {"year", "episodes"} # {}
                                     THEN "name" ELSE @,
                           !.date = IF @ = None /\ "year" \in parts THEN "name" ELSE @])

Attach(r, content) == [r EXCEPT !.content = content, !.type = content]

\* The search in the database is for content of the type that the result has.
AttachLocal(r, found) ==
    IF r.type = None \/ r.title = None THEN Unmatched(r)
    ELSE CASE found = "match" -> Good(Attach(r, r.type))
           [] found = "none" -> Unmatched(r)
           [] found = "error" -> Bad("database", r)

\* TMDB has movies and shows; a movie for adults is of type other.  That the search fails is
\* no match, that the details cannot be had or read is an error.
AttachTmdb(r, found) ==
    IF r.title = None THEN Unmatched(r)
    ELSE CASE found = "match" -> Good(Attach(r, IF r.type = "tv_show" THEN "tv_show" ELSE "movie"))
           [] found = "adult" -> Good(Attach(r, IF r.type = "tv_show" THEN "tv_show" ELSE "other"))
           [] found = "none" -> Unmatched(r)
           [] found = "error" -> Bad("tmdb", r)

----------------------------------------------------------------------------
(***************************************************************************)
(* What is compiled from the source: an action with actions in it is an    *)
(* outcome made of their outcomes.                                         *)
(***************************************************************************)
\* Every action starts from what find_match started from; none of them matching is no error.
FindMatch(outcomes, r) ==
    LET matched == {i \in DOMAIN outcomes : outcomes[i].error # "unmatched"} IN
      IF matched = {} THEN Good(r) ELSE outcomes[CHOOSE i \in matched : \A j \in matched : i <= j]

IfElse(atom, r, then, else) == IF Holds(atom, r) THEN then ELSE else

SetType(type, r) == Good([r EXCEPT !.type = type])
Rule(type, r) == IfElse(type, r, SetType(type, r), Unmatched(r))

\* said: what is answered by the outside, by name of the leaf that asks.
TypeAction(r, said) ==
    IfElse("untyped", r,
        FindMatch(<<Classify(r, said.llm), Rule("audiobook", r), Rule("comic", r), Rule("ebook", r),
                    Rule("music", r), Rule("software", r), Rule("adult", r)>>, r), Good(r))
DateAction(r) == IfElse("undated", r, FindMatch(<<ParseDate(r)>>, r), Good(r))
VideoAction(r) == IfElse("video", r, FindMatch(<<ParseVideo(r)>>, r), Good(r))
ContentAction(r, said) ==
    IfElse("attachable", r,
        FindMatch(<<IfElse("local_search_enabled", r, AttachLocal(r, said.local), Unmatched(r)),
                    IfElse("tmdb_enabled", r, AttachTmdb(r, said.tmdb), Unmatched(r))>>, r), Good(r))

Default(said) ==
    CASE stage = 1 -> TypeAction(result, said)
      [] stage = 2 -> DateAction(result)
      [] stage = 3 -> VideoAction(result)
      [] stage = 4 -> ContentAction(result, said)

----------------------------------------------------------------------------
Init ==
    /\ \E body \in Bodies, name \in Names :
         torrent = [most |-> body.most, much |-> body.much, words |-> body.words,
                    form |-> name.form, dated |-> name.dated]
    /\ tmdbEnabled \in BOOLEAN /\ llmEnabled \in BOOLEAN /\ strict \in BOOLEAN
    /\ stage = 1 /\ result = Nothing /\ failure = None /\ answer = NotAsked

\* An action ends the workflow with an error, or hands its result to the next one.
Stage(said) ==
    LET outcome == Default(said) IN
      /\ failure = None /\ stage \in 1..4
      /\ failure' = outcome.error
      /\ result' = IF outcome.error = None THEN outcome.result ELSE Nothing
      /\ stage' = stage + 1
      /\ UNCHANGED <<torrent, tmdbEnabled, llmEnabled, strict>>

Silent == [llm |-> NotAsked, local |-> "none", tmdb |-> "none"]

Identify ==
    /\ stage = 1
    /\ \E says \in IF llmEnabled THEN Answers \cup {Failed} ELSE {NotAsked} :
         Stage([Silent EXCEPT !.llm = says]) /\ answer' = says

Parse == stage \in {2, 3} /\ Stage(Silent) /\ UNCHANGED answer

Search ==
    /\ stage = 4
    /\ \E local \in {"match", "none", "error"}, tmdb \in {"match", "adult", "none", "error"} :
         Stage([Silent EXCEPT !.local = local, !.tmdb = tmdb])
    /\ UNCHANGED answer

Next == Identify \/ Parse \/ Search

Spec == Init /\ [][Next]_vars

----------------------------------------------------------------------------
Answered == answer \notin {NotAsked, Failed}

TypeOK ==
    /\ stage \in 1..5
    /\ failure \in {None, "llm", "database", "tmdb"}
    /\ DOMAIN result = DOMAIN Nothing

RuleOrder == <<"audiobook", "comic", "ebook", "music", "software", "adult">>

\* The first rule, in the order of the file, that the torrent satisfies, or no type at all.
Ruled ==
    LET fits == {i \in DOMAIN RuleOrder : Holds(RuleOrder[i], Nothing)} IN
      IF fits = {} THEN None
      ELSE RuleOrder[CHOOSE i \in fits : \A j \in fits : i <= j]

\* Without a usable answer the rules alone decide, as if there were no model
\* (action_llm_classify.go:43, 66): a failed attempt leaves nothing in the result.
RulesDecide ==
    ~Answered /\ stage = 2 /\ failure = None => result = [Nothing EXCEPT !.type = Ruled]

\* A torrent that no rule knows becomes a film or a show only by what its name says
\* (parsers_video.go:177), and only when it is mostly video.
NameDecides ==
    ~Answered /\ result.type \in {"movie", "tv_show"} =>
        /\ Ruled = None /\ MuchOf("video")
        /\ torrent.form \in IF result.type = "movie" THEN {"year"} ELSE {"episodes", "both"}

\* Only the strict mode ends with the error of the model, and it always does (llm_strict.go:8).
StrictStops == failure = "llm" <=> strict /\ answer = Failed

\* What the model said is not overwritten by what the name says (Merge, the guards on date
\* and base title); a type that it does not know stays unknown, and a date of second 0 is
\* none.
AnswerKept ==
    Answered /\ failure = None =>
        /\ result.content = None => result.type = answer.type
        /\ answer.title => result.title = "llm"
        /\ answer.date \in {"year", "full"} => result.date = answer.date

\* Content is attached to a result with a title only, and gives it its type.
ContentFits ==
    result.content # None =>
        result.title # None /\ result.type = result.content /\ result.type \in Contents

ClassifyContract ==
    /\ TypeOK /\ RulesDecide /\ NameDecides /\ StrictStops /\ AnswerKept /\ ContentFits
=============================================================================
