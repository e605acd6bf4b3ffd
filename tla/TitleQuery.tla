------------------------------ MODULE TitleQuery ------------------------------
(***************************************************************************)
(* How a text is looked for in PostgreSQL (src/internal/database/fts): the *)
(* tokens of the text become a tsquery, for the search of torrents and for *)
(* the search of content by a title that the classifier found; the words   *)
(* of names and titles become the positions of a tsvector.  What a tsquery *)
(* means, "!" before "<->" before "&" before "|", is PostgreSQL's.         *)
(***************************************************************************)
EXTENDS Integers, Sequences, SequencesExt, FiniteSetsExt

CONSTANTS Phrases,  \* the words of a token that is not a symbol, one per character for some
                    \* languages, and none for what is spelled with no letter
          MaxTokens

VARIABLE typed   \* the tokens of the text

vars == <<typed>>

Symbols == {"(", ")", "&", "|", ".", "!", "*"}
Tokens == [symbol : Symbols] \cup [words : Phrases]
Is(token, symbols) == token \in [symbol : symbols]
HasWords(token) == token \in [words : Phrases]

Init == typed = <<>>
Type(token) == Len(typed) < MaxTokens /\ typed' = Append(typed, token)
Next == \E token \in Tokens : Type(token)

----------------------------------------------------------------------------
(***************************************************************************)
(* The translation: a loop over the tokens, with the operator and the      *)
(* negation that the next expression gets.                                 *)
(***************************************************************************)
\* The tokens after the parenthesis at i, up to the one that closes it, if one does.
Depth(ts, i, j) ==
    LET Count(symbol) == Len(SelectSeq(SubSeq(ts, i, j), LAMBDA t : Is(t, {symbol})))
    IN Count("(") - Count(")")
Inside(ts, i) ==
    LET closing == {j \in (i + 1)..Len(ts) : Depth(ts, i, j) = 0}
    IN SubSeq(ts, i + 1, IF closing = {} THEN Len(ts) ELSE Min(closing) - 1)

Phrase(words) == [k \in 1..(2 * Len(words) - 1) |-> IF k % 2 = 1 THEN words[(k + 1) \div 2] ELSE "<->"]

\* As Joins, for a query that wants any of the words unless it is told otherwise.
JoinsAny(op) == CASE op = "&" -> "&" [] op = "." -> "<->" [] OTHER -> "|"

Joins(op) == CASE op = "|" -> "|" [] op = "." -> "<->" [] OTHER -> "&"

\* The parts with an expression more, and the star that follows it.
AddExpr(parts, op, negated, expr, star) ==
    parts \o (IF parts = <<>> THEN <<>> ELSE <<Joins(op)>>) \o (IF negated THEN <<"!">> ELSE <<>>)
          \o expr \o (IF star THEN <<":*">> ELSE <<>>)

RECURSIVE Parts(_, _, _, _, _)
Parts(ts, i, parts, op, negated) ==
    LET Skip(j) == Parts(ts, j, parts, op, negated)
        \* The loop goes on after the token at j, the last one of the expression.
        Add(expr, j) ==
            LET star == j < Len(ts) /\ Is(ts[j + 1], {"*"})
            IN IF expr = <<>> THEN Skip(j + 1)
               ELSE Parts(ts, IF star THEN j + 2 ELSE j + 1, AddExpr(parts, op, negated, expr, star), "", FALSE)
    IN IF i > Len(ts) THEN parts
       ELSE CASE Is(ts[i], {"&", "|", "."}) -> Parts(ts, i + 1, parts, ts[i].symbol, negated)
              [] Is(ts[i], {"!"}) -> Parts(ts, i + 1, parts, op, TRUE)
              [] Is(ts[i], {"("}) ->
                   LET inner == Inside(ts, i)
                       expr == Parts(inner, 1, <<>>, "", FALSE)
                   IN Add(IF expr = <<>> THEN <<>> ELSE <<"(">> \o expr \o <<")">>, i + Len(inner))
              [] HasWords(ts[i]) -> Add(Phrase(ts[i].words), i)
              [] OTHER -> Skip(i + 1)

Query(ts) == Parts(ts, 1, <<>>, "", FALSE)

----------------------------------------------------------------------------
(***************************************************************************)
(* The vector: words at positions, with a gap between two texts.           *)
(***************************************************************************)
WordsOf(ts) == FlattenSeq([k \in DOMAIN ts |-> IF HasWords(ts[k]) THEN ts[k].words ELSE <<>>])

\* As NextPos, without the gap.
NextPosClose(last) == last + 1

\* Where the next text begins, after the one that ends at last.
NextPos(last) == IF last = 0 THEN 1 ELSE last + 2
AddText(vector, words) ==
    LET last == Len(vector)
        from == NextPos(last)
    IN IF words = <<>> THEN vector
       ELSE [p \in 1..(from + Len(words) - 1) |->
          IF p <= last THEN vector[p] ELSE IF p < from THEN "" ELSE words[p - from + 1]]
Vector(texts) == FoldLeft(AddText, <<>>, texts)

----------------------------------------------------------------------------
(***************************************************************************)
(* What PostgreSQL makes of a query.                                       *)
(***************************************************************************)
IsLexeme(part) == part \notin {"(", ")", "&", "|", "<->", "!", ":*"}
Level(q, k) ==
    LET Count(part) == Len(SelectSeq(SubSeq(q, 1, k), LAMBDA x : x = part))
    IN Count("(") - Count(")")
Outer(q, op) == {k \in DOMAIN q : q[k] = op /\ Level(q, k) = 0}

\* The operator that binds least, the last of its kind: the query is what is before and after.
Root(q) == IF Outer(q, "|") # {} THEN "|" ELSE IF Outer(q, "&") # {} THEN "&" ELSE "<->"
Splits(q) == \E op \in {"|", "&", "<->"} : Outer(q, op) # {}
Left(q) == SubSeq(q, 1, Max(Outer(q, Root(q))) - 1)
Right(q) == SubSeq(q, Max(Outer(q, Root(q))) + 1, Len(q))
InParens(q) == SubSeq(q, 2, Len(q) - 1)

RECURSIVE Accepted(_)
Accepted(q) ==
    /\ q # <<>>
    /\ IF Splits(q) THEN Accepted(Left(q)) /\ Accepted(Right(q))
       ELSE CASE q[1] = "!" -> Accepted(Tail(q))
              [] q[1] = "(" -> q[Len(q)] = ")" /\ Accepted(InParens(q))
              [] OTHER -> IsLexeme(q[1]) /\ Tail(q) \in {<<>>, <<":*">>}

\* How many words after its first one a match of a phrase ends, and where it may begin.
RECURSIVE Width(_)
Width(q) ==
    IF Splits(q)
    THEN IF Root(q) = "<->" THEN Width(Left(q)) + 1 + Width(Right(q))
         ELSE IF Width(Left(q)) > Width(Right(q)) THEN Width(Left(q)) ELSE Width(Right(q))
    ELSE CASE q[1] = "!" -> Width(Tail(q)) [] q[1] = "(" -> Width(InParens(q)) [] OTHER -> 0

RECURSIVE Starts(_, _)
Starts(q, v) ==
    IF Splits(q)
    THEN LET l == Starts(Left(q), v)
             r == Starts(Right(q), v)
         IN CASE Root(q) = "|" -> l \cup r
              [] Root(q) = "&" -> l \cap r
              [] OTHER -> {p \in l : p + Width(Left(q)) + 1 \in r}
    ELSE CASE q[1] = "!" -> ((-Len(q))..(Len(v) + Len(q))) \ Starts(Tail(q), v)
           [] q[1] = "(" -> Starts(InParens(q), v)
           [] OTHER -> {p \in DOMAIN v : v[p] = q[1]}

RECURSIVE Matches(_, _)
Matches(q, v) ==
    IF q = <<>> THEN FALSE
    ELSE IF Splits(q)
    THEN CASE Root(q) = "|" -> Matches(Left(q), v) \/ Matches(Right(q), v)
           [] Root(q) = "&" -> Matches(Left(q), v) /\ Matches(Right(q), v)
           [] OTHER -> Starts(q, v) # {}
    ELSE CASE q[1] = "!" -> ~ Matches(Tail(q), v)
           [] q[1] = "(" -> Matches(InParens(q), v)
           [] OTHER -> Starts(q, v) # {}

----------------------------------------------------------------------------
(***************************************************************************)
(* Properties.                                                             *)
(***************************************************************************)
\* Whatever is typed, PostgreSQL takes the query: no text makes a search fail.
QueryAccepted == Query(typed) # <<>> => Accepted(Query(typed))

\* A text is found in itself, as the classifier relies on when it looks for a title, but for
\* what "!" excludes, and for a dot beside a parenthesis, which wants two words in one place.
HasNegation == \E k \in DOMAIN typed : Is(typed[k], {"!"})
DotsGroup ==
    /\ \E k \in DOMAIN typed : Is(typed[k], {"."})
    /\ \E k \in DOMAIN typed : Is(typed[k], {"("})
OwnTextFound ==
    (WordsOf(typed) # <<>> /\ ~ HasNegation /\ ~ DotsGroup) => Matches(Query(typed), Vector(<<WordsOf(typed)>>))

\* Words with "!", "&" and "|" between them, whatever comes twice or last, mean the words that
\* are there and are not, and "|" stands between alternatives.
Simple == \A k \in DOMAIN typed : Is(typed[k], {"&", "|", "!", "*"}) \/ typed[k] \in [words : {ws \in Phrases : Len(ws) = 1}]
Terms == {k \in DOMAIN typed : HasWords(typed[k])}
Between(k) == {j \in 1..(k - 1) : \A t \in Terms : t < k => t < j}
Negated(k) == \E j \in Between(k) : Is(typed[j], {"!"})
Alternative(k) ==
    /\ \E t \in Terms : t < k
    /\ \E j \in Between(k) : Is(typed[j], {"|"}) /\ \A i \in Between(k) : Is(typed[i], {"&"}) => i < j
Holds(k, v) == Negated(k) # (typed[k].words[1] \in Range(v))
MeantBy(v) ==
    \E first \in Terms :
      /\ Alternative(first) \/ \A t \in Terms : first <= t
      /\ \A k \in Terms : (k >= first /\ \A t \in (first + 1)..k : t \in Terms => ~ Alternative(t)) => Holds(k, v)
SimpleTextsMean ==
    Simple => \A v \in {Vector(<<ws>>) : ws \in Phrases \cup {<<>>}} : Matches(Query(typed), v) <=> MeantBy(v)

\* A phrase is found in one text of a vector, never across the end of one.
TextsApart ==
    LET text == WordsOf(typed)
        v == Vector(<<text, text>>)
    IN \A ws \in Phrases : ws # <<>> =>
         (Matches(Query(<<[words |-> ws]>>), v) <=> \E k \in 1..(Len(text) - Len(ws) + 1) : SubSeq(text, k, k + Len(ws) - 1) = ws)

QueryContract == QueryAccepted /\ OwnTextFound /\ SimpleTextsMean /\ TextsApart
=============================================================================
