------------------------------ MODULE DateLexer ------------------------------
(***************************************************************************)
(* How a date is found in a name (src/internal/classifier/parsers_date.go):*)
(* the name is a sequence of words and of what stands between them, and    *)
(* the loop of lexDate looks for word, separator, word, same separator,    *)
(* word, skipping what it has read whenever that fails.  A step is one     *)
(* iteration.                                                              *)
(***************************************************************************)
EXTENDS Naturals, Sequences

CONSTANTS Words,    \* words, as [year, month, day], 0 for what a word cannot be
          Gaps,     \* what stands between words
          MaxParts

\* Those of Gaps that may separate the parts of a date.
Separators == {".", "-", "/", " "}

VARIABLES parts,
          at,       \* i of the loop, counted from 1
          fresh,    \* isStartOrWordBreak
          date      \* NoDate until one is found

vars == <<parts, at, fresh, date>>

NoDate == <<0, 0, 0>>
MinParts == 5
NoWord == [year |-> 0, month |-> 0, day |-> 0]

IsGap(i) == parts[i] \in [gap : Gaps]
IsDatePart(i) == ~IsGap(i) /\ parts[i].word # NoWord

\* A century is a leap year here, whether it is one or not.
DaysIn(year, month) ==
    CASE month \in {4, 6, 9, 11} -> 30
      [] month = 2 -> IF year % 4 = 0 THEN 29 ELSE 28
      [] OTHER -> 31

Valid(d) ==
    d[1] \in 1000..9999 /\ d[2] \in 1..12 /\ d[3] \in 1..DaysIn(d[1], d[2])

\* The first reading that is a date: Y-M-D, D-M-Y, M-D-Y.
FirstValid(a, b, c) ==
    LET read == <<<<a.year, b.month, c.day>>, <<c.year, b.month, a.day>>, <<c.year, a.month, b.day>>>>
        First(k) == Valid(read[k]) /\ \A j \in 1..(k - 1) : ~Valid(read[j])
    IN IF \E k \in 1..3 : First(k) THEN read[CHOOSE k \in 1..3 : First(k)] ELSE NoDate

----------------------------------------------------------------------------
\* A name is words with gaps in between, and may begin and end with either.
NamesOf(n) ==
    {p \in [1..n -> [word : Words] \cup [gap : Gaps]] :
        \A i \in 1..(n - 1) : (p[i] \in [gap : Gaps]) # (p[i + 1] \in [gap : Gaps])}

Init ==
    /\ \E n \in 1..MaxParts : parts \in NamesOf(n)
    /\ at = 1 /\ fresh = TRUE /\ date = NoDate

\* The next iteration is at the part after the last one that was read.
Resume(i, isFresh) == at' = i + 1 /\ fresh' = isFresh /\ UNCHANGED <<parts, date>>

\* As SameGap, for any two separators.
AnyGap(i) == parts[i + 3].gap \in Separators

\* The second separator of a date is the one after its first part.
SameGap(i) == parts[i + 3] = parts[i + 1]

\* The date that ends with the part at i, which must end a word.
DateAt(i) ==
    IF IsDatePart(i + 4) /\ (i + 4 = Len(parts) \/ IsGap(i + 5))
    THEN FirstValid(parts[i].word, parts[i + 2].word, parts[i + 4].word)
    ELSE NoDate

Iterate ==
    /\ date = NoDate /\ at <= Len(parts) - MinParts + 1
    /\ IF ~fresh \/ ~IsDatePart(at) THEN Resume(at, IsGap(at))
       ELSE IF parts[at + 1].gap \notin Separators THEN Resume(at + 1, TRUE)
       ELSE IF ~IsDatePart(at + 2) THEN Resume(at + 2, IsGap(at + 2))
       ELSE IF ~SameGap(at) THEN Resume(at + 3, IsGap(at + 3))
       ELSE IF DateAt(at) = NoDate THEN Resume(at + 4, FALSE)
       ELSE date' = DateAt(at) /\ UNCHANGED <<parts, at, fresh>>

Next == Iterate

Spec == Init /\ [][Next]_vars

----------------------------------------------------------------------------
TypeOK ==
    /\ Len(parts) \in 1..MaxParts
    /\ at \in 1..(Len(parts) + 1) /\ fresh \in BOOLEAN
    /\ date = NoDate \/ Valid(date)

\* Three words from i on, with the same separator twice, that can be read as a date.
Spelled(i) ==
    /\ i + 4 <= Len(parts)
    /\ \A k \in {i, i + 2, i + 4} : IsDatePart(k)
    /\ parts[i + 1] = parts[i + 3] /\ parts[i + 1].gap \in Separators
    /\ FirstValid(parts[i].word, parts[i + 2].word, parts[i + 4].word) # NoDate

\* A date that is found is spelled in the name, one part after the other
\* (parsers_date.go:61-86); what was skipped is never joined with what follows.
DateIsSpelled ==
    date # NoDate => Spelled(at) /\ date = FirstValid(parts[at].word, parts[at + 2].word, parts[at + 4].word)

\* The first date is found when no word before it could be a part of one: whatever the
\* loop skips after such words (parsers_date.go:49-57), it does not skip the date.
PlainDateFound ==
    \A i \in 1..Len(parts) :
        Spelled(i) /\ (\A j \in 1..(i - 1) : ~IsDatePart(j)) => at < i \/ (at = i /\ fresh)

LexerContract == TypeOK /\ DateIsSpelled /\ PlainDateFound
=============================================================================
