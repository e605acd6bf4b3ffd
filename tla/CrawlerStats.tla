----------------------------- MODULE CrawlerStats -----------------------------
(***************************************************************************)
(* What the crawler counts for display, across restarts: a filter of the   *)
(* addresses that it has seen, the number of those that were new, and a    *)
(* row of the database for each, written by loops of their own             *)
(* (src/internal/dhtcrawler/runtime.go and runtimestore_store.go).  Peers  *)
(* that are discovered and peers that are connected are counted alike, so  *)
(* this is one of the two.  A number is kept here as how often each        *)
(* address is in it.                                                       *)
(***************************************************************************)
EXTENDS Naturals, FiniteSets

CONSTANTS Addresses,
          Walkers,              \* goroutines that find addresses
          MaxRuns, MaxTroubles  \* bounds

VARIABLES phase,       \* of the store; "closed" and "cancelled" are the two steps of Stop
          seen, count, \* in memory: the filter and the number
          news,        \* walker -> addresses that were new to the filter and are not yet counted
          stats, filter,         \* the loops: what they have copied to write it
          savedCount, savedSeen, \* the rows
          runs, troubles,
          fresh, behind, cut     \* history: a row could not be read; the program ended with a
                                 \* filter, or with a number, that was not in its row

vars == <<phase, seen, count, news, stats, filter, savedCount, savedSeen, runs, troubles, fresh, behind, cut>>
memory == <<seen, count, news>>
rows == <<savedCount, savedSeen>>
bounds == <<runs, troubles>>
history == <<fresh, behind, cut>>

Zero == [p \in Addresses |-> 0]
NoCopy == [at |-> "wait", copy |-> Zero]
NoFilter == [at |-> "wait", copy |-> {}, late |-> FALSE]

Init ==
    /\ phase = "down" /\ seen = {} /\ count = Zero /\ news = [w \in Walkers |-> {}]
    /\ stats = NoCopy /\ filter = NoFilter
    /\ savedCount = Zero /\ savedSeen = {}
    /\ runs = 0 /\ troubles = 0
    /\ fresh = FALSE /\ behind = FALSE /\ cut = FALSE

----------------------------------------------------------------------------
\* Load, before the crawler starts: what cannot be read begins from nothing.
Start(badCount, badSeen) ==
    /\ phase = "down" /\ runs < MaxRuns
    /\ badCount \/ badSeen => troubles < MaxTroubles
    /\ phase' = "up" /\ runs' = runs + 1
    /\ troubles' = IF badCount \/ badSeen THEN troubles + 1 ELSE troubles
    /\ count' = IF badCount THEN Zero ELSE savedCount
    /\ seen' = IF badSeen THEN {} ELSE savedSeen
    /\ fresh' = (fresh \/ badCount \/ badSeen)
    /\ UNCHANGED <<news, stats, filter, rows, behind, cut>>

\* As New, for a filter that is asked and told under different locks.
NewToSome(w, p) == p \notin news[w]

\* TestAndAdd.  An address that the filter takes for another is not counted.
New(w, p) == p \notin seen

Find(w, p) ==
    /\ phase # "down" /\ New(w, p)
    /\ seen' = seen \cup {p}
    /\ news' = [news EXCEPT ![w] = @ \cup {p}]
    /\ UNCHANGED <<phase, count, stats, filter, rows, bounds, history>>

Add(w) ==
    /\ news[w] # {}
    /\ count' = [p \in Addresses |-> IF p \in news[w] THEN count[p] + 1 ELSE count[p]]
    /\ news' = [news EXCEPT ![w] = {}]
    /\ UNCHANGED <<phase, seen, stats, filter, rows, bounds, history>>

----------------------------------------------------------------------------
(***************************************************************************)
(* The loops: a tick, or the store is closed and this is the last time.  A *)
(* tick that is taken when the store is closed already does what one just  *)
(* before that does, as the last time follows.                             *)
(***************************************************************************)
Writing == {"write", "last"}
Closed == phase \in {"closed", "cancelled"}
May(how) == IF how = "last" THEN Closed ELSE phase = "up"
After(how) == IF how = "last" THEN "done" ELSE "wait"

CopyCount(how) ==
    /\ stats.at = "wait" /\ May(how)
    /\ stats' = [at |-> how, copy |-> count]
    /\ UNCHANGED <<phase, memory, filter, rows, bounds, history>>

\* The context of the numbers is that of the start, which nobody ends.
WriteCount ==
    /\ stats.at \in Writing
    /\ \/ savedCount' = stats.copy /\ UNCHANGED troubles
       \/ troubles < MaxTroubles /\ troubles' = troubles + 1 /\ UNCHANGED savedCount
    /\ stats' = [NoCopy EXCEPT !.at = After(stats.at)]
    /\ UNCHANGED <<phase, memory, filter, savedSeen, runs, history>>

CopyFilter(how) ==
    /\ filter.at = "wait" /\ May(how)
    /\ filter' = [at |-> how, copy |-> seen, late |-> phase = "cancelled"]
    /\ UNCHANGED <<phase, memory, stats, rows, bounds, history>>

\* The context of the filter ends with Stop: then a statement fails, but one that was sent before.
WriteFilter ==
    /\ filter.at \in Writing
    /\ \/ ~filter.late /\ savedSeen' = filter.copy /\ UNCHANGED troubles
       \/ phase = "cancelled" /\ UNCHANGED <<savedSeen, troubles>>
       \/ troubles < MaxTroubles /\ troubles' = troubles + 1 /\ UNCHANGED savedSeen
    /\ filter' = [NoFilter EXCEPT !.at = After(filter.at)]
    /\ UNCHANGED <<phase, memory, stats, savedCount, runs, history>>

----------------------------------------------------------------------------
Close ==
    /\ phase = "up" /\ phase' = "closed"
    /\ UNCHANGED <<memory, stats, filter, rows, bounds, history>>

Cancel ==
    /\ phase = "closed" /\ phase' = "cancelled"
    /\ UNCHANGED <<memory, stats, filter, rows, bounds, history>>

\* Stop has waited for both loops, or the program dies.
End(crashed) ==
    /\ phase # "down"
    /\ IF crashed THEN troubles < MaxTroubles /\ troubles' = troubles + 1
       ELSE phase = "cancelled" /\ stats.at = "done" /\ filter.at = "done" /\ UNCHANGED troubles
    /\ phase' = "down"
    /\ seen' = {} /\ count' = Zero /\ news' = [w \in Walkers |-> {}]
    /\ stats' = NoCopy /\ filter' = NoFilter
    /\ behind' = (behind \/ seen # savedSeen)
    /\ cut' = (cut \/ count # savedCount \/ \E w \in Walkers : news[w] # {})
    /\ UNCHANGED <<rows, runs, fresh>>

Next ==
    \/ \E badCount \in BOOLEAN, badSeen \in BOOLEAN : Start(badCount, badSeen)
    \/ \E w \in Walkers : Add(w) \/ \E p \in Addresses : Find(w, p)
    \/ \E how \in Writing : CopyCount(how) \/ CopyFilter(how)
    \/ WriteCount \/ WriteFilter
    \/ Close \/ Cancel \/ \E crashed \in BOOLEAN : End(crashed)

Spec == Init /\ [][Next]_vars

\* Tickers tick, who finds the store closed ends, and statements return.
Fairness ==
    /\ WF_vars(WriteCount \/ \E how \in Writing : CopyCount(how))
    /\ WF_vars(WriteFilter \/ \E how \in Writing : CopyFilter(how))
    /\ WF_vars(Cancel \/ End(FALSE))

FairSpec == Spec /\ Fairness

----------------------------------------------------------------------------
Pending(p) == Cardinality({w \in Walkers : p \in news[w]})

TypeOK ==
    /\ phase \in {"down", "up", "closed", "cancelled"}
    /\ seen \subseteq Addresses /\ savedSeen \subseteq Addresses
    /\ count \in [Addresses -> Nat] /\ savedCount \in [Addresses -> Nat]
    /\ stats.at \in Writing \cup {"wait", "done"} /\ filter.at \in Writing \cup {"wait", "done"}

\* However many goroutines find an address, one run of the program counts it once at most
\* (src/internal/dhtcrawler/runtime.go:31-38).
OncePerRun == \A p \in Addresses : count[p] + Pending(p) <= runs

\* The number and the filter, whose rows are written at different times, agree as long as no run
\* has ended with one of them unsaved: what is seen is counted, and once.
Agree ==
    phase # "down" =>
      /\ ~cut /\ ~fresh => \A p \in seen : count[p] + Pending(p) >= 1
      /\ ~behind /\ ~fresh => \A p \in Addresses : count[p] + Pending(p) <= 1

\* What is recorded never goes back, but for a start that could not read it.
NeverBack ==
    [][~fresh => savedSeen \subseteq savedSeen' /\ \A p \in Addresses : savedCount[p] <= savedCount'[p]]_vars

\* What is counted is recorded, unless the program dies or the database fails; and a stop ends.
CountsAreRecorded ==
    \A p \in Addresses : (count[p] > 0 /\ phase = "up") ~> (savedCount[p] >= 1 \/ troubles > 0)
StopEnds == phase = "closed" ~> phase = "down"
=============================================================================
