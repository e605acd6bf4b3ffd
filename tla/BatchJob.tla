------------------------------ MODULE BatchJob ------------------------------
(***************************************************************************)
(* The maintenance jobs, reindex and reclassify: BatchTracker              *)
(* (src/internal/jobcontrol/batch.go), the slot they share                 *)
(* (src/internal/jobcontrol/controller.go) and what reindex does to the    *)
(* search index (src/internal/processor/enrich/indexer/tracker.go).        *)
(*                                                                         *)
(* Torrents are numbered in the order of their pages, a barrier is the     *)
(* number of torrents there were when it was taken, and a cursor is the    *)
(* last torrent of a page.  Totals and counts are only displayed.  A run   *)
(* is never canceled: no caller passes a context that is ever canceled.    *)
(***************************************************************************)
EXTENDS Integers

CONSTANTS Jobs,
          Indexing,         \* the jobs with a PrepareFresh: reindex
          PageSize,         \* batchPageSize
          MaxTorrents,      \* bounds: torrents,
          MaxStarts,        \*   starts,
          MaxDiscards,      \*   discards,
          MaxFailures,      \*   failures of a job's work or of the store,
          MaxRestarts,      \*   restarts of the process,
          MaxForced         \*   starts with ForceFresh

ASSUME BatchAssumption ==
    /\ Indexing \subseteq Jobs
    /\ PageSize \in Nat \ {0}
    /\ {MaxTorrents, MaxStarts, MaxDiscards, MaxFailures, MaxRestarts,
      MaxForced} \subseteq Nat

NoBarrier == -1
Min2(a, b) == IF a < b THEN a ELSE b

VARIABLES
    torrents,  \* how many there are
    active,    \* of the controller
    pc,        \* where each job's Start or run is
    attached,  \* t.progress is the object below, not nil
    progress,  \* the BatchProgress of the current or the last run
    page,      \* the end of the page a run works on
    index,     \* torrents handled since the last fresh start
    epoch,     \* number of that start, for the properties only
    saved,     \* the state in the store, NoState when there is none
    deleting,  \* a Discard is about to delete it
    budget     \* what the bounds have left

jobVars == <<attached, progress>>
workVars == <<page, index, epoch>>
storeVars == <<saved, deleting>>
vars == <<torrents, active, pc, jobVars, workVars, storeVars, budget>>

States == [barrier : {NoBarrier} \cup (0 .. MaxTorrents), cursor : 0 .. MaxTorrents,
           done : BOOLEAN, epoch : Nat]
NoState == [barrier |-> NoBarrier, cursor |-> 0, done |-> TRUE, epoch |-> 0]
Progresses == [barrier : {NoBarrier} \cup (0 .. MaxTorrents), cursor : 0 .. MaxTorrents,
               done : BOOLEAN, epoch : Nat, running : BOOLEAN]
Fresh(e) == [barrier |-> NoBarrier, cursor |-> 0, done |-> FALSE, epoch |-> e,
             running |-> TRUE]

Init ==
    /\ torrents \in 0 .. MaxTorrents
    /\ active = {}
    /\ pc = [j \in Jobs |-> "idle"]
    /\ attached = [j \in Jobs |-> FALSE]
    /\ progress = [j \in Jobs |-> [Fresh(0) EXCEPT !.running = FALSE]]
    /\ page = [j \in Jobs |-> 0]
    /\ index = [j \in Jobs |-> {}]
    /\ epoch = [j \in Jobs |-> 0]
    /\ saved = [j \in Jobs |-> NoState]
    /\ deleting = [j \in Jobs |-> FALSE]
    /\ budget = [starts |-> MaxStarts, discards |-> MaxDiscards, failures |-> MaxFailures,
                 restarts |-> MaxRestarts, forced |-> MaxForced]

Goto(j, place) == pc' = [pc EXCEPT ![j] = place]
Spend(what) ==
    /\ budget[what] > 0
    /\ budget' = [budget EXCEPT ![what] = @ - 1]

NewTorrent ==
    /\ torrents < MaxTorrents
    /\ torrents' = torrents + 1
    /\ UNCHANGED <<active, pc, jobVars, workVars, storeVars, budget>>

InProgress(j) == attached[j] /\ progress[j].running /\ ~progress[j].done
CanResume(j) == ~progress[j].done /\ progress[j].barrier # NoBarrier

----------------------------------------------------------------------------
(* Start, under the tracker's lock *)

\* TryAcquire fails while any job has the slot.
SameJobOnly(j) == j \notin active
TryAcquire(j)  == active = {}

Resume(j) ==
    /\ pc[j] = "idle"
    /\ ~InProgress(j)
    /\ TryAcquire(j)
    /\ attached[j] /\ CanResume(j)
    /\ Spend("starts")
    /\ active' = active \cup {j}
    /\ progress' = [progress EXCEPT ![j].running = TRUE]
    /\ Goto(j, "page")
    /\ UNCHANGED <<torrents, attached, workVars, storeVars>>

StartFresh(j, force) ==
    /\ pc[j] = "idle"
    /\ ~InProgress(j)
    /\ TryAcquire(j)
    /\ IF force THEN j \in Indexing /\ Spend("forced")
                ELSE ~(attached[j] /\ CanResume(j)) /\ Spend("starts")
    /\ active' = active \cup {j}
    /\ Goto(j, "preparing")
    /\ UNCHANGED <<torrents, jobVars, workVars, storeVars>>

\* PrepareFresh deletes the index and creates it again; reclassify has none.
Prepared(j) ==
    /\ pc[j] = "preparing"
    /\ index' = [index EXCEPT ![j] = {}]
    /\ epoch' = [epoch EXCEPT ![j] = @ + 1]
    /\ progress' = [progress EXCEPT ![j] = Fresh(epoch[j] + 1)]
    /\ attached' = [attached EXCEPT ![j] = TRUE]
    /\ Goto(j, "begin")
    /\ UNCHANGED <<torrents, active, page, storeVars, budget>>

KeepsSlot(j)   == active  \* the early return forgets it
ReleaseSlot(j) == active \ {j}

\* The old index may be deleted by then.

PrepareFails(j) ==
    /\ pc[j] = "preparing" /\ j \in Indexing
    /\ Spend("failures")
    /\ \/ UNCHANGED <<index, epoch>>
       \/ /\ index' = [index EXCEPT ![j] = {}]
          /\ epoch' = [epoch EXCEPT ![j] = @ + 1]
    /\ active' = ReleaseSlot(j)
    /\ Goto(j, "idle")
    /\ UNCHANGED <<torrents, jobVars, page, storeVars>>

----------------------------------------------------------------------------
(* run *)

\* The barrier is set and the torrents are counted; counting may fail.
TakeBarrier(j) ==
    /\ pc[j] = "begin"
    /\ progress' = [progress EXCEPT ![j].barrier = torrents, ![j].cursor = 0]
    /\ Goto(j, "page")
    /\ UNCHANGED <<torrents, active, attached, workVars, storeVars, budget>>

FullPage(j) == progress[j].cursor + PageSize
PageEnd(j)  == Min2(progress[j].cursor + PageSize, progress[j].barrier)

ListPage(j) ==
    /\ pc[j] = "page"
    /\ progress[j].cursor < progress[j].barrier
    /\ page' = [page EXCEPT ![j] = PageEnd(j)]
    /\ Goto(j, "work")
    /\ UNCHANGED <<torrents, active, jobVars, index, epoch, storeVars, budget>>

Rows(j) == progress[j].cursor + 1 .. page[j]

\* The cursor advances when the whole page has been handled.
Work(j) ==
    /\ pc[j] = "work"
    /\ index' = [index EXCEPT ![j] = @ \cup Rows(j)]
    /\ progress' = [progress EXCEPT ![j].cursor = page[j]]
    /\ Goto(j, "save")
    /\ UNCHANGED <<torrents, active, attached, page, epoch, storeVars, budget>>

\* What save writes; a failing save is only logged.
State(j) == [barrier |-> progress[j].barrier, cursor |-> progress[j].cursor,
             done |-> progress[j].done, epoch |-> progress[j].epoch]
Save(j) ==
    /\ \/ saved' = [saved EXCEPT ![j] = State(j)] /\ UNCHANGED budget
       \/ UNCHANGED saved /\ Spend("failures")
    /\ UNCHANGED deleting

SavePage(j) ==
    /\ pc[j] = "save"
    /\ Save(j)
    /\ Goto(j, "page")
    /\ UNCHANGED <<torrents, active, jobVars, workVars>>

AlmostThere(j) == progress[j].cursor + PageSize > progress[j].barrier
NothingLeft(j) == progress[j].cursor >= progress[j].barrier

\* An empty page; one that is not full ends the run as well, with nothing left behind it.
Finish(j) ==
    /\ pc[j] = "page"
    /\ NothingLeft(j)
    /\ progress' = [progress EXCEPT ![j].done = TRUE]
    /\ Goto(j, "ending")
    /\ UNCHANGED <<torrents, active, attached, workVars, storeVars, budget>>

\* Counting or listing torrents, or the work on a page, fails or panics.  Part of the page
\* may have been handled.
Fail(j) ==
    /\ pc[j] \in {"page", "work"}
    /\ Spend("failures")
    /\ progress' = [progress EXCEPT ![j].running = FALSE]
    /\ \/ UNCHANGED index
       \/ pc[j] = "work" /\ index' = [index EXCEPT ![j] = @ \cup {progress[j].cursor + 1}]
    /\ Goto(j, "ending")
    /\ UNCHANGED <<torrents, active, attached, page, epoch, storeVars>>

SaveLast(j) ==
    /\ pc[j] = "ending"
    /\ Save(j)
    /\ Goto(j, "saved")
    /\ UNCHANGED <<torrents, active, jobVars, workVars>>

Release(j) ==
    /\ pc[j] = "saved"
    /\ active' = ReleaseSlot(j)
    /\ Goto(j, "idle")
    /\ UNCHANGED <<torrents, jobVars, workVars, storeVars, budget>>

----------------------------------------------------------------------------
(* Discard; the state is deleted after the lock is released *)

Discard(j) ==
    /\ pc[j] # "preparing"
    /\ ~InProgress(j)
    /\ ~deleting[j]
    /\ Spend("discards")
    /\ attached' = [attached EXCEPT ![j] = FALSE]
    /\ deleting' = [deleting EXCEPT ![j] = TRUE]
    /\ UNCHANGED <<torrents, active, pc, progress, workVars, saved>>

Delete(j) ==
    /\ deleting[j]
    /\ deleting' = [deleting EXCEPT ![j] = FALSE]
    /\ \/ saved' = [saved EXCEPT ![j] = NoState] /\ UNCHANGED budget
       \/ UNCHANGED saved /\ Spend("failures")
    /\ UNCHANGED <<torrents, active, pc, jobVars, workVars>>

----------------------------------------------------------------------------
(* The process ends anywhere and comes back; Load restores each tracker *)

Restored(j) == [barrier |-> saved[j].barrier, cursor |-> saved[j].cursor,
                done |-> saved[j].done, epoch |-> saved[j].epoch, running |-> FALSE]

Restart ==
    /\ Spend("restarts")
    /\ active' = {}
    /\ pc' = [j \in Jobs |-> "idle"]
    /\ progress' = [j \in Jobs |-> Restored(j)]
    /\ \E loaded \in SUBSET Jobs :
          /\ loaded # Jobs => budget.failures > 0
          /\ attached' = [j \in Jobs |-> j \in loaded /\ saved[j] # NoState]
    /\ deleting' = [j \in Jobs |-> FALSE]
    /\ UNCHANGED <<torrents, workVars, saved>>

----------------------------------------------------------------------------
RunStep(j) ==
    \/ Prepared(j) \/ TakeBarrier(j) \/ ListPage(j) \/ Work(j) \/ SavePage(j)
    \/ Finish(j) \/ SaveLast(j) \/ Release(j)

Next ==
    \/ \E j \in Jobs :
          \/ Resume(j)
          \/ \E force \in BOOLEAN : StartFresh(j, force)
          \/ PrepareFails(j) \/ Fail(j) \/ Discard(j) \/ Delete(j)
          \/ RunStep(j)
    \/ NewTorrent
    \/ Restart

Spec == Init /\ [][Next]_vars

\* A run that was started goes on until it ends; nobody has to start one.
FairSpec == Spec /\ \A j \in Jobs : WF_vars(RunStep(j))

----------------------------------------------------------------------------
\* Type invariant of the trackers, the controller and the store.
TypeOK ==
    /\ torrents \in 0 .. MaxTorrents
    /\ active \subseteq Jobs
    /\ pc \in [Jobs -> {"idle", "preparing", "begin", "page", "work", "save", "ending",
                        "saved"}]
    /\ attached \in [Jobs -> BOOLEAN]
    /\ progress \in [Jobs -> Progresses]
    /\ page \in [Jobs -> 0 .. MaxTorrents]
    /\ index \in [Jobs -> SUBSET (1 .. MaxTorrents)]
    /\ epoch \in [Jobs -> Nat]
    /\ saved \in [Jobs -> States]
    /\ deleting \in [Jobs -> BOOLEAN]

(***************************************************************************)
(* controller.go:15: "Only one job may be active at a time; while any job  *)
(* is active the DHT crawler is paused."  Restarts, failures and discards  *)
(* fall anywhere, and a run holds the slot until its last save is over.    *)
(***************************************************************************)
OneJobAtATime ==
    \A j \in Jobs : pc[j] # "idle" => active = {j}

(***************************************************************************)
(* A run that is done has handled every torrent there was at its barrier,  *)
(* however often it failed, was restarted or resumed - provided that the   *)
(* state it was resumed from describes the index as last prepared.         *)
(***************************************************************************)
DoneIsComplete ==
    \A j \in Jobs :
        (progress[j].done /\ progress[j].epoch = epoch[j] /\ attached[j])
            => 1 .. progress[j].barrier \subseteq index[j]

(***************************************************************************)
(* batch.go:115: "persists progress after every page and can continue from *)
(* the last processed torrent after a restart".  A run that is offered for *)
(* resume continues from torrents that were really handled since the last  *)
(* preparation.                                                            *)
(***************************************************************************)
ContinuesFromProcessed ==
    \A j \in Indexing :
        (attached[j] /\ pc[j] \notin {"preparing", "begin"} /\ CanResume(j))
            => 1 .. progress[j].cursor \subseteq index[j]

(***************************************************************************)
(* The shared slot is always given back: otherwise no job could be started *)
(* and the crawler would stay paused until the next restart.               *)
(***************************************************************************)
SlotReleased == active # {} ~> active = {}
=============================================================================
