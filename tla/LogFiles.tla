------------------------------- MODULE LogFiles -------------------------------
(***************************************************************************)
(* The log files (src/internal/logging): a rotator that goes over to the   *)
(* next file with the day or when the file is full, and removes the oldest *)
(* ones; the cores that loggers load and then write to; and every update   *)
(* of the configuration, whatever it is about, which replaces the rotator  *)
(* while loggers may still hold the one before.  A file is its date and    *)
(* sequence number, which is also its order by name; what is in it is the  *)
(* sequence of entries, which are numbered as they are written.  A buffer  *)
(* reaches its file as a whole; a rotation is one step, as the rotator has *)
(* its lock; formatting, levels and a file output that is off are left out.*)
(***************************************************************************)
EXTENDS Naturals, Sequences, FiniteSets, SequencesExt

CONSTANTS Loggers,       \* goroutines that log
          EntrySize,     \* the size of each entry, in order
          Caps,          \* maxSizeBytes that may be configured; 0 is no cap
          MaxBackups,
          MaxDays, MaxRotators, MaxFailures  \* bounds

VARIABLES
    day,
    disk,       \* file -> the entries in it
    rotators,   \* those made so far, the last one in dynamicCore
    replaced,   \* UpdateLogConfig has set the cores and not closed the rotator before
    loaded,     \* logger -> the rotator in the cores it holds, or 0
    written,    \* number of entries written
    late, unlinked, unsaved, pruned,  \* history: entries that no file has, by reason
    owner,      \* history: entry -> its rotator
    failures

vars == <<day, disk, rotators, replaced, loaded, written, late, unlinked, unsaved, pruned, owner, failures>>

NoFile == <<0, 0>>
New(cap) == [file |-> NoFile, date |-> 0, size |-> 0, buffer |-> <<>>, closed |-> FALSE, cap |-> cap,
             boot |-> 1]

Init ==
    /\ day = 1
    /\ disk = << >>
    /\ \E cap \in Caps : rotators = <<New(cap)>>
    /\ replaced = FALSE
    /\ loaded = [g \in Loggers |-> 0]
    /\ written = 0
    /\ late = {} /\ unlinked = {} /\ unsaved = {} /\ pruned = {}
    /\ owner = << >>
    /\ failures = 0

Current == Len(rotators)
Files == DOMAIN disk

\* A byte is in an entry, at a place in it.
Bytes(entries) == UNION {{k} \X (1 .. EntrySize[entries[k]]) : k \in DOMAIN entries}
Size(entries) == Cardinality(Bytes(entries))
Earlier(f, g) == f[1] < g[1] \/ (f[1] = g[1] /\ f[2] < g[2])

----------------------------------------------------------------------------
\* What is on disk once the buffer of r is flushed: nothing when its file was removed.
Flushed(r) == IF r.file \in Files THEN [disk EXCEPT ![r.file] = @ \o r.buffer] ELSE disk
Gone(r) == IF r.file \in Files THEN {} ELSE Range(r.buffer)

SequencesOf(date, files) == {f[2] : f \in {g \in files : g[1] = date}}

\* As ResolveActive, without a look at what there is.
FirstOfDay(r, contents) == <<day, 0>>

ResolveActive(r, contents) ==
    LET sequences == SequencesOf(day, DOMAIN contents)
        newest == <<day, Max(sequences)>>
    IN IF sequences = {} THEN <<day, 0>>
       ELSE IF r.cap > 0 /\ Size(contents[newest]) >= r.cap THEN <<day, newest[2] + 1>>
       ELSE newest

\* As NextSequence, from the number of files.
CountedSequence(files) == <<day, Cardinality(SequencesOf(day, files))>>

NextSequence(files) == <<day, Max({0} \cup SequencesOf(day, files)) + 1>>

NewPath(r, contents) ==
    IF r.date = day /\ r.cap > 0 THEN NextSequence(DOMAIN contents) ELSE ResolveActive(r, contents)

\* As Excess, with one backup too many.
ExcessButOne(files, active) ==
    {f \in files \ {active} : Cardinality({g \in files \ {active} : Earlier(f, g)}) > MaxBackups}

\* The oldest files but MaxBackups, the active one not counted.
Excess(files, active) ==
    LET backups == files \ {active} IN
      IF MaxBackups = 0 THEN {}
      ELSE {f \in backups : Cardinality({g \in backups : Earlier(f, g)}) >= MaxBackups}

ShouldRotate(r, size) ==
    \/ r.file = NoFile
    \/ r.date # day
    \/ r.cap > 0 /\ r.size > 0 /\ r.size + size > r.cap

\* The rotator i becomes r with the entry in its buffer.
Buffer(i, r, e) ==
    rotators' = [rotators EXCEPT ![i] = [r EXCEPT !.size = @ + EntrySize[e], !.buffer = Append(@, e)]]

----------------------------------------------------------------------------
LoadCores(g) ==
    /\ loaded[g] = 0 /\ written < Len(EntrySize)
    /\ loaded' = [loaded EXCEPT ![g] = Current]
    /\ UNCHANGED <<day, disk, rotators, replaced, written, late, unlinked, unsaved, pruned, owner, failures>>

Accept(g) ==
    /\ written' = written + 1
    /\ owner' = Append(owner, loaded[g])
    /\ loaded' = [loaded EXCEPT ![g] = 0]

\* A closed rotator takes the entry and says nothing.
WriteLate(g) ==
    /\ loaded[g] # 0 /\ rotators[loaded[g]].closed /\ written < Len(EntrySize)
    /\ Accept(g)
    /\ late' = late \cup {written + 1}
    /\ UNCHANGED <<day, disk, rotators, replaced, unlinked, unsaved, pruned, failures>>

WriteOn(g) ==
    /\ loaded[g] # 0 /\ written < Len(EntrySize)
    /\ LET r == rotators[loaded[g]] IN
         /\ ~r.closed /\ ~ShouldRotate(r, EntrySize[written + 1])
         /\ Buffer(loaded[g], r, written + 1)
    /\ Accept(g)
    /\ UNCHANGED <<day, disk, replaced, late, unlinked, unsaved, pruned, failures>>

WriteRotates(g) ==
    /\ loaded[g] # 0 /\ written < Len(EntrySize)
    /\ LET r == rotators[loaded[g]]
           old == Flushed(r)
           file == NewPath(r, old)
           files == Files \cup {file}
           kept == files \ Excess(files, file)
           content(f) == IF f \in Files THEN old[f] ELSE <<>>
       IN
         /\ ~r.closed /\ ShouldRotate(r, EntrySize[written + 1])
         /\ disk' = [f \in kept |-> content(f)]
         /\ pruned' = pruned \cup UNION {Range(content(f)) : f \in files \ kept}
         /\ unlinked' = unlinked \cup Gone(r)
         /\ Buffer(loaded[g], [r EXCEPT !.file = file, !.date = day, !.size = Size(content(file)),
                                         !.buffer = <<>>], written + 1)
    /\ Accept(g)
    /\ UNCHANGED <<day, replaced, late, unsaved, failures>>

\* The old file cannot be flushed, or the new one not be opened: the error is returned, the
\* entry refused, and the next one opens a file anew.  Failing to list what to prune is left
\* out, as the same listing has just succeeded.
RotateFails(g) ==
    /\ loaded[g] # 0 /\ failures < MaxFailures /\ written < Len(EntrySize)
    /\ LET r == rotators[loaded[g]] IN
         /\ ~r.closed /\ ShouldRotate(r, EntrySize[written + 1])
         /\ \/ /\ disk' = Flushed(r) /\ unlinked' = unlinked \cup Gone(r)
               /\ UNCHANGED unsaved
            \/ /\ unsaved' = unsaved \cup Range(r.buffer)
               /\ UNCHANGED <<disk, unlinked>>
         /\ rotators' = [rotators EXCEPT ![loaded[g]] = [r EXCEPT !.file = NoFile, !.size = 0, !.buffer = <<>>]]
    /\ loaded' = [loaded EXCEPT ![g] = 0]
    /\ failures' = failures + 1
    /\ UNCHANGED <<day, replaced, written, late, pruned, owner>>

\* The buffer of an open rotator is full, or the entry was so grave that zap syncs its core.
FlushBuffer(i) ==
    /\ rotators[i].buffer # <<>>
    /\ disk' = Flushed(rotators[i])
    /\ unlinked' = unlinked \cup Gone(rotators[i])
    /\ rotators' = [rotators EXCEPT ![i].buffer = <<>>]
    /\ UNCHANGED <<day, replaced, loaded, written, late, unsaved, pruned, owner, failures>>

----------------------------------------------------------------------------
(***************************************************************************)
(* UpdateLogConfig, under the lock of the manager: the cores first, then   *)
(* the rotator before is closed.                                           *)
(***************************************************************************)
SetCores(cap) ==
    /\ ~replaced /\ Current < MaxRotators
    /\ rotators' = Append(rotators, [New(cap) EXCEPT !.boot = rotators[Current].boot])
    /\ replaced' = TRUE
    /\ UNCHANGED <<day, disk, loaded, written, late, unlinked, unsaved, pruned, owner, failures>>

CloseOld ==
    /\ replaced
    /\ replaced' = FALSE
    /\ LET r == rotators[Current - 1] IN
         /\ disk' = Flushed(r)
         /\ unlinked' = unlinked \cup Gone(r)
         /\ rotators' = [rotators EXCEPT ![Current - 1] = [r EXCEPT !.buffer = <<>>, !.closed = TRUE]]
    /\ UNCHANGED <<day, loaded, written, late, unsaved, pruned, owner, failures>>

\* The process ends and is started again.  No buffer is flushed: a crash flushes nothing, and nobody
\* takes the hook by which a stop would.
Unflushed == UNION {Range(rotators[i].buffer) : i \in 1 .. Current}

Restart(cap) ==
    /\ Current < MaxRotators
    /\ unsaved' = unsaved \cup Unflushed
    /\ rotators' = Append([i \in 1 .. Current |-> [rotators[i] EXCEPT !.buffer = <<>>, !.closed = TRUE]],
                          [New(cap) EXCEPT !.boot = rotators[Current].boot + 1])
    /\ loaded' = [g \in Loggers |-> 0]
    /\ replaced' = FALSE
    /\ UNCHANGED <<day, disk, written, late, unlinked, pruned, owner, failures>>

Midnight ==
    /\ day < MaxDays
    /\ day' = day + 1
    /\ UNCHANGED <<disk, rotators, replaced, loaded, written, late, unlinked, unsaved, pruned, owner, failures>>

Next ==
    \/ \E g \in Loggers : LoadCores(g) \/ WriteLate(g) \/ WriteOn(g) \/ WriteRotates(g) \/ RotateFails(g)
    \/ \E i \in 1 .. Current : FlushBuffer(i)
    \/ \E cap \in Caps : SetCores(cap) \/ Restart(cap)
    \/ CloseOld \/ Midnight

Spec == Init /\ [][Next]_vars

----------------------------------------------------------------------------
Entries == 1 .. written
Buffered(e) == \E i \in 1 .. Current : e \in Range(rotators[i].buffer)
OnDisk(e) == \E f \in Files : e \in Range(disk[f])

\* Two rotators of one run of the program have both written.
Beside(i, j) == i # j /\ rotators[i].boot = rotators[j].boot
Alone(e) == \A i \in Range(owner) : ~Beside(owner[e], i)

\* The variables keep to their types.
TypeOK ==
    /\ \A f \in Files : f[1] \in 1 .. day /\ f[2] \in Nat /\ Range(disk[f]) \subseteq Entries
    /\ loaded \in [Loggers -> 0 .. Current]
    /\ owner \in Seq(1 .. Current) /\ Len(owner) = written
    /\ \A i \in 1 .. Current : rotators[i].cap \in Caps /\ rotators[i].date \in 0 .. day

\* An entry that was taken is in one file or one buffer, or gone for one of four reasons: it
\* was written to a rotator that had been closed, its file was removed under it, it could not
\* be saved, or it was among the oldest (src/internal/logging/file_rotator.go:52-74,125-153).
EveryEntryAccounted ==
    \A e \in Entries :
      Cardinality({w \in {"disk", "buffer", "late", "unlinked", "unsaved", "pruned"} :
         \/ w = "disk" /\ OnDisk(e)
         \/ w = "buffer" /\ Buffered(e)
         \/ w = "late" /\ e \in late
         \/ w = "unlinked" /\ e \in unlinked
         \/ w = "unsaved" /\ e \in unsaved
         \/ w = "pruned" /\ e \in pruned}) = 1

\* The files in the order of their names hold the entries of a rotator, and those of
\* successive runs of the program, in the order they were written (file_rotator.go:155-157,173-177).
Behind(e, d) ==
    \/ \E f \in Files, g \in Files : e \in Range(disk[f]) /\ d \in Range(disk[g]) /\ Earlier(f, g)
    \/ \E f \in Files : \E i \in 1 .. Len(disk[f]), j \in 1 .. Len(disk[f]) :
         i < j /\ disk[f][i] = e /\ disk[f][j] = d
InOrder ==
    \A e \in Entries, d \in Entries : d < e /\ Behind(e, d) => Beside(owner[e], owner[d])

\* What pruning removed is older than what it left, as far as one rotator can tell.
OldestGo ==
    \A e \in pruned, d \in Entries : d < e /\ OnDisk(d) => ~Alone(e) \/ ~Alone(d)

\* A file grows past the cap by its last entry at most, unless two rotators of one run wrote
\* into it: the first entry after a start is written whatever is left of the cap
\* (file_rotator.go:118-119,210-220).
WithinCap ==
    \A f \in Files :
      LET writers == {owner[e] : e \in Range(disk[f])}
          caps == {rotators[i].cap : i \in writers}
      IN 0 \notin caps /\ (\A i, j \in writers : ~Beside(i, j)) =>
           disk[f] = <<>> \/ Size(Front(disk[f])) <= Max(caps)

\* No more files are left than are to be kept, besides the active one (file_rotator.go:249-250).
FewFiles == MaxBackups > 0 => Cardinality(Files) <= MaxBackups + 1
=============================================================================
