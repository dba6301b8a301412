---------------------------- MODULE JournalWindows ----------------------------
(***************************************************************************)
(* How the agent counts the problems of a time window (vpn_installer/      *)
(* server_agent.py, journal_evidence.py): it reads the recent window, then *)
(* older chunks one by one, while journald appends, rotates, deletes files *)
(* and drops messages, and it claims a window only with evidence that the  *)
(* journal still holds all of it.                                          *)
(***************************************************************************)
EXTENDS Integers, FiniteSets, Sequences, FiniteSetsExt

CONSTANTS
    Capture,                \* the moment of the capture
    Short, Recent, Day,     \* lengths of the windows: 5 minutes, 30 minutes, 24 hours
    Chunk,                  \* length of one historical query
    Releases,               \* moments the running release may have been installed at
    MaxRecords,             \* bound on the entries of the journal
    MaxTroubles             \* bound on what happens to it, and to the queries

ASSUME JournalAssumption ==
    /\ {Capture, Short, Recent, Day, Chunk, MaxRecords} \subseteq Nat \ {0}
    /\ MaxTroubles \in Nat /\ Releases \subseteq 1..Capture /\ Releases # {}
    /\ Short <= Recent /\ Recent <= Day /\ Day < Capture

VARIABLES
    clock,      \* the time
    journal,    \* every message ever sent: its stamp and kind, in order
    starts,     \* indices at which a journal file begins; the last file is the current one
    kept,       \* indices of the entries still on disk
    release,    \* when the release was installed
    collector,  \* the agent's collection: see Idle
    troubles    \* what happened during the collection

jvars == <<clock, journal, starts, kept, release, collector, troubles>>

\* A message of a problem, another message, a problem journald dropped, and its later
\* notice that it dropped some.
Kinds == {"problem", "other", "dropped", "notice"}
Stamps == 1..(Capture + MaxTroubles + 1)
Nothing == [s \in Stamps |-> 0]
\* pc: the next step.  since: how far back the queries reach.  read: how often the
\* problem of a stamp was read.  segments: what each query failed at.  recent and
\* history: the two inventories.
Idle == [pc |-> "idle", since |-> Capture, read |-> Nothing, segments |-> {},
         recent |-> [error |-> TRUE], history |-> [error |-> TRUE]]
-----------------------------------------------------------------------------
(* journald. *)

\* The files: the indices between one start and the next; dropped messages have none.
FileOf(i) == CHOOSE s \in starts : s <= i /\ \A t \in starts : t <= i => t <= s
Current == CHOOSE s \in starts : \A t \in starts : t <= s
Written(i) == journal[i].kind # "dropped"
Append_(kind) ==
    /\ Len(journal) < MaxRecords
    /\ journal # <<>> => journal[Len(journal)].stamp < clock
    /\ journal' = Append(journal, [stamp |-> clock, kind |-> kind])
    /\ kept' = IF kind = "dropped" THEN kept ELSE kept \cup {Len(journal) + 1}
    /\ UNCHANGED starts
Rotate ==
    /\ starts' = starts \cup {Len(journal) + 1}
    /\ UNCHANGED <<journal, kept>>
\* The oldest file is vacuumed, or a damaged one set aside: never the current one.
Delete(file) ==
    /\ file \in starts \ {Current}
    /\ kept' = {i \in kept : FileOf(i) # file}
    /\ kept' # kept
    /\ UNCHANGED <<journal, starts>>
\* A notice follows a drop.
DropPending == \E i \in DOMAIN journal : journal[i].kind = "dropped"
                  /\ \A j \in DOMAIN journal : j > i => journal[j].kind # "notice"
Journald ==
    /\ collector.pc \notin {"idle", "done"} /\ troubles < MaxTroubles
    /\ \/ Append_("problem") \/ Append_("dropped") \/ (DropPending /\ Append_("notice"))
       \/ Rotate \/ \E file \in starts : Delete(file)
    /\ troubles' = troubles + 1 /\ clock' = clock + 1
    /\ UNCHANGED <<release, collector>>
-----------------------------------------------------------------------------
(* Queries. *)

Entries(kind, since, until) ==
    {i \in kept : journal[i].kind = kind /\ since <= journal[i].stamp /\ journal[i].stamp <= until}
\* journal_retained_range, journal_coverage: the files that end in the current one with no
\* number missing, since when they reach, and the notices of dropped messages.  An
\* inventory without entries in the current file is refused.
Contiguous(i) == \A j \in DOMAIN journal : j >= i /\ Written(j) => j \in kept
Coverage(since) ==
    IF ~\E i \in kept : FileOf(i) = Current THEN [error |-> TRUE]
    ELSE [error |-> FALSE, since |-> Min({journal[i].stamp : i \in {j \in kept : Contiguous(j)}}),
          from |-> since, notices |-> {journal[i].stamp : i \in Entries("notice", since, Capture)}]
\* Mutant: the window is not compared with what the journal retains.
Untested(coverage, since) ==
    \/ coverage.error
    \/ coverage.from > since
    \/ \E n \in coverage.notices : since <= n /\ n <= Capture
\* journal_window_error, for a window that ends at the capture.
Unproven(coverage, since) ==
    \/ coverage.error
    \/ since < coverage.since
    \/ coverage.from > since
    \/ \E n \in coverage.notices : since <= n /\ n <= Capture
\* Records of one query: both ends belong to it, and include keeps the older boundary only.
Included(since, until, last) ==
    {s \in {journal[i].stamp : i \in Entries("problem", since, until)} : last \/ s < until}
Reading(read, stamps) == [s \in Stamps |-> read[s] + IF s \in stamps THEN 1 ELSE 0]
-----------------------------------------------------------------------------
(* summarize_problem_windows. *)

Starts == [short |-> Capture - Short, recent |-> Capture - Recent, day |-> Capture - Day, fresh |-> release]
\* The farthest start a window asks for.
Target == Min({Capture - Day, release})
Step_(c) ==
    /\ collector' = c
    /\ UNCHANGED <<clock, journal, starts, kept, release, troubles>>
\* A query fails, counted with what happens to the journal.
Fail(c) ==
    /\ troubles < MaxTroubles /\ troubles' = troubles + 1
    /\ collector' = c
    /\ UNCHANGED <<clock, journal, starts, kept, release>>

\* The moment that ends every window is taken before the first query.
Begin ==
    /\ collector.pc = "idle"
    /\ collector' = [collector EXCEPT !.pc = "recent"] /\ clock' = Capture + 1
    /\ UNCHANGED <<journal, starts, kept, release, troubles>>

\* The recent window, read in one query; one that fails may have given some records.
ReadRecent ==
    /\ collector.pc = "recent"
    /\ LET records == Included(Capture - Recent, Capture, TRUE)
           After(read, failed) == [collector EXCEPT
               !.pc = "inventory", !.since = Capture - Recent, !.read = Reading(@, read),
               !.segments = {[until |-> Capture, failed |-> failed]}]
       IN Step_(After(records, FALSE)) \/ \E some \in SUBSET records : Fail(After(some, TRUE))
\* Its inventory, taken after the query; a vacuumed prefix is not read.
Inventory ==
    /\ collector.pc = "inventory"
    /\ LET recent == Coverage(Capture - Recent) IN
       Step_([collector EXCEPT !.pc = "history", !.recent = recent, !.history = recent])
\* Where the historical queries stop: at the farthest start, or at what is retained.
Goal == IF collector.recent.error THEN Target ELSE Max({Target, collector.recent.since})
ReadChunk ==
    /\ collector.pc = "history" /\ collector.since > Goal
    /\ LET start == collector.since - Min({Chunk, collector.since - Goal})
           records == Included(start, collector.since, FALSE)
           After(read, failed) == [collector EXCEPT
               !.since = start, !.read = Reading(@, read),
               !.segments = @ \cup {[until |-> collector.since, failed |-> failed]}]
           Ended(c) == [c EXCEPT !.pc = "again"]
       IN \/ Step_(After(records, FALSE))
          \* A failed query, or the budget of time or memory spent, ends the history.
          \/ \E some \in SUBSET records : Fail(Ended(After(some, TRUE)))
          \/ Fail(Ended(collector))
EndHistory ==
    /\ collector.pc = "history" /\ collector.since <= Goal
    /\ Step_([collector EXCEPT !.pc = "again"])
\* The second inventory catches what was rotated or vacuumed during the historical read.
InventoryAgain ==
    /\ collector.pc = "again"
    /\ Step_([collector EXCEPT !.pc = "done", !.history = Coverage(Target)])
Summarize == Begin \/ ReadRecent \/ Inventory \/ ReadChunk \/ EndHistory \/ InventoryAgain

\* What a window that begins at a moment is judged by.
EvidenceFor(since) == IF since >= Capture - Recent THEN collector.recent ELSE collector.history
Unbroken(since) ==
    /\ ~Unproven(EvidenceFor(since), since)
    /\ since >= collector.since
    /\ \A segment \in collector.segments : segment.failed => segment.until <= since
\* What the four windows tell: TRUE where one is complete.
LogWindows == [w \in DOMAIN Starts |-> Unbroken(Starts[w])]
-----------------------------------------------------------------------------
\* A journal at the start of a capture: messages in order, split in files, some of the
\* older files gone.
Journals ==
    UNION {{j \in [1..n -> [stamp : 1..Capture, kind : Kinds]] :
              /\ \A i, k \in 1..n : i < k => j[i].stamp < j[k].stamp
              /\ \A i \in 1..n : j[i].kind = "notice" =>
                    \E k \in 1..(i - 1) : j[k].kind = "dropped"} : n \in 1..(MaxRecords - 1)}
Files(j) == {{1} \cup s : s \in SUBSET (2..Len(j))}
JInit ==
    /\ clock = Capture /\ journal \in Journals /\ starts \in Files(journal)
    /\ \E gone \in SUBSET (starts \ {Current}) :
          kept = {i \in DOMAIN journal : Written(i) /\ FileOf(i) \notin gone}
    /\ release \in Releases
    /\ collector = Idle /\ troubles = 0

\* What happened at a moment: messages of problems, also those journald has dropped and
\* reported before the capture.
Reported(i) ==
    \E n \in DOMAIN journal :
        n > i /\ journal[n].kind = "notice" /\ journal[n].stamp <= Capture
Happened(s) ==
    {i \in DOMAIN journal :
        /\ journal[i].stamp = s
        /\ journal[i].kind = "problem" \/ (journal[i].kind = "dropped" /\ Reported(i))}
\* A window reported complete counts every problem message of the time it covers once:
\* no file deleted, rotated away or damaged during the collection, no boundary between
\* two queries and no message whose loss journald has reported is missing from a total,
\* and none counted twice makes up for one that is.  (A window of no length is called
\* complete even when the recent query fails, which the snapshot reports by itself.)
WindowsAreExact ==
    collector.pc = "done" =>
    \A w \in DOMAIN Starts : LogWindows[w] /\ Starts[w] < Capture =>
        \A s \in Starts[w]..Capture : collector.read[s] = Cardinality(Happened(s))
=============================================================================
