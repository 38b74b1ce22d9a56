----------------------------- MODULE RainCache -----------------------------
(***************************************************************************)
(* The file of observed hourly rain that `make eccc-import` fills and the  *)
(* simulator replays (internal/raincache).  An import loads the file,      *)
(* fetches a window, merges it and writes the file back through a          *)
(* temporary one; it may be killed at any point.                           *)
(*                                                                         *)
(* The unit of time is half an hour, so a window may begin or end within   *)
(* an hour; an hour is named by its end.  One station: an import for       *)
(* another one is refused.                                                 *)
(***************************************************************************)
EXTENDS Integers, Sequences, FiniteSets, FiniteSetsExt, SequencesExt

CONSTANTS
    Depths,      \* amounts ECCC may report for an hour
    CacheHours,  \* hours of the instance
    MaxImports   \* bound: imports

ASSUME CacheAssumption == Depths \subseteq Nat \ {0} /\ CacheHours \in Nat /\ MaxImports \in Nat

Hour == 2
HourEnds == {Hour * k : k \in 1 .. CacheHours}
Moments == 0 .. Hour * CacheHours
Windows == {w \in Moments \X Moments : w[1] < w[2]}

VARIABLES
    disk,     \* the file and the temporary file; Absent, Torn or a File
    import,   \* the import under way
    imports   \* imports so far

cacheVars == <<disk, import, imports>>

\* A File has its fetches, oldest first (with what each one read: history), and
\* the amounts of its hours.
New == [kind |-> "file", fetches |-> <<>>, hours |-> {}]
Absent == [New EXCEPT !.kind = "absent"]
Torn == [New EXCEPT !.kind = "torn"]
NoImport == [at |-> "idle", from |-> 0, to |-> 0, file |-> New]

CacheInit == disk = [file |-> Absent, tmp |-> Absent] /\ import = NoImport /\ imports = 0

Inside(h, from, to) == from < h /\ h <= to

------------------------------------------------------------------------------
(* Merge, Covered and Window.                                              *)

\* Faulty: only hours that were read again are replaced.
ReplacedRead(f, from, to, read) == {h \in f.hours : \A r \in read : r.end # h.end}

\* The hours a fetch of (from, to] leaves alone.
Replaced(f, from, to, read) == {h \in f.hours : ~Inside(h.end, from, to)}

\* What the pages of a fetch hold; a page maps hours to amounts.
Readings(pages) == UNION {{[end |-> h, mm |-> page[h]] : h \in DOMAIN page} : page \in ToSet(pages)}

\* An hour that is read twice fails the merge.
Mergeable(pages) ==
    \A i, j \in DOMAIN pages : i # j => DOMAIN pages[i] \cap DOMAIN pages[j] = {}

Merge(f, from, to, read) ==
    [kind |-> "file",
     fetches |-> Append(f.fetches, [from |-> from, to |-> to, read |-> read]),
     hours |-> Replaced(f, from, to, read) \cup read]

EndsOf(f, start) == {w.to : w \in {v \in ToSet(f.fetches) : v.from = start}}

\* One turn of the loop, for the fetches with the same start: one that starts
\* after the reach leaves a gap and ends the loop.
Turn(f, start) ==
    [reach \in Moments |->
        IF start > reach THEN reach ELSE Max({reach} \cup EndsOf(f, start))]

\* How far the fetches reach from a moment.
Reach(f, from) ==
    LET reach[start \in Moments] ==
            Turn(f, start)[IF start = 0 THEN from ELSE reach[start - 1]]
    IN  reach[Hour * CacheHours]

Covered(f, from, to) == Reach(f, from) >= to

Window(f, from, to) == {h \in f.hours : Inside(h.end, from, to)}

------------------------------------------------------------------------------
(* runECCC.                                                                *)

Load(path) == IF path = Absent THEN New ELSE path

ImportBegin(from, to) ==
    /\ import.at = "idle" /\ imports < MaxImports
    /\ disk.file # Torn
    /\ import' = [at |-> "fetch", from |-> from, to |-> to, file |-> Load(disk.file)]
    /\ imports' = imports + 1
    /\ UNCHANGED disk

\* client.Hourly and Merge.  Hours without an amount are left out; a feature
\* that moves between two pages is read twice.
ImportFetch(pages) ==
    /\ import.at = "fetch"
    /\ import' = IF Mergeable(pages)
                 THEN [import EXCEPT !.at = "write",
                         !.file = Merge(@, import.from, import.to, Readings(pages))]
                 ELSE NoImport
    /\ UNCHANGED <<disk, imports>>

\* Faulty: the file is written in place.
WritesToFile(d, content) == [d EXCEPT !.file = content]

\* Write: os.WriteFile creates the temporary file, then fills it.
WritesTo(d, content) == [d EXCEPT !.tmp = content]

WriteOpens ==
    /\ import.at = "write"
    /\ disk' = WritesTo(disk, Torn)
    /\ import' = [import EXCEPT !.at = "fill"]
    /\ UNCHANGED imports

WriteFills ==
    /\ import.at = "fill"
    /\ disk' = WritesTo(disk, import.file)
    /\ import' = [import EXCEPT !.at = "rename"]
    /\ UNCHANGED imports

WriteRenames ==
    /\ import.at = "rename"
    /\ disk' = [file |-> disk.tmp, tmp |-> Absent]
    /\ import' = NoImport
    /\ UNCHANGED imports

\* The request fails, the disk is full, or the operator interrupts the import.
ImportDies ==
    /\ import.at # "idle"
    /\ import' = NoImport
    /\ UNCHANGED <<disk, imports>>

\* The pages ECCC may answer with: amounts of some hours of the window.
Pages ==
    UNION {[hs -> Depths] : hs \in SUBSET {h \in HourEnds : Inside(h, import.from, import.to)}}

CacheNext ==
    \/ \E w \in Windows : ImportBegin(w[1], w[2])
    \/ \E first, second \in Pages : ImportFetch(<<first, second>>)
    \/ WriteOpens \/ WriteFills \/ WriteRenames \/ ImportDies

CacheSpec == CacheInit /\ [][CacheNext]_cacheVars

------------------------------------------------------------------------------
(* The simulator: observedRain and ObservedRainScenario.                   *)

Accepts(from, to) == disk.file \notin {Absent, Torn} /\ Covered(disk.file, from, to)

\* The rain of the slot that begins at t, or 0.
RainMinutes(from, to) ==
    [t \in from .. to - 1 |->
        LET over == {h \in Window(disk.file, from, to) : h.end - Hour <= t /\ t < h.end}
        IN  IF over = {} THEN 0 ELSE (CHOOSE h \in over : TRUE).mm]

------------------------------------------------------------------------------
(* Properties.                                                             *)

\* The newest fetch of the file that asked for the hour.
NewestOf(h) ==
    LET of == {i \in DOMAIN disk.file.fetches :
                  Inside(h, disk.file.fetches[i].from, disk.file.fetches[i].to)}
    IN  {disk.file.fetches[i] : i \in {j \in of : j = Max(of)}}

\* A run that the simulator accepts replays, slot by slot, what the newest
\* fetch of each hour read: an hour it found null is dry, an hour nobody asked
\* for is never replayed as dry.  (Of an hour that ends after the window, the
\* part inside stays dry: Window selects hours by their end.)
ReplayIsNewestFetch ==
    \A w \in Windows : Accepts(w[1], w[2]) =>
        \A h \in {k \in HourEnds : Inside(k, w[1], w[2])} :
            \E fetch \in NewestOf(h) : \A t \in Max({w[1], h - Hour}) .. h - 1 :
                /\ \A r \in fetch.read : r.end = h => RainMinutes(w[1], w[2])[t] = r.mm
                /\ (\A r \in fetch.read : r.end # h) => RainMinutes(w[1], w[2])[t] = 0

\* No import takes away what was there: failed, killed while it writes or
\* completed, a run the simulator accepted stays accepted.
CoverageKept ==
    [][\A w \in Windows : Accepts(w[1], w[2]) => Accepts(w[1], w[2])']_cacheVars
=============================================================================
