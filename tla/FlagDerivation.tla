--------------------------- MODULE FlagDerivation ---------------------------
(***************************************************************************)
(* The journal of invocations and the derivation of flag corrections from  *)
(* it (internal/learn/journal.go, internal/learn/derive.go).               *)
(*                                                                         *)
(* Every invocation of the program appends one entry to the segment of its *)
(* day and then scans the journal's tail from the persisted offset: a      *)
(* failed flag followed by the same session's corrected retry is an        *)
(* observation, which the candidate store counts.  The processes share the *)
(* files; each step below is one operation on them.                        *)
(***************************************************************************)
EXTENDS Integers, Sequences, SequencesExt, FiniteSetsExt

CONSTANTS
  Invocation,   \* the processes, each one invocation after another
  Session,      \* a session's use of one command
  Window,       \* flagCorrectionWindow
  DayLength,
  MaxAge,       \* journalMaxSegmentAgeDays
  MaxTotal,     \* journalMaxTotalBytes, in lines
  Trouble,      \* what may go wrong: a death, an error of the disk or the store
  TroubleTogether, \* bound: what of it once two have run at once
  MaxTime,      \* bound: the clock stops here
  MaxEntries,   \* bound: no more invocations than this
  MaxTogether,  \* bound: nor than this that begin while another runs
  NoFile, NoEntry, Torn, Junk

Day(t) == t \div DayLength
Days == 0 .. Day(MaxTime)
Id == 1 .. MaxEntries
Entry ==
  [id : Id, session : Session, kind : {"failed", "fixed", "other"}, at : Nat]
Line == Entry \cup {Torn, Junk}
Offset == [day : Days \cup {-1}, line : Nat]
Start == [day |-> -1, line |-> 0]
(* An entry where it stands in the journal. *)
Place == [day : Days, line : Nat \ {0}, entry : Entry]
Stage == {"idle", "repair", "open", "write", "cleanup", "load", "read", "pair",
          "count", "store"}

ASSUME BoundsAssumption ==
  /\ Window \in Nat /\ DayLength \in Nat \ {0} /\ MaxTime \in Nat
  /\ MaxAge \in Nat /\ MaxTotal \in Nat /\ MaxEntries \in Nat
  /\ MaxTogether \in 0 .. MaxEntries
ASSUME MarksAssumption ==
  /\ Torn # Junk /\ Torn \notin Entry /\ Junk \notin Entry
  /\ NoFile \notin Seq(Line)
ASSUME TroubleAssumption ==
  /\ Trouble \subseteq {"death", "disk", "store"}
  /\ TroubleTogether \subseteq Trouble
ASSUME InvocationAssumption == IsFiniteSet(Invocation)

VARIABLES
  journal,   \* the segments: of each day no file, or its lines
  offset,    \* the persisted offset
  now,       \* the clock
  stage,     \* where each process is
  entry,     \* the entry it appends
  linked,    \* whether the segment it has opened is still in the directory
  batch,     \* the entries it has read, then the failures that pair
  next,      \* the offset behind them
  todo,      \* the failures it has still to count
  issued,    \* history: how many entries there were
  counted,   \* history: how often each failure was counted
  cut,       \* history: how many passes ended between counting and the offset
  stale,     \* history: the passes that another has stored an offset next to
  overtaken, \* history: how many of those stored theirs
  together   \* history: whether two invocations ever ran at once

meeting == <<stale, overtaken, together>>
journalVars == <<journal, offset, now, stage, entry, linked, batch, next, todo,
                 issued, counted, cut, meeting>>
scan == <<batch, next, todo>>

JournalTypeOK ==
  /\ journal \in [Days -> Seq(Line) \cup {NoFile}]
  /\ \A d \in Days : journal[d] # NoFile =>
       \A l \in DOMAIN journal[d] : journal[d][l] = Torn => l = Len(journal[d])
  /\ offset \in Offset
  /\ now \in 0 .. MaxTime
  /\ stage \in [Invocation -> Stage]
  /\ entry \in [Invocation -> Entry \cup {NoEntry}]
  /\ linked \in [Invocation -> BOOLEAN]
  /\ batch \in [Invocation -> SUBSET Place]
  /\ next \in [Invocation -> Offset]
  /\ todo \in [Invocation -> SUBSET Place]
  /\ issued \in Nat
  /\ counted \in [Id -> Nat]
  /\ cut \in Nat /\ overtaken \in Nat
  /\ stale \in SUBSET Invocation
  /\ together \in BOOLEAN

JournalInit ==
  /\ journal = [d \in Days |-> NoFile]
  /\ offset = Start
  /\ now = 0
  /\ stage = [p \in Invocation |-> "idle"]
  /\ entry = [p \in Invocation |-> NoEntry]
  /\ linked = [p \in Invocation |-> FALSE]
  /\ batch = [p \in Invocation |-> {}]
  /\ next = [p \in Invocation |-> Start]
  /\ todo = [p \in Invocation |-> {}]
  /\ issued = 0
  /\ counted = [i \in Id |-> 0]
  /\ cut = 0 /\ overtaken = 0
  /\ stale = {}
  /\ together = FALSE

Possible == IF together THEN TroubleTogether ELSE Trouble

Goto(p, label) == stage' = [stage EXCEPT ![p] = label]

(* The entry is appended, or given up. *)
Appended(p) ==
  /\ Goto(p, "load")
  /\ entry' = [entry EXCEPT ![p] = NoEntry]

(* The process ends and its locals with it. *)
Leave(p) ==
  /\ Goto(p, "idle")
  /\ entry' = [entry EXCEPT ![p] = NoEntry]
  /\ linked' = [linked EXCEPT ![p] = FALSE]
  /\ batch' = [batch EXCEPT ![p] = {}]
  /\ next' = [next EXCEPT ![p] = Start]
  /\ todo' = [todo EXCEPT ![p] = {}]
Exit(p) ==
  /\ Leave(p)
  /\ stale' = stale \ {p}

DayOf(p) == Day(entry[p].at)
HasTornTail(d) ==
  journal[d] # NoFile /\ journal[d] # << >> /\ Last(journal[d]) = Torn

-----------------------------------------------------------------------------
(* AppendJournalEntry. *)

Begin(p, s, k) ==
  /\ stage[p] = "idle"
  /\ LET others == \E q \in Invocation : stage[q] # "idle" IN
     /\ together' = (together \/ others)
     /\ issued < IF others THEN MaxTogether ELSE MaxEntries
  /\ issued' = issued + 1
  /\ entry' = [entry EXCEPT ![p] =
       [id |-> issued + 1, session |-> s, kind |-> k, at |-> now]]
  /\ Goto(p, "repair")
  /\ UNCHANGED <<journal, offset, now, linked, scan, counted, cut, stale, overtaken>>

(* A torn line, left by a writer that died, is ended. *)
RepairNothing(p) ==
  /\ stage[p] = "repair"
  /\ Goto(p, "open")
  /\ UNCHANGED <<journal, offset, now, entry, linked, scan, issued, counted, cut, meeting>>
Repair(p) ==
  /\ stage[p] = "repair"
  /\ journal' = IF HasTornTail(DayOf(p))
                THEN [journal EXCEPT ![DayOf(p)] = Append(Front(@), Junk)]
                ELSE journal
  /\ Goto(p, "open")
  /\ UNCHANGED <<offset, now, entry, linked, scan, issued, counted, cut, meeting>>

Open(p) ==
  /\ stage[p] = "open"
  /\ journal' = [journal EXCEPT ![DayOf(p)] = IF @ = NoFile THEN << >> ELSE @]
  /\ linked' = [linked EXCEPT ![p] = TRUE]
  /\ Goto(p, "write")
  /\ UNCHANGED <<offset, now, entry, scan, issued, counted, cut, meeting>>

(* The line goes to the end of the file, which may be a torn one's. *)
Added(d, line) ==
  IF HasTornTail(d)
  THEN Append(Front(journal[d]), IF line = Torn THEN Torn ELSE Junk)
  ELSE Append(journal[d], line)

Write(p) ==
  /\ stage[p] = "write"
  /\ journal' = IF linked[p]
                THEN [journal EXCEPT ![DayOf(p)] = Added(DayOf(p), entry[p])]
                ELSE journal
  /\ Goto(p, "cleanup")
  /\ UNCHANGED <<offset, now, entry, linked, scan, issued, counted, cut, meeting>>

(* Part of the line is on the disk when the process dies or the disk fails. *)
WriteTorn(p) ==
  /\ stage[p] = "write"
  /\ linked[p]
  /\ journal' = [journal EXCEPT ![DayOf(p)] = Added(DayOf(p), Torn)]
  /\ \/ "death" \in Possible /\ Exit(p)
     \/ /\ "disk" \in Possible
        /\ Appended(p)
        /\ linked' = [linked EXCEPT ![p] = FALSE]
        /\ UNCHANGED <<scan, stale>>
  /\ UNCHANGED <<offset, now, issued, counted, cut, overtaken, together>>

-----------------------------------------------------------------------------
(* cleanupJournalSegments: the oldest segments go, whole, while they are   *)
(* too old or the journal is too big; never the newest.                    *)

Segments == {d \in Days : journal[d] # NoFile}
SizeFrom(d) ==
  MapThenSumSet(LAMBDA e : Len(journal[e]), {e \in Segments : e >= d})

Outlived(d) == d < Day(now) - MaxAge \/ SizeFrom(d) > MaxTotal
Deleted ==
  {d \in Segments : /\ \E e \in Segments : e > d
                    /\ \A e \in Segments : e <= d => Outlived(e)}

(* The commands of the learn family derive nothing. *)
Cleanup(p) ==
  /\ stage[p] = "cleanup"
  /\ journal' = [d \in Days |-> IF d \in Deleted THEN NoFile ELSE journal[d]]
  /\ linked' = [q \in Invocation |->
       q # p /\ linked[q] /\ (stage[q] = "write" => DayOf(q) \notin Deleted)]
  /\ Appended(p)
  /\ UNCHANGED <<offset, now, scan, issued, counted, cut, meeting>>

-----------------------------------------------------------------------------
(* DeriveFlagCorrections. *)

Load(p) ==
  /\ stage[p] = "load"
  /\ \/ /\ next' = [next EXCEPT ![p] = offset]
        /\ Goto(p, "read")
        /\ UNCHANGED <<entry, linked, batch, todo, stale>>
     \/ Exit(p)     \* the command is one of the learn family
  /\ UNCHANGED <<journal, offset, now, issued, counted, cut, overtaken, together>>

(* The entries of the complete lines, each where it stands, and those of   *)
(* them behind an offset.                                                  *)
Complete(d) == Len(journal[d]) - IF HasTornTail(d) THEN 1 ELSE 0
EntriesOf(d) ==
  {[day |-> d, line |-> l, entry |-> journal[d][l]] :
     l \in {l \in 1 .. Complete(d) : journal[d][l] \notin {Torn, Junk}}}
Written == UNION {EntriesOf(d) : d \in Segments}

Past(x, off) == x.day > off.day \/ (x.day = off.day /\ x.line > off.line)
Precedes(x, y) == x.day < y.day \/ (x.day = y.day /\ x.line < y.line)
EntriesFrom(off) == {x \in Written : Past(x, off)}
EndFrom(off) ==
  IF \E d \in Segments : d >= off.day
  THEN [day |-> Max(Segments), line |-> Complete(Max(Segments))]
  ELSE off

Read(p) ==
  /\ stage[p] = "read"
  /\ LET found == EntriesFrom(next[p])
         end == EndFrom(next[p]) IN
     IF found = {} /\ end = next[p]
     THEN Exit(p)
     ELSE /\ batch' = [batch EXCEPT ![p] = found]
          /\ next' = [next EXCEPT ![p] = end]
          /\ Goto(p, "pair")
          /\ UNCHANGED <<entry, linked, todo, stale>>
  /\ UNCHANGED <<journal, offset, now, issued, counted, cut, overtaken, together>>

(* The session's next use of the command decides whether a failure pairs. *)
After(es, x) == {y \in es : Precedes(x, y) /\ y.entry.session = x.entry.session}
Earliest(es) == {x \in es : \A y \in es : ~ Precedes(y, x)}
Fixes(y, x) == y.entry.kind = "fixed" /\ y.entry.at - x.entry.at \in 0 .. Window
Pairs(es, x) ==
  x.entry.kind = "failed" /\ \E y \in Earliest(After(es, x)) : Fixes(y, x)
Undecided(es, x) ==
  /\ x.entry.kind = "failed"
  /\ After(es, x) = {}
  /\ now - x.entry.at <= Window

Paired(es) == {x \in es : Pairs(es, x)}
PendingNever(es) == FALSE
Pending(es) == \E x \in es : Undecided(es, x)

Pair(p) ==
  /\ stage[p] = "pair"
  /\ IF Pending(batch[p])
     THEN Exit(p)
     ELSE /\ todo' = [todo EXCEPT ![p] = Paired(batch[p])]
          /\ batch' = [batch EXCEPT ![p] = Paired(batch[p])]
          /\ Goto(p, "count")
          /\ UNCHANGED <<entry, linked, next, stale>>
  /\ UNCHANGED <<journal, offset, now, issued, counted, cut, overtaken, together>>

(* One failure after another, in the order of the batch. *)
Count(p) ==
  /\ stage[p] = "count"
  /\ \/ todo[p] = {} /\ Goto(p, "store") /\ UNCHANGED <<todo, counted>>
     \/ \E x \in Earliest(todo[p]) :
          /\ counted' = [counted EXCEPT ![x.entry.id] = @ + 1]
          /\ todo' = [todo EXCEPT ![p] = @ \ {x}]
          /\ UNCHANGED stage
  /\ UNCHANGED <<journal, offset, now, entry, linked, batch, next, issued, cut, meeting>>

(* Whoever has loaded the offset before it is replaced goes on with the    *)
(* old one, and may put it back.                                           *)
Stored(p) ==
  /\ Leave(p)
  /\ overtaken' = overtaken + IF p \in stale THEN 1 ELSE 0
  /\ stale' = {q \in Invocation \ {p} :
                 q \in stale \/ stage[q] \in {"read", "pair", "count", "store"}}
  /\ UNCHANGED <<journal, now, issued, counted, cut, together>>

StoreSegment(p) ==
  /\ stage[p] = "store"
  /\ offset' = [next[p] EXCEPT !.line = 0]
  /\ Stored(p)
StoreOffset(p) ==
  /\ stage[p] = "store"
  /\ offset' = next[p]
  /\ Stored(p)

-----------------------------------------------------------------------------

(* An error of the candidate store ends the pass before the offset.  It    *)
(* may come after the store has counted.                                   *)
StoreError(p) ==
  /\ stage[p] = "count"
  /\ "store" \in Possible
  /\ \E x \in Earliest(todo[p]) :
       UNCHANGED counted \/ counted' = [counted EXCEPT ![x.entry.id] = @ + 1]
  /\ Exit(p)
  /\ cut' = cut + 1
  /\ UNCHANGED <<journal, offset, now, issued, overtaken, together>>

(* A pass that ends here may have counted what the next one counts again.  *)
CutShort(p) == cut' = cut + IF stage[p] \in {"count", "store"} THEN 1 ELSE 0

(* An error while appending is swallowed and the scan goes on; one while   *)
(* scanning ends it.                                                       *)
DiskError(p) ==
  /\ "disk" \in Possible
  /\ \/ /\ stage[p] \in {"repair", "open", "cleanup"}
        /\ Appended(p)
        /\ linked' = [linked EXCEPT ![p] = FALSE]
        /\ UNCHANGED <<scan, stale>>
     \/ stage[p] \in {"load", "read", "store"} /\ Exit(p)
  /\ CutShort(p)
  /\ UNCHANGED <<journal, offset, now, issued, counted, overtaken, together>>

Die(p) ==
  /\ "death" \in Possible
  /\ stage[p] # "idle"
  /\ Exit(p)
  /\ CutShort(p)
  /\ UNCHANGED <<journal, offset, now, issued, counted, overtaken, together>>

Tick ==
  /\ now < MaxTime
  /\ now' = now + 1
  /\ UNCHANGED <<journal, offset, stage, entry, linked, scan, issued, counted, cut, meeting>>

JournalNext ==
  \/ \E p \in Invocation :
       \/ \E s \in Session, k \in {"failed", "fixed", "other"} : Begin(p, s, k)
       \/ Repair(p) \/ Open(p) \/ Write(p) \/ WriteTorn(p) \/ Cleanup(p)
       \/ Load(p) \/ Read(p) \/ Pair(p) \/ Count(p) \/ StoreOffset(p)
       \/ StoreError(p) \/ DiskError(p) \/ Die(p)
  \/ Tick

JournalSpec == JournalInit /\ [][JournalNext]_journalVars

-----------------------------------------------------------------------------
(* "every observation is counted exactly once instead of a partial pass    *)
(* re-bumping sightings later" is true of passes that neither break off    *)
(* nor meet.  Once none is under way, a failure was counted once, and      *)
(* again no more often than a pass was cut short between its counting and  *)
(* its offset, or stored an offset although another had stored one since   *)
(* it loaded its own: both have counted the same, or the offset is back    *)
(* where it was.                                                           *)
CountedOnce ==
  (\A p \in Invocation : stage[p] \notin {"count", "store"}) =>
    \A i \in Id : counted[i] <= 1 + cut + overtaken

(* "only advances after a fully successful pass, so a failed pass can      *)
(* never skip unprocessed entries": a failure before the offset whose      *)
(* correction is in the journal was counted, as long as no two invocations *)
(* have run at once.                                                       *)
NotSkipped ==
  ~ together =>
    \A x \in Written : ~ Past(x, offset) /\ Pairs(Written, x) =>
      counted[x.entry.id] > 0

(* A writer that died leaves a tail without a newline, which the next one  *)
(* ends before it appends: an entry that was written is, at that moment,   *)
(* the last line of its segment, whatever deaths and errors left in the    *)
(* file, as long as no two invocations have run at once.                   *)
AppendIsReadable ==
  [][\A p \in Invocation :
       stage[p] = "write" /\ stage'[p] = "cleanup" /\ ~ together =>
         /\ journal'[DayOf(p)] # NoFile
         /\ Last(journal'[DayOf(p)]) = entry[p]]_journalVars
=============================================================================
