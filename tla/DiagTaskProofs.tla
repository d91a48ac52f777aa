--------------------------- MODULE DiagTaskProofs ---------------------------
(***************************************************************************)
(* Proofs about DiagTask for every set of names, storage paths, severities *)
(* and clean-ups of any length.  A handler is a function of the world, so  *)
(* the invariant is one of worlds: each function is shown to keep it, and  *)
(* the step to the resulting world then keeps it too.                      *)
(***************************************************************************)
EXTENDS DiagTask, StoreOpsProofs

Displays == [kind: {"Initial", "Paused", "Recording", "Warning"}, level: Severity]

Worlds ==
    [store: Store, path: Paths, shelf: [Paths -> Seq(ManifestEntry)], task: Task,
     display: Displays, report: [Names -> Report], clock: Names \cup {None},
     finished: SUBSET Names, closed: Names \cup {None}, found: [Names -> Severity],
     began: SUBSET Names, pruned: SUBSET [found: Severity, marks: SUBSET Marks], ok: BOOLEAN]

\* The name of a recording is a time that has passed, in this store and in
\* the others, and nothing was found in a recording of the future.
NamesPassed(w) ==
    /\ \A n \in NamesOf(w.store.entries) : n <= w.clock
    /\ \A p \in Paths : \A n \in NamesOf(w.shelf[p]) : n <= w.clock
    /\ \A n \in Names : n > w.clock => w.found[n] = 0
    /\ w.closed <= w.clock

\* A report reads as clean only while nothing was found.
CleanIsClean(w) == \A n \in Names : w.report[n] = "clean" => w.found[n] = 0

Records(w) == w.task.state = "Recording"
NotAgainstUser(w) == w.task.stopped_by_user => ~Records(w)
HasEntry(w) ==
    Records(w) =>
        IF w.store.current # None
        THEN w.report[w.store.entries[w.store.current].name] \in {"clean", "warning"}
        ELSE w.closed # None

\* What a clean-up may remove.
Dispensable(e) ==
    /\ e.found = 0
    /\ "labelled" \notin e.marks
    /\ UploadsConfigured => "uploaded" \in e.marks

\* What holds between any two calls inside a handler.
WorldInv(w) ==
    /\ w \in Worlds /\ WellFormed(w.store)
    /\ NamesPassed(w) /\ CleanIsClean(w) /\ NotAgainstUser(w) /\ HasEntry(w)
    /\ \A e \in w.pruned : Dispensable(e)

\* What a running task owes the analysis thread.
Announced(w) ==
    \A n \in w.began :
        \/ n \in w.finished \/ n = w.closed
        \/ Records(w) /\ IsCurrentEntry(w.store, n)

\* What the display owes its reader; a handler may fall short of it on the way.
ShownIsReal(w) == w.display.kind \in {"Recording", "Warning"} => Records(w)
ShowsWorst(w) ==
    Records(w) /\ w.display.kind # "Paused" => w.display.level = w.task.max_type_seen
DisplayOK(w) == ShownIsReal(w) /\ ShowsWorst(w)

\* The inductive invariant.
IInv ==
    /\ WorldInv(World) /\ ShowsWorst(World)
    /\ loop \in {"runs", "exited", "failed"}
    /\ loop = "runs" => ShownIsReal(World) /\ Announced(World)

-----------------------------------------------------------------------------
\* What the provers need of a world's types.
LEMMA WorldFacts ==
    ASSUME NEW w, w \in Worlds, WellFormed(w.store)
    PROVE  /\ w.store.entries \in Seq(ManifestEntry)
           /\ w.store.current # None => w.store.current \in DOMAIN w.store.entries
           /\ None \notin DOMAIN w.store.entries
           /\ NamesOf(w.store.entries) \subseteq Names
           /\ \A i \in DOMAIN w.store.entries :
                /\ w.store.entries[i].name \in Names
                /\ w.store.entries[i].name \in NamesOf(w.store.entries)
                /\ w.store.entries[i].marks \in SUBSET Marks
           /\ w.store.current # None => IsCurrentEntry(w.store, Current(w))
           /\ w.store.current # None => Current(w) \in NamesOf(w.store.entries)
           /\ w.clock \in Nat /\ w.closed \in Nat
<1>1. /\ w.store.entries \in Seq(ManifestEntry) /\ w.store.current \in 0..Len(w.store.entries)
      /\ DOMAIN w.store.entries = 1..Len(w.store.entries) /\ Len(w.store.entries) \in Nat
  BY DEF WellFormed, Store
<1>2. /\ w.store.current # None => w.store.current \in DOMAIN w.store.entries
      /\ None \notin DOMAIN w.store.entries
  BY <1>1 DEF None
<1>3. \A i \in DOMAIN w.store.entries : w.store.entries[i] \in ManifestEntry
  BY <1>1
<1>4. \A i \in DOMAIN w.store.entries :
        w.store.entries[i].name \in Names /\ w.store.entries[i].marks \in SUBSET Marks
  BY <1>3 DEF ManifestEntry
<1>5. /\ NamesOf(w.store.entries) \subseteq Names
      /\ \A i \in DOMAIN w.store.entries : w.store.entries[i].name \in NamesOf(w.store.entries)
  BY <1>4 DEF NamesOf
<1>6. /\ w.store.current # None => IsCurrentEntry(w.store, Current(w))
      /\ w.store.current # None => Current(w) \in NamesOf(w.store.entries)
  BY <1>2, <1>5 DEF IsCurrentEntry, Current
<1>7. w.clock \in Nat /\ w.closed \in Nat
  <2>1. w.clock \in Names \cup {None} /\ w.closed \in Names \cup {None}
    BY DEF Worlds
  <2>2. \A x \in Names \cup {None} : x \in Nat
    BY NamesAssumption DEF None
  <2> QED BY <2>1, <2>2
<1> QED BY <1>1, <1>2, <1>4, <1>5, <1>6, <1>7

\* v is w after finish_current_entry: nothing is current, the task does not
\* record, and what was current has been announced.
Ended(w, v) ==
    /\ v \in Worlds /\ WellFormed(v.store)
    /\ v.store.current = None /\ ~Records(v)
    /\ NamesOf(v.store.entries) = NamesOf(w.store.entries)
    /\ v.shelf = w.shelf /\ v.report = w.report /\ v.clock = w.clock
    /\ v.found = w.found /\ v.began = w.began /\ v.pruned = w.pruned /\ v.closed = w.closed
    /\ v.path = w.path /\ v.task.stopped_by_user = w.task.stopped_by_user
    /\ v.task.max_type_seen = w.task.max_type_seen
    /\ w.finished \subseteq v.finished
    /\ w.store.current # None => Current(w) \in v.finished

LEMMA EndedKeeps ==
    ASSUME NEW w, WorldInv(w), NEW v, Ended(w, v)
    PROVE  /\ WorldInv(v)
           /\ Announced(w) => v.began \subseteq v.finished \cup {v.closed}
           /\ Announced(w) => Announced(v)
<1>1. WorldInv(v)
  BY DEF WorldInv, Ended, NamesPassed, CleanIsClean, NotAgainstUser, HasEntry
<1>2. ASSUME Announced(w) PROVE v.began \subseteq v.finished \cup {v.closed}
  <2> SUFFICES ASSUME NEW n \in w.began PROVE n \in v.finished \cup {v.closed}
    BY DEF Ended
  <2>1. CASE n \in w.finished \/ n = w.closed
    BY <2>1 DEF Ended
  <2>2. CASE Records(w) /\ IsCurrentEntry(w.store, n)
    <3>1. w.store.current # None
      BY <2>2, WorldFacts DEF WorldInv, IsCurrentEntry
    <3>2. Current(w) = n
      BY <2>2 DEF IsCurrentEntry, Current
    <3> QED BY <3>1, <3>2 DEF Ended
  <2> QED BY <1>2, <2>1, <2>2 DEF Announced
<1> QED BY <1>1, <1>2 DEF Announced

\* finish_current_entry ends the recording and tells the analysis thread.
LEMMA FinishIs ==
    ASSUME NEW w, WorldInv(w), NEW r \in Reasons \cup {NoReason}
    PROVE  /\ Ended(w, FinishCurrentEntry(w, r))
           /\ FinishCurrentEntry(w, r).display = w.display
<1> DEFINE noted == IF r = NoReason THEN w.store ELSE SetCurrentStopReason(w.store, r)
           shut == CloseCurrentEntry(noted)
           done == IF w.store.current = None THEN w.finished
                   ELSE w.finished \cup {Current(w)}
           v == FinishCurrentEntry(w, r)
<1>1. w \in Worlds /\ WellFormed(w.store)
  BY DEF WorldInv
<1>2. /\ WellFormed(noted) /\ NamesOf(noted.entries) = NamesOf(w.store.entries)
  BY <1>1, SetReasonKeeps DEF SameEntries
<1> HIDE DEF noted
<1>3. /\ WellFormed(shut) /\ shut.current = None
      /\ NamesOf(shut.entries) = NamesOf(w.store.entries)
      /\ shut \in Store
  BY <1>2, CloseCurrentEntryKeeps DEF WellFormed
<1> HIDE DEF shut
<1>4. done \in SUBSET Names /\ w.finished \subseteq done
      /\ (w.store.current # None => Current(w) \in done)
  <2>1. w.finished \in SUBSET Names
    BY <1>1 DEF Worlds
  <2>2. w.store.current # None => Current(w) \in Names
    BY <1>1, WorldFacts
  <2> QED BY <2>1, <2>2
<1> HIDE DEF done
<1>5. v = [w EXCEPT !.task.state = "Stopped", !.store = shut, !.finished = done]
  BY DEF FinishCurrentEntry, shut, noted, done
<1>6. [w.task EXCEPT !.state = "Stopped"] \in Task
  <2>1. w.task \in Task
    BY <1>1 DEF Worlds
  <2> QED BY <2>1 DEF Task
<1>7. v = [w EXCEPT !.task = [w.task EXCEPT !.state = "Stopped"],
                    !.store = shut, !.finished = done]
  BY <1>1, <1>5 DEF Worlds
<1>8. /\ v \in Worlds /\ v.store = shut /\ v.finished = done
      /\ v.task = [w.task EXCEPT !.state = "Stopped"]
  BY <1>1, <1>3, <1>4, <1>6, <1>7 DEF Worlds
<1>9. /\ v.shelf = w.shelf /\ v.report = w.report /\ v.clock = w.clock
      /\ v.found = w.found /\ v.began = w.began /\ v.pruned = w.pruned /\ v.closed = w.closed
      /\ v.path = w.path /\ v.display = w.display
  BY <1>1, <1>7 DEF Worlds
<1>10. /\ v.task.state = "Stopped" /\ v.task.stopped_by_user = w.task.stopped_by_user
       /\ v.task.max_type_seen = w.task.max_type_seen
  <2>1. w.task \in Task
    BY <1>1 DEF Worlds
  <2> QED BY <1>8, <2>1 DEF Task
<1> HIDE DEF v
<1> QED BY <1>3, <1>4, <1>8, <1>9, <1>10 DEF Ended, Records, v

\* Stop, with its message to the display.
LEMMA StopIs ==
    ASSUME NEW w, WorldInv(w), NEW r \in Reasons \cup {NoReason}
    PROVE  /\ Ended(w, Stop(w, r)) /\ WorldInv(Stop(w, r)) /\ DisplayOK(Stop(w, r))
           /\ Announced(w) => Announced(Stop(w, r))
<1> DEFINE u == FinishCurrentEntry(w, r)
           v == Stop(w, r)
<1>1. Ended(w, u)
  BY FinishIs
<1>2. v = [u EXCEPT !.display = Paused]
  BY DEF Stop
<1> HIDE DEF u, v
<1>3. u \in Worlds /\ Paused \in Displays
  BY <1>1, SeverityAssumption DEF Ended, Paused, Shows, Displays, Severity
<1>4. v \in Worlds
  BY <1>2, <1>3 DEF Worlds
<1>5. /\ v.shelf = u.shelf /\ v.report = u.report /\ v.clock = u.clock
      /\ v.found = u.found /\ v.began = u.began /\ v.pruned = u.pruned /\ v.closed = u.closed
      /\ v.path = u.path /\ v.task = u.task /\ v.store = u.store
      /\ v.finished = u.finished /\ v.display = Paused
  BY <1>2, <1>3 DEF Worlds
<1>6. Ended(w, v)
  BY <1>1, <1>4, <1>5 DEF Ended, Records
<1>7. DisplayOK(v)
  BY <1>5 DEF DisplayOK, ShownIsReal, ShowsWorst, Paused, Shows
<1>8. WorldInv(v) /\ (Announced(w) => Announced(v))
  BY <1>6, EndedKeeps
<1> QED BY <1>6, <1>7, <1>8 DEF v

-----------------------------------------------------------------------------
\* v is w after deletions, a clean-up or a mark: recordings other than the
\* current one may have gone or lost their reports.
Lighter(w, v) ==
    /\ v \in Worlds /\ WellFormed(v.store)
    /\ NamesOf(v.store.entries) \subseteq NamesOf(w.store.entries)
    /\ w.store.current # None =>
        v.store.current # None /\ Current(v) = Current(w)
    /\ w.store.current = None => v.store.current = None
    /\ v.closed = w.closed
    /\ \A n \in Names : \/ v.report[n] = w.report[n]
                        \/ v.report[n] = "none" /\ ~IsCurrentEntry(w.store, n)
    /\ \A e \in v.pruned : e \in w.pruned \/ Dispensable(e)
    /\ v.shelf = w.shelf /\ v.clock = w.clock /\ v.display = w.display
    /\ v.found = w.found /\ v.began = w.began /\ v.finished = w.finished
    /\ v.path = w.path /\ v.task.stopped_by_user = w.task.stopped_by_user
    /\ v.task.state = w.task.state /\ v.task.max_type_seen = w.task.max_type_seen

LEMMA LighterKeeps ==
    ASSUME NEW w, WorldInv(w), NEW v, Lighter(w, v)
    PROVE  /\ WorldInv(v)
           /\ Announced(w) => Announced(v)
           /\ ShownIsReal(w) => ShownIsReal(v)
           /\ ShowsWorst(w) => ShowsWorst(v)
<1>1. /\ w \in Worlds /\ WellFormed(w.store) /\ v \in Worlds /\ WellFormed(v.store)
  BY DEF WorldInv, Lighter
<1>2. NamesPassed(v) /\ CleanIsClean(v) /\ NotAgainstUser(v)
  BY DEF WorldInv, Lighter, NamesPassed, CleanIsClean, NotAgainstUser, Records
<1>3. HasEntry(v)
  <2>1. CASE w.store.current = None
    BY <2>1 DEF WorldInv, HasEntry, Lighter, Records
  <2>2. CASE w.store.current # None
    <3> SUFFICES ASSUME Records(v)
                 PROVE  v.store.current # None /\ v.report[Current(v)] \in {"clean", "warning"}
      BY DEF HasEntry, Current
    <3>1. w.report[Current(w)] \in {"clean", "warning"}
      BY <2>2 DEF WorldInv, HasEntry, Lighter, Records, Current
    <3>2. IsCurrentEntry(w.store, Current(w)) /\ Current(w) \in Names
      BY <1>1, <2>2, WorldFacts
    <3> QED BY <2>2, <3>1, <3>2 DEF Lighter
  <2> QED BY <2>1, <2>2
<1>4. \A e \in v.pruned : Dispensable(e)
  BY DEF WorldInv, Lighter
<1>5. ASSUME Announced(w) PROVE Announced(v)
  <2> SUFFICES ASSUME NEW n \in w.began, Records(w), IsCurrentEntry(w.store, n)
               PROVE  Records(v) /\ IsCurrentEntry(v.store, n)
    BY <1>5 DEF Announced, Lighter
  <2>1. w.store.current # None
    BY <1>1, WorldFacts DEF IsCurrentEntry
  <2>2. v.store.current # None /\ Current(v) = Current(w) /\ Current(w) = n
    BY <2>1 DEF Lighter, IsCurrentEntry, Current
  <2> QED BY <1>1, <2>2, WorldFacts DEF Lighter, Records
<1>6. /\ ShownIsReal(w) => ShownIsReal(v)
      /\ ShowsWorst(w) => ShowsWorst(v)
  BY DEF ShownIsReal, ShowsWorst, Lighter, Records
<1> QED BY <1>1, <1>2, <1>3, <1>4, <1>5, <1>6 DEF WorldInv

\* A clean-up of any length spares the recording in progress and whatever is
\* worth keeping.
LEMMA PruneIs ==
    ASSUME NEW w, WorldInv(w), NEW turns
    PROVE  /\ Lighter(w, PruneCleanRecordings(w, turns))
           /\ PruneCleanRecordings(w, turns).task = w.task
<1> DEFINE es == w.store.entries
           reached == {i \in DOMAIN es : es[i].name \in DOMAIN turns /\ VerdictIsClean(w, i)}
           removed == {i \in reached : turns[es[i].name] = "removed"}
           left == DeleteEntries(w.store, removed)
           told == [n \in Names |->
                        IF n \in {es[i].name : i \in reached} THEN "none" ELSE w.report[n]]
           gone == {[found |-> w.found[es[i].name], marks |-> es[i].marks] : i \in removed}
           v == PruneCleanRecordings(w, turns)
<1>1. /\ w \in Worlds /\ WellFormed(w.store) /\ CleanIsClean(w)
      /\ \A i \in DOMAIN es : es[i].name \in Names /\ es[i].marks \in SUBSET Marks
  BY WorldFacts DEF WorldInv
<1>2. \A i \in reached : ~IsCurrentEntry(w.store, es[i].name)
  BY DEF VerdictIsClean
<1>3. removed \in SUBSET DOMAIN es /\ w.store.current \notin removed
  BY <1>2 DEF IsCurrentEntry
<1>4. /\ WellFormed(left) /\ left \in Store
      /\ NamesOf(left.entries) \subseteq NamesOf(es)
      /\ w.store.current # None =>
            left.current # None /\ left.entries[left.current] = es[w.store.current]
      /\ w.store.current = None => left.current = None
  <2> HIDE DEF removed
  <2> QED BY <1>1, <1>3, DeleteEntriesIs DEF WellFormed
<1>5. /\ told \in [Names -> Report]
      /\ \A n \in Names : \/ told[n] = w.report[n]
                          \/ told[n] = "none" /\ ~IsCurrentEntry(w.store, n)
  <2>1. w.report \in [Names -> Report]
    BY <1>1 DEF Worlds
  <2> QED BY <1>2, <2>1 DEF Report
<1>6. ASSUME NEW i \in removed
      PROVE  LET e == [found |-> w.found[es[i].name], marks |-> es[i].marks]
             IN e \in [found: Severity, marks: SUBSET Marks] /\ Dispensable(e)
  <2>1. /\ w.found[es[i].name] = 0 /\ "labelled" \notin es[i].marks
        /\ UploadsConfigured => "uploaded" \in es[i].marks
    BY <1>1 DEF CleanIsClean, VerdictIsClean
  <2>2. es[i].marks \in SUBSET Marks /\ 0 \in Severity
    BY <1>1, SeverityAssumption DEF Severity
  <2> QED BY <2>1, <2>2 DEF Dispensable
<1>7. /\ w.pruned \cup gone \in SUBSET [found: Severity, marks: SUBSET Marks]
      /\ \A e \in gone : Dispensable(e)
  <2>1. w.pruned \in SUBSET [found: Severity, marks: SUBSET Marks]
    BY <1>1 DEF Worlds
  <2> HIDE DEF removed
  <2> QED BY <1>6, <2>1
<1>8. v = [w EXCEPT !.store = left, !.report = told, !.pruned = w.pruned \cup gone]
  BY <1>1 DEF PruneCleanRecordings, Worlds
<1> HIDE DEF left, told, gone, v
<1>9. v \in Worlds
  BY <1>1, <1>4, <1>5, <1>7, <1>8 DEF Worlds
<1>10. /\ v.store = left /\ v.report = told /\ v.pruned = w.pruned \cup gone
       /\ v.shelf = w.shelf /\ v.clock = w.clock /\ v.display = w.display
       /\ v.found = w.found /\ v.began = w.began /\ v.finished = w.finished
       /\ v.path = w.path /\ v.task = w.task /\ v.closed = w.closed
  BY <1>1, <1>8 DEF Worlds
<1>11. w.store.current # None => v.store.current # None /\ Current(v) = Current(w)
  BY <1>4, <1>10 DEF Current
<1>12. \A e \in v.pruned : e \in w.pruned \/ Dispensable(e)
  BY <1>7, <1>10
<1> QED BY <1>4, <1>5, <1>9, <1>10, <1>11, <1>12 DEF Lighter, v

\* delete_entry of a recording other than the current one.
LEMMA DeleteIs ==
    ASSUME NEW w, WorldInv(w), NEW n \in NamesOf(w.store.entries),
           ~IsCurrentEntry(w.store, n), NEW upto \in {"nothing", "report", "all"}
    PROVE  Lighter(w, Delete(w, n, upto))
<1> DEFINE left == IF upto = "all" THEN DeleteEntry(w.store, n) ELSE w.store
           told == [w.report EXCEPT ![n] = IF upto = "nothing" THEN w.report[n] ELSE "none"]
           v == Delete(w, n, upto)
<1>1. w \in Worlds /\ WellFormed(w.store) /\ n \in Names
  BY WorldFacts DEF WorldInv
<1>2. /\ WellFormed(left) /\ left \in Store
      /\ NamesOf(left.entries) \subseteq NamesOf(w.store.entries)
      /\ w.store.current # None =>
            left.current # None /\ left.entries[left.current].name = Current(w)
      /\ w.store.current = None => left.current = None
  <2>1. /\ WellFormed(DeleteEntry(w.store, n))
        /\ w.store.current = None => DeleteEntry(w.store, n).current = None
        /\ \A j \in DOMAIN DeleteEntry(w.store, n).entries : \E k \in DOMAIN w.store.entries :
                DeleteEntry(w.store, n).entries[j] = w.store.entries[k]
    BY <1>1, DeleteEntryKeeps, DeleteEntryIs
  <2>2. w.store.current # None =>
            /\ DeleteEntry(w.store, n).current # None
            /\ DeleteEntry(w.store, n).entries[DeleteEntry(w.store, n).current].name = Current(w)
    BY <1>1, DeleteEntryKeepsCurrent DEF Current
  <2>3. NamesOf(DeleteEntry(w.store, n).entries) \subseteq NamesOf(w.store.entries)
    BY <2>1 DEF NamesOf
  <2> QED BY <1>1, <2>1, <2>2, <2>3 DEF Current, WellFormed
<1>3. /\ told \in [Names -> Report]
      /\ \A m \in Names : \/ told[m] = w.report[m]
                          \/ told[m] = "none" /\ ~IsCurrentEntry(w.store, m)
  <2>1. w.report \in [Names -> Report]
    BY <1>1 DEF Worlds
  <2> QED BY <1>1, <2>1 DEF Report
<1>4. v = [w EXCEPT !.store = left, !.report = told]
  BY <1>1 DEF Delete, Worlds
<1> HIDE DEF left, told, v
<1>5. v \in Worlds
  BY <1>1, <1>2, <1>3, <1>4 DEF Worlds
<1>6. /\ v.store = left /\ v.report = told /\ v.pruned = w.pruned /\ v.closed = w.closed
      /\ v.shelf = w.shelf /\ v.clock = w.clock /\ v.display = w.display
      /\ v.found = w.found /\ v.began = w.began /\ v.finished = w.finished
      /\ v.path = w.path /\ v.task = w.task
  BY <1>1, <1>4 DEF Worlds
<1> QED BY <1>2, <1>3, <1>5, <1>6 DEF Lighter, Current, v

\* A mark by the uploader or the web page.
LEMMA MarkIs ==
    ASSUME NEW w, WorldInv(w), NEW n \in NamesOf(w.store.entries),
           NEW k \in Marks, NEW on \in BOOLEAN
    PROVE  Lighter(w, [w EXCEPT !.store = SetMark(w.store, n, k, on)])
<1> DEFINE s == SetMark(w.store, n, k, on)
           v == [w EXCEPT !.store = s]
<1>1. w \in Worlds /\ WellFormed(w.store)
      /\ (w.store.current # None => w.store.current \in DOMAIN w.store.entries)
  BY WorldFacts DEF WorldInv
<1>2. SameEntries(w.store, s)
  BY <1>1, SetMarkKeeps
<1> HIDE DEF s
<1>3. /\ WellFormed(s) /\ s \in Store /\ NamesOf(s.entries) = NamesOf(w.store.entries)
      /\ s.current = w.store.current
      /\ w.store.current # None => s.entries[s.current].name = Current(w)
  BY <1>1, <1>2 DEF SameEntries, WellFormed, Current
<1>4. v \in Worlds
  BY <1>1, <1>3 DEF Worlds
<1>5. /\ v.store = s /\ v.report = w.report /\ v.pruned = w.pruned /\ v.closed = w.closed
      /\ v.shelf = w.shelf /\ v.clock = w.clock /\ v.display = w.display
      /\ v.found = w.found /\ v.began = w.began /\ v.finished = w.finished
      /\ v.path = w.path /\ v.task = w.task
  BY <1>1 DEF Worlds
<1> HIDE DEF v
<1>6. Lighter(w, v)
  BY <1>3, <1>4, <1>5 DEF Lighter, Current
<1> QED BY <1>6 DEF v, s

-----------------------------------------------------------------------------
(***************************************************************************)
(* start                                                                   *)
(***************************************************************************)
\* A change of what the world says of its display, its last start and what the
\* task remembers of either leaves the rest of the invariant alone.
Restated(w, v) ==
    /\ v \in Worlds
    /\ v.store = w.store /\ v.path = w.path /\ v.shelf = w.shelf
    /\ v.report = w.report /\ v.clock = w.clock /\ v.finished = w.finished
    /\ v.found = w.found /\ v.began = w.began /\ v.pruned = w.pruned /\ v.closed = w.closed
    /\ v.task.state = w.task.state /\ v.task.stopped_by_user = w.task.stopped_by_user

LEMMA RestatedKeeps ==
    ASSUME NEW w, WorldInv(w), NEW v, Restated(w, v)
    PROVE  WorldInv(v) /\ (Announced(w) => Announced(v))
BY DEF Restated, WorldInv, NamesPassed, CleanIsClean, NotAgainstUser, HasEntry, Records,
       Announced

LEMMA ResetIs ==
    ASSUME NEW w, WorldInv(w)
    PROVE  Restated(w, ResetForStart(w)) /\ ResetForStart(w).task.max_type_seen = 0
<1> DEFINE k == [w.task EXCEPT !.max_type_seen = 0, !.low_space_warned = FALSE]
           v == ResetForStart(w)
<1>1. w \in Worlds /\ w.task \in Task
  BY DEF WorldInv, Worlds
<1>2. 0 \in Severity
  BY SeverityAssumption DEF Severity
<1>3. /\ k \in Task /\ k.state = w.task.state
      /\ k.stopped_by_user = w.task.stopped_by_user /\ k.max_type_seen = 0
  BY <1>1, <1>2 DEF Task
<1>4. v = [w EXCEPT !.task = k]
  BY <1>1 DEF ResetForStart, Worlds
<1> HIDE DEF k, v
<1>5. v \in Worlds /\ v.task = k
  BY <1>1, <1>3, <1>4 DEF Worlds
<1>6. /\ v.store = w.store /\ v.path = w.path /\ v.shelf = w.shelf
      /\ v.report = w.report /\ v.clock = w.clock /\ v.finished = w.finished
      /\ v.found = w.found /\ v.began = w.began /\ v.pruned = w.pruned /\ v.closed = w.closed
  BY <1>1, <1>4 DEF Worlds
<1> QED BY <1>3, <1>5, <1>6 DEF Restated, v

\* An answer a start can get in world w: a new recording has a later name.
Answer(w, e) ==
    /\ e.outcome \in {"low", "none", "entry", "ok"}
    /\ e.outcome \in {"entry", "ok"} => e.name \in Names /\ e.name > w.clock

\* The world in which start_inner calls new_entry.
LEMMA RoomMade ==
    ASSUME NEW w, WorldInv(w), NEW turns
    PROVE  LET roomy == PruneCleanRecordings(ResetForStart(w), turns)
               free == IF roomy.task.state = "Recording"
                       THEN FinishCurrentEntry(roomy, NoReason) ELSE roomy
           IN /\ WorldInv(roomy) /\ roomy.task.stopped_by_user = w.task.stopped_by_user
              /\ Announced(w) => Announced(roomy)
              /\ WorldInv(free) /\ free.task.stopped_by_user = w.task.stopped_by_user
              /\ Announced(w) => free.began \subseteq free.finished \cup {free.closed}
              /\ free.clock = w.clock /\ ~Records(free) /\ free.task.max_type_seen = 0
<1> DEFINE reset == ResetForStart(w)
           roomy == PruneCleanRecordings(reset, turns)
           ended == FinishCurrentEntry(roomy, NoReason)
           free == IF roomy.task.state = "Recording" THEN ended ELSE roomy
<1>1. /\ Restated(w, reset) /\ WorldInv(reset) /\ (Announced(w) => Announced(reset))
      /\ reset.task.max_type_seen = 0
  BY ResetIs, RestatedKeeps
<1> HIDE DEF reset
<1>2. Lighter(reset, roomy)
  BY <1>1, PruneIs
<1> HIDE DEF roomy
<1>3. WorldInv(roomy) /\ (Announced(w) => Announced(roomy))
  BY <1>1, <1>2, LighterKeeps
<1>4. /\ roomy.task.stopped_by_user = w.task.stopped_by_user
      /\ roomy.clock = w.clock /\ roomy.task.max_type_seen = 0
  BY <1>1, <1>2 DEF Restated, Lighter
<1>5. Ended(roomy, ended)
  BY <1>3, FinishIs
<1> HIDE DEF ended
<1>6. WorldInv(ended) /\ (Announced(roomy) => ended.began \subseteq ended.finished \cup {ended.closed})
  BY <1>3, <1>5, EndedKeeps
<1>7. /\ WorldInv(free) /\ free.task.stopped_by_user = w.task.stopped_by_user
      /\ Announced(w) => free.began \subseteq free.finished \cup {free.closed}
      /\ free.clock = w.clock /\ ~Records(free) /\ free.task.max_type_seen = 0
  <2>1. CASE roomy.task.state = "Recording"
    BY <1>3, <1>4, <1>5, <1>6, <2>1 DEF Ended
  <2>2. CASE roomy.task.state # "Recording"
    BY <1>3, <1>4, <2>2 DEF Announced, Records
  <2> QED BY <2>1, <2>2
<1> HIDE DEF free
<1> QED BY <1>3, <1>4, <1>7 DEF free, ended, roomy, reset

\* new_entry, once nothing is being recorded.
Opened(w, n, r) ==
    [w EXCEPT !.store = PushEntry(CloseCurrentEntry(w.store), n),
              !.report = [w.report EXCEPT ![n] = r],
              !.clock = n]

LEMMA OpenedIs ==
    ASSUME NEW w, WorldInv(w), ~Records(w), NEW n \in Names, n > w.clock,
           NEW r \in {"empty", "clean"}
    PROVE  LET v == Opened(w, n, r)
           IN /\ v \in Worlds /\ WellFormed(v.store)
              /\ NamesPassed(v) /\ CleanIsClean(v)
              /\ v.store.current # None /\ Current(v) = n /\ IsCurrentEntry(v.store, n)
              /\ v.report[n] = r
              /\ v.pruned = w.pruned /\ v.closed = w.closed /\ v.began = w.began /\ v.finished = w.finished
              /\ v.task = w.task
<1> DEFINE c == CloseCurrentEntry(w.store)
           s == PushEntry(c, n)
           told == [w.report EXCEPT ![n] = r]
           v == [w EXCEPT !.store = s, !.report = told, !.clock = n]
<1>0. Opened(w, n, r) = v
  BY DEF Opened
<1>1. /\ w \in Worlds /\ WellFormed(w.store) /\ w.clock \in Nat /\ w.closed \in Nat
      /\ Names \subseteq Nat
  <2>1. w \in Worlds /\ WellFormed(w.store)
    BY DEF WorldInv
  <2> QED BY <2>1, WorldFacts, NamesAssumption
<1>2. WellFormed(c) /\ NamesOf(c.entries) = NamesOf(w.store.entries)
  BY <1>1, CloseCurrentEntryKeeps
<1> HIDE DEF c
<1>3. /\ WellFormed(s) /\ s \in Store /\ s.current # None
      /\ s.entries[s.current].name = n
      /\ NamesOf(s.entries) = NamesOf(w.store.entries) \cup {n}
  <2>1. /\ WellFormed(s) /\ s.current # None
        /\ s.entries[s.current].name = n
        /\ NamesOf(s.entries) = NamesOf(w.store.entries) \cup {n}
    BY <1>2, PushEntryAdds
  <2> QED BY <2>1 DEF WellFormed
<1> HIDE DEF s
<1>4. told \in [Names -> Report] /\ told[n] = r /\ \A m \in Names : m # n => told[m] = w.report[m]
  <2>1. w.report \in [Names -> Report]
    BY <1>1 DEF Worlds
  <2> QED BY <2>1 DEF Report
<1> HIDE DEF told
<1>5. v \in Worlds
  BY <1>1, <1>3, <1>4 DEF Worlds
<1>6. /\ v.store = s /\ v.report = told /\ v.clock = n
      /\ v.shelf = w.shelf /\ v.found = w.found /\ v.began = w.began
      /\ v.finished = w.finished /\ v.pruned = w.pruned /\ v.closed = w.closed /\ v.task = w.task
  BY <1>1 DEF Worlds
<1> HIDE DEF v
<1>7. NamesPassed(v)
  <2>1. NamesPassed(w)
    BY DEF WorldInv
  <2>2. \A m \in Nat : m <= w.clock => m <= n
    BY <1>1
  <2>3. \A m \in NamesOf(w.store.entries) : m <= n
    <3>1. NamesOf(w.store.entries) \subseteq Nat
      BY <1>1, WorldFacts
    <3> QED BY <2>1, <2>2, <3>1 DEF NamesPassed
  <2>4. \A p \in Paths : \A m \in NamesOf(w.shelf[p]) : m <= n
    <3>1. \A p \in Paths : NamesOf(w.shelf[p]) \subseteq Nat
      <4> SUFFICES ASSUME NEW p \in Paths PROVE NamesOf(w.shelf[p]) \subseteq Nat
        OBVIOUS
      <4>1. w.shelf[p] \in Seq(ManifestEntry)
        BY <1>1 DEF Worlds
      <4>2. \A i \in DOMAIN w.shelf[p] : w.shelf[p][i] \in ManifestEntry
        BY <4>1
      <4> QED BY <1>1, <4>2 DEF NamesOf, ManifestEntry
    <3> QED BY <2>1, <2>2, <3>1 DEF NamesPassed
  <2>5. \A m \in Names : m > n => w.found[m] = 0
    <3>1. \A m \in Names : m > n => m > w.clock
      BY <1>1
    <3>2. \A m \in Names : m > w.clock => w.found[m] = 0
      BY <2>1 DEF NamesPassed
    <3> QED BY <3>1, <3>2
  <2>6. n <= n /\ w.closed <= n
    BY <1>1, <2>1, <2>2 DEF NamesPassed
  <2> QED BY <1>3, <1>6, <2>3, <2>4, <2>5, <2>6 DEF NamesPassed
<1>8. CleanIsClean(v)
  <2>1. w.found[n] = 0
    BY DEF WorldInv, NamesPassed
  <2> QED BY <1>4, <1>6, <2>1 DEF WorldInv, CleanIsClean
<1>9. /\ v.store.current # None /\ Current(v) = n /\ IsCurrentEntry(v.store, n)
  BY <1>3, <1>5, <1>6, WorldFacts DEF Current
<1> QED BY <1>0, <1>3, <1>4, <1>5, <1>6, <1>7, <1>8, <1>9

\* start, whatever fails on the way: it ends recording, and shown as such, or
\* it ends shown as paused.
LEMMA StartIs ==
    ASSUME NEW w, WorldInv(w), ~w.task.stopped_by_user, NEW e, Answer(w, e)
    PROVE  /\ WorldInv(Start(w, e)) /\ DisplayOK(Start(w, e))
           /\ Announced(w) => Announced(Start(w, e))
           /\ Start(w, e).ok => Start(w, e).display = Recording /\ Records(Start(w, e))
<1> DEFINE roomy == PruneCleanRecordings(ResetForStart(w), e.prune)
           free == IF roomy.task.state = "Recording"
                   THEN FinishCurrentEntry(roomy, NoReason) ELSE roomy
           v == Start(w, e)
<1>a. /\ WorldInv(roomy) /\ ~roomy.task.stopped_by_user
      /\ Announced(w) => Announced(roomy)
      /\ WorldInv(free) /\ ~free.task.stopped_by_user
      /\ Announced(w) => free.began \subseteq free.finished \cup {free.closed}
      /\ free.clock = w.clock /\ ~Records(free) /\ free.task.max_type_seen = 0
  BY RoomMade
<1>b. Paused \in Displays /\ Recording \in Displays
  BY SeverityAssumption DEF Paused, Recording, Shows, Displays, Severity
<1>c. free \in Worlds /\ free.report \in [Names -> Report] /\ free.task \in Task
      /\ free.began \in SUBSET Names
  BY <1>a DEF WorldInv, Worlds
<1>1. CASE e.outcome = "low"
  <2>1. StartInner(w, e) = [roomy EXCEPT !.ok = FALSE]
    BY <1>1 DEF StartInner
  <2> HIDE DEF roomy
  <2>2. roomy \in Worlds
    BY <1>a DEF WorldInv
  <2>3. ~[roomy EXCEPT !.ok = FALSE].ok
    BY <2>2 DEF Worlds
  <2>4. v = [[roomy EXCEPT !.ok = FALSE] EXCEPT !.display = Paused]
    BY <2>1, <2>3 DEF Start
  <2> HIDE DEF v
  <2>5. Restated(roomy, v) /\ v.display = Paused /\ ~v.ok
    BY <1>b, <2>2, <2>4 DEF Restated, Worlds
  <2>6. WorldInv(v) /\ (Announced(w) => Announced(v))
    BY <1>a, <2>5, RestatedKeeps
  <2>7. DisplayOK(v)
    BY <2>5 DEF DisplayOK, ShownIsReal, ShowsWorst, Paused, Shows
  <2> QED BY <2>5, <2>6, <2>7 DEF v
<1>2. CASE e.outcome = "none"
  <2> DEFINE c == CloseCurrentEntry(free.store)
  <2>1. StartInner(w, e) = [free EXCEPT !.store = c, !.ok = FALSE]
    BY <1>2, <1>c DEF StartInner, Worlds
  <2> HIDE DEF free
  <2>2. /\ WellFormed(c) /\ c \in Store /\ c.entries = free.store.entries
    <3>1. WellFormed(c) /\ c.entries = free.store.entries
      BY <1>a, CloseCurrentEntryKeeps DEF WorldInv
    <3> QED BY <3>1 DEF WellFormed
  <2> HIDE DEF c
  <2>3. ~[free EXCEPT !.store = c, !.ok = FALSE].ok
    BY <1>c DEF Worlds
  <2>4. v = [[free EXCEPT !.store = c, !.ok = FALSE] EXCEPT !.display = Paused]
    BY <2>1, <2>3 DEF Start
  <2> HIDE DEF v
  <2>5. v \in Worlds /\ v.store = c /\ v.display = Paused /\ ~v.ok
    BY <1>b, <1>c, <2>2, <2>4 DEF Worlds
  <2>6. /\ v.path = free.path /\ v.shelf = free.shelf /\ v.report = free.report
        /\ v.clock = free.clock /\ v.finished = free.finished /\ v.found = free.found
        /\ v.began = free.began /\ v.pruned = free.pruned /\ v.closed = free.closed /\ v.task = free.task
    BY <1>c, <2>4 DEF Worlds
  <2>7. WorldInv(v) /\ (Announced(w) => Announced(v))
    BY <1>a, <2>2, <2>5, <2>6
    DEF WorldInv, NamesPassed, CleanIsClean, NotAgainstUser, HasEntry, Records, Announced
  <2>8. DisplayOK(v)
    BY <2>5 DEF DisplayOK, ShownIsReal, ShowsWorst, Paused, Shows
  <2> QED BY <2>5, <2>7, <2>8 DEF v
<1>3. CASE e.outcome = "entry"
  <2> DEFINE o == Opened(free, e.name, "empty")
  <2>0. e.name \in Names /\ e.name > free.clock
    BY <1>3, <1>a DEF Answer
  <2>1. StartInner(w, e) = [o EXCEPT !.ok = FALSE]
    BY <1>3, <1>c DEF StartInner, Worlds, Opened
  <2> HIDE DEF free
  <2>2. /\ o \in Worlds /\ WellFormed(o.store) /\ NamesPassed(o) /\ CleanIsClean(o)
        /\ o.pruned = free.pruned /\ o.closed = free.closed /\ o.began = free.began /\ o.finished = free.finished
        /\ o.task = free.task
    BY <1>a, <2>0, OpenedIs
  <2> HIDE DEF o
  <2>3. ~[o EXCEPT !.ok = FALSE].ok
    BY <2>2 DEF Worlds
  <2>4. v = [[o EXCEPT !.ok = FALSE] EXCEPT !.display = Paused]
    BY <2>1, <2>3 DEF Start
  <2> HIDE DEF v
  <2>5. Restated(o, v) /\ v.display = Paused /\ ~v.ok
    BY <1>b, <2>2, <2>4 DEF Restated, Worlds
  <2>6. WorldInv(o) /\ (Announced(w) => Announced(o))
    BY <1>a, <2>2 DEF WorldInv, NotAgainstUser, HasEntry, Records, Announced
  <2>7. WorldInv(v) /\ (Announced(w) => Announced(v))
    BY <2>5, <2>6, RestatedKeeps
  <2>8. DisplayOK(v)
    BY <2>5 DEF DisplayOK, ShownIsReal, ShowsWorst, Paused, Shows
  <2> QED BY <2>5, <2>7, <2>8 DEF v
<1>4. CASE e.outcome = "ok"
  <2> DEFINE o == Opened(free, e.name, "clean")
             q == Opened(free, e.name, "empty")
             k == [free.task EXCEPT !.state = "Recording"]
             b == free.began \cup {e.name}
             told == [free.report EXCEPT ![e.name] = "clean"]
  <2>0. e.name \in Names /\ e.name > free.clock
    BY <1>4, <1>a DEF Answer
  <2>1. StartInner(w, e) = [q EXCEPT !.report[e.name] = "clean",
                                     !.began = @ \cup {e.name},
                                     !.task.state = "Recording",
                                     !.display = Recording,
                                     !.ok = TRUE]
    BY <1>4, <1>c DEF StartInner, Worlds, Opened
  <2> HIDE DEF free, o, q
  <2>2. /\ o \in Worlds /\ WellFormed(o.store) /\ NamesPassed(o) /\ CleanIsClean(o)
        /\ o.store.current # None /\ Current(o) = e.name /\ IsCurrentEntry(o.store, e.name)
        /\ o.report[e.name] = "clean"
        /\ o.pruned = free.pruned /\ o.closed = free.closed /\ o.began = free.began /\ o.finished = free.finished
        /\ o.task = free.task
    BY <1>a, <2>0, OpenedIs DEF o
  <2>3. q \in Worlds /\ q.began = free.began /\ q.task = free.task
    BY <1>a, <2>0, OpenedIs DEF q
  <2>4. StartInner(w, e) = [o EXCEPT !.began = b, !.task = k, !.display = Recording, !.ok = TRUE]
    <3>1. q.report = [free.report EXCEPT ![e.name] = "empty"]
      BY <1>c DEF q, Opened, Worlds
    <3>2. [q.report EXCEPT ![e.name] = "clean"] = told
      BY <1>c, <3>1
    <3> HIDE DEF told
    <3>3. o = [q EXCEPT !.report = told]
      BY <1>c DEF o, q, Opened, Worlds, told
    <3>4. StartInner(w, e) = [q EXCEPT !.report = told, !.began = b, !.task = k,
                                       !.display = Recording, !.ok = TRUE]
      BY <2>1, <2>3, <3>2 DEF Worlds
    <3> HIDE DEF b, k
    <3> QED BY <2>3, <3>3, <3>4 DEF Worlds
  <2>5. [o EXCEPT !.began = b, !.task = k, !.display = Recording, !.ok = TRUE].ok
    BY <2>2 DEF Worlds
  <2>6. v = [o EXCEPT !.began = b, !.task = k, !.display = Recording, !.ok = TRUE]
    BY <2>4, <2>5 DEF Start
  <2>7. /\ k \in Task /\ k.state = "Recording" /\ ~k.stopped_by_user
    BY <1>a, <1>c DEF Task
  <2>8. b \in SUBSET Names
    BY <1>c, <2>0
  <2> HIDE DEF k, b, v
  <2>9. v \in Worlds
    BY <1>b, <2>2, <2>6, <2>7, <2>8 DEF Worlds
  <2>10. /\ v.began = b /\ v.task = k /\ v.display = Recording /\ v.ok
         /\ v.store = o.store /\ v.path = o.path /\ v.shelf = o.shelf
         /\ v.report = o.report /\ v.clock = o.clock /\ v.finished = o.finished
         /\ v.found = o.found /\ v.pruned = o.pruned /\ v.closed = o.closed
    BY <2>2, <2>6 DEF Worlds
  <2>11. Records(v)
    BY <2>7, <2>10 DEF Records
  <2>12. WorldInv(v)
    <3>1. NamesPassed(v) /\ CleanIsClean(v)
      BY <2>2, <2>10 DEF NamesPassed, CleanIsClean
    <3>2. NotAgainstUser(v)
      BY <2>7, <2>10 DEF NotAgainstUser
    <3>3. HasEntry(v)
      BY <2>2, <2>10 DEF HasEntry, Current
    <3>4. \A x \in v.pruned : Dispensable(x)
      BY <1>a, <2>2, <2>10 DEF WorldInv
    <3> QED BY <2>2, <2>9, <2>10, <3>1, <3>2, <3>3, <3>4 DEF WorldInv
  <2>13. Announced(w) => Announced(v)
    BY <1>a, <2>2, <2>10, <2>11 DEF Announced, b
  <2>14. k.max_type_seen = 0
    BY <1>a, <1>c DEF k, Task
  <2>15. DisplayOK(v)
    BY <2>10, <2>11, <2>14 DEF DisplayOK, ShownIsReal, ShowsWorst, Recording, Shows
  <2> QED BY <2>10, <2>11, <2>12, <2>13, <2>15 DEF v
<1> QED BY <1>1, <1>2, <1>3, <1>4 DEF Answer

-----------------------------------------------------------------------------
(***************************************************************************)
(* The other handlers, each from a world in which the task is between two  *)
(* messages to another.                                                    *)
(***************************************************************************)
Sound(w) == WorldInv(w) /\ Announced(w) /\ DisplayOK(w)

\* A recording that goes on in the next file shows the worst it has found, and
\* one that cannot go on stops.
LEMMA RotateIs ==
    ASSUME NEW w, Sound(w), Records(w), NEW e, Answer(w, e)
    PROVE  Sound(Rotate(w, e))
<1> DEFINE f == FinishCurrentEntry(w, Automatic)
           next == Start(f, e)
           carried == w.task.max_type_seen
           shown == IF carried > 0 THEN WarningDetected(carried) ELSE next.display
           k == [next.task EXCEPT !.max_type_seen = carried]
           v == Rotate(w, e)
<1>1. WorldInv(w) /\ Announced(w) /\ ~w.task.stopped_by_user /\ w \in Worlds
  BY DEF Sound, WorldInv, NotAgainstUser
<1>2. Ended(w, f)
  BY <1>1, FinishIs, AutomaticAssumption
<1> HIDE DEF f
<1>3. /\ WorldInv(f) /\ Announced(f) /\ ~f.task.stopped_by_user /\ f.clock = w.clock
  BY <1>1, <1>2, EndedKeeps DEF Ended
<1>4. Answer(f, e)
  BY <1>3 DEF Answer
<1>5. /\ WorldInv(next) /\ DisplayOK(next) /\ Announced(next)
      /\ next.ok => next.display = Recording /\ Records(next)
  BY <1>3, <1>4, StartIs
<1>6. CASE ~next.ok
  <2>1. v = Stop(next, Automatic)
    BY <1>6 DEF Rotate, f
  <2> HIDE DEF next, v
  <2>2. Sound(v)
    BY <1>5, <2>1, StopIs, AutomaticAssumption DEF Sound
  <2> QED BY <2>2 DEF v
<1>7. CASE next.ok
  <2>1. v = [next EXCEPT !.task.max_type_seen = carried, !.display = shown]
    BY <1>7 DEF Rotate, f
  <2> HIDE DEF next
  <2>2. next \in Worlds /\ next.task \in Task /\ next.display = Recording /\ Records(next)
    BY <1>5, <1>7 DEF WorldInv, Worlds
  <2>3. carried \in Severity /\ carried \in Nat
    <3>1. carried \in Severity
      BY <1>1 DEF Worlds, Task
    <3> QED BY <3>1, SeverityAssumption DEF Severity
  <2>4. k \in Task /\ k.max_type_seen = carried /\ k.state = next.task.state
        /\ k.stopped_by_user = next.task.stopped_by_user
    BY <2>2, <2>3 DEF Task
  <2>5. shown \in Displays /\ shown.level = carried
    BY <2>2, <2>3, SeverityAssumption DEF WarningDetected, Recording, Shows, Displays, Severity
  <2>6. v = [next EXCEPT !.task = k, !.display = shown]
    BY <2>1, <2>2 DEF Worlds
  <2> HIDE DEF k, shown, v, carried
  <2>7. v \in Worlds /\ v.task = k /\ v.display = shown
    BY <2>2, <2>4, <2>5, <2>6 DEF Worlds
  <2>8. /\ v.store = next.store /\ v.path = next.path /\ v.shelf = next.shelf
        /\ v.report = next.report /\ v.clock = next.clock /\ v.finished = next.finished
        /\ v.found = next.found /\ v.began = next.began /\ v.pruned = next.pruned /\ v.closed = next.closed
    BY <2>2, <2>6 DEF Worlds
  <2>9. WorldInv(v) /\ Announced(v)
    <3>1. Restated(next, v)
      BY <2>4, <2>7, <2>8 DEF Restated
    <3> QED BY <1>5, <3>1, RestatedKeeps
  <2>10. DisplayOK(v)
    BY <2>2, <2>4, <2>5, <2>7 DEF DisplayOK, ShownIsReal, ShowsWorst, Records
  <2> QED BY <2>9, <2>10 DEF Sound, v
<1> QED BY <1>6, <1>7

\* The disk check: at worst it stops the recording.
LEMMA CheckSpaceIs ==
    ASSUME NEW w, Sound(w), NEW e, e.check \in {"none", "warning", "critical"}
    PROVE  Sound(CheckSpace(w, e)) /\ CheckSpace(w, e).clock = w.clock
<1> DEFINE roomy == PruneCleanRecordings(w, e.prune)
           warned == (Freed(w, roomy) = 0)
           k == [roomy.task EXCEPT !.low_space_warned = warned]
           v == CheckSpace(w, e)
<1>1. CASE e.check = "none"
  BY <1>1 DEF CheckSpace
<1>2. CASE e.check = "critical"
  <2>1. v = Stop(w, Automatic)
    BY <1>2 DEF CheckSpace
  <2> QED BY <2>1, StopIs, AutomaticAssumption DEF Sound, Ended
<1>3. CASE e.check = "warning"
  <2>1. v = [roomy EXCEPT !.task.low_space_warned = warned]
    BY <1>3 DEF CheckSpace
  <2>2. Lighter(w, roomy)
    BY PruneIs DEF Sound
  <2> HIDE DEF roomy
  <2>3. warned \in BOOLEAN
    OBVIOUS
  <2> HIDE DEF warned
  <2>4. roomy \in Worlds /\ roomy.task \in Task
    BY <2>2 DEF Lighter, Worlds
  <2>5. k \in Task /\ k.state = roomy.task.state
        /\ k.stopped_by_user = roomy.task.stopped_by_user
        /\ k.max_type_seen = roomy.task.max_type_seen
    BY <2>3, <2>4 DEF Task
  <2>6. v = [roomy EXCEPT !.task = k]
    BY <2>1, <2>4 DEF Worlds
  <2> HIDE DEF k, v
  <2>7. v \in Worlds /\ v.task = k
    BY <2>4, <2>5, <2>6 DEF Worlds
  <2>8. /\ v.store = roomy.store /\ v.path = roomy.path /\ v.shelf = roomy.shelf
        /\ v.report = roomy.report /\ v.clock = roomy.clock /\ v.finished = roomy.finished
        /\ v.found = roomy.found /\ v.began = roomy.began /\ v.pruned = roomy.pruned /\ v.closed = roomy.closed
        /\ v.display = roomy.display
    BY <2>4, <2>6 DEF Worlds
  <2>9. Lighter(w, v)
    BY <2>2, <2>5, <2>7, <2>8 DEF Lighter, Current
  <2>10. Sound(v) /\ v.clock = w.clock
    BY <2>9, LighterKeeps DEF Sound, DisplayOK, Lighter
  <2> QED BY <2>10 DEF v
<1> QED BY <1>1, <1>2, <1>3

\* The detectors' verdict reaches the report, the task and the display.
LEMMA AnalyseIs ==
    ASSUME NEW w, Sound(w), Records(w), NEW m \in Severity
    PROVE  /\ Sound(Analyse(w, m)) /\ Records(Analyse(w, m))
           /\ Analyse(w, m).clock = w.clock
<1> DEFINE n == Written(w)
           worst == IF m > w.found[n] THEN m ELSE w.found[n]
           row == IF m > 0 /\ w.report[n] # "none" THEN "warning" ELSE w.report[n]
           finds == [w.found EXCEPT ![n] = worst]
           told == [w.report EXCEPT ![n] = row]
           seen == [w EXCEPT !.found = finds, !.report = told]
           more == m > w.task.max_type_seen
           k == IF more THEN [w.task EXCEPT !.max_type_seen = m] ELSE w.task
           shown == IF more THEN WarningDetected(m) ELSE w.display
           v == Analyse(w, m)
<1>1. /\ w \in Worlds /\ WellFormed(w.store) /\ NamesPassed(w) /\ CleanIsClean(w)
      /\ NotAgainstUser(w) /\ HasEntry(w) /\ Announced(w) /\ DisplayOK(w)
  BY DEF Sound, WorldInv
<1>2. /\ w.found \in [Names -> Severity] /\ w.report \in [Names -> Report]
      /\ w.task \in Task /\ w.display \in Displays
  BY <1>1 DEF Worlds
<1>3. /\ w.store.current # None => n = Current(w) /\ w.report[n] \in {"clean", "warning"}
      /\ w.store.current = None => n = w.closed /\ w.closed # None
  BY <1>1 DEF HasEntry, Current, Written
<1>4. /\ n \in Names /\ n \in Nat /\ w.clock \in Nat /\ n <= w.clock
  <2>1. CASE w.store.current # None
    <3>1. n \in NamesOf(w.store.entries) /\ n \in Names /\ w.clock \in Nat
      BY <1>1, <1>3, <2>1, WorldFacts
    <3> QED BY <1>1, <3>1, NamesAssumption DEF NamesPassed
  <2>2. CASE w.store.current = None
    <3>1. w.closed \in Names /\ w.clock \in Nat /\ w.closed \in Nat
      BY <1>1, <1>3, <2>2, WorldFacts DEF Worlds
    <3> QED BY <1>1, <1>3, <2>2, <3>1 DEF NamesPassed
  <2> QED BY <2>1, <2>2
<1> HIDE DEF n
<1>5. m \in Nat /\ w.task.max_type_seen \in Nat /\ w.found[n] \in Nat
  BY <1>2, <1>4, SeverityAssumption DEF Task, Severity
<1>6. v = [w EXCEPT !.found = finds, !.report = told, !.task = k, !.display = shown]
  <2>1. [w EXCEPT !.found[n] = worst, !.report[n] = row] = seen
    BY <1>1 DEF Worlds
  <2>2. v = IF more THEN [seen EXCEPT !.task.max_type_seen = m,
                                      !.display = WarningDetected(m)]
            ELSE seen
    BY <2>1 DEF Analyse, n
  <2>3. seen.task = w.task /\ seen.display = w.display /\ DOMAIN seen = DOMAIN w
    BY <1>1 DEF Worlds
  <2> HIDE DEF finds, told, v
  <2>4. CASE more
    BY <1>1, <2>2, <2>3, <2>4 DEF Worlds
  <2>5. CASE ~more
    BY <1>1, <2>2, <2>3, <2>5 DEF Worlds
  <2> QED BY <2>4, <2>5
<1>7. /\ finds \in [Names -> Severity] /\ told \in [Names -> Report]
      /\ w.store.current # None => told[n] \in {"clean", "warning"}
      /\ told[n] = "clean" => finds[n] = 0
      /\ \A x \in Names : x # n => finds[x] = w.found[x] /\ told[x] = w.report[x]
  <2>1. w.report[n] = "clean" => w.found[n] = 0
    BY <1>1, <1>4 DEF CleanIsClean
  <2>2. /\ worst \in Severity /\ row \in Report
        /\ w.store.current # None => row \in {"clean", "warning"}
    BY <1>2, <1>3, <1>4, <1>5 DEF Report
  <2>3. row = "clean" => worst = 0
    BY <1>5, <2>1
  <2> HIDE DEF worst, row
  <2> QED BY <1>2, <1>4, <2>2, <2>3
<1>8. /\ k \in Task /\ k.state = w.task.state /\ k.stopped_by_user = w.task.stopped_by_user
      /\ shown \in Displays
  BY <1>2, <1>5 DEF Task, WarningDetected, Shows, Displays
<1>9. shown.kind # "Paused" => shown.level = k.max_type_seen
  BY <1>1, <1>2, <1>5 DEF DisplayOK, ShowsWorst, WarningDetected, Shows, Task
<1> HIDE DEF finds, told, k, shown, v
<1>10. v \in Worlds /\ v.found = finds /\ v.report = told /\ v.task = k /\ v.display = shown
  BY <1>1, <1>6, <1>7, <1>8 DEF Worlds
<1>11. /\ v.store = w.store /\ v.path = w.path /\ v.shelf = w.shelf
       /\ v.clock = w.clock /\ v.finished = w.finished
       /\ v.began = w.began /\ v.pruned = w.pruned /\ v.closed = w.closed
  BY <1>1, <1>6 DEF Worlds
<1>12. NamesPassed(v) /\ CleanIsClean(v)
  <2>1. \A x \in Names : x > w.clock => x # n
    BY <1>4
  <2> QED BY <1>1, <1>7, <1>10, <1>11, <2>1 DEF NamesPassed, CleanIsClean
<1>13. Records(v) /\ NotAgainstUser(v) /\ HasEntry(v) /\ Announced(v)
  BY <1>1, <1>3, <1>7, <1>8, <1>10, <1>11
  DEF Records, NotAgainstUser, HasEntry, Announced, Current
<1>14. DisplayOK(v)
  BY <1>9, <1>10, <1>13 DEF DisplayOK, ShownIsReal, ShowsWorst
<1>15. \A x \in v.pruned : Dispensable(x)
  BY <1>11 DEF Sound, WorldInv
<1>16. Sound(v)
  BY <1>1, <1>10, <1>11, <1>12, <1>13, <1>14, <1>15 DEF Sound, WorldInv
<1> QED BY <1>11, <1>13, <1>16 DEF v

\* A container, up to the rotation that may follow it.
LEMMA ProcessContainerIs ==
    ASSUME NEW w, Sound(w), NEW e, e.max_type \in Severity,
           e.space.check \in {"none", "warning", "critical"},
           e.rest.end \in {"unwritten", "written", "limit"},
           e.rest.end = "limit" => Answer(w, e.rest.start)
    PROVE  Sound(ProcessContainer(w, e))
<1> DEFINE roomy == CheckSpace(w, e.space)
           done == Analyse(roomy, e.max_type)
           v == ProcessContainer(w, e)
<1>1. Sound(roomy) /\ roomy.clock = w.clock
  BY CheckSpaceIs
<1>2. CASE w.task.state # "Recording"
  BY <1>2 DEF ProcessContainer
<1>3. CASE w.task.state = "Recording" /\ roomy.task.state # "Recording"
  BY <1>1, <1>3 DEF ProcessContainer
<1>4. CASE w.task.state = "Recording" /\ roomy.task.state = "Recording"
  <2>1. v = CASE e.rest.end = "unwritten" -> Stop(roomy, Automatic)
              [] e.rest.end = "written" -> done
              [] e.rest.end = "limit" -> Rotate(done, e.rest.start)
    BY <1>4 DEF ProcessContainer
  <2> HIDE DEF roomy
  <2>2. Records(roomy)
    BY <1>4 DEF Records
  <2>3. Sound(done) /\ Records(done) /\ done.clock = w.clock
    BY <1>1, <2>2, AnalyseIs
  <2> HIDE DEF done, v
  <2>4. CASE e.rest.end = "unwritten"
    <3>1. v = Stop(roomy, Automatic)
      BY <2>1, <2>4
    <3>2. Sound(v)
      BY <1>1, <3>1, StopIs, AutomaticAssumption DEF Sound
    <3> QED BY <3>2 DEF v
  <2>5. CASE e.rest.end = "written"
    BY <2>1, <2>3, <2>5 DEF v
  <2>6. CASE e.rest.end = "limit"
    <3>1. Answer(done, e.rest.start)
      BY <2>3, <2>6 DEF Answer
    <3>2. v = Rotate(done, e.rest.start)
      BY <2>1, <2>6
    <3>3. Sound(v)
      BY <2>3, <3>1, <3>2, RotateIs
    <3> QED BY <3>3 DEF v
  <2> QED BY <2>4, <2>5, <2>6
<1> QED BY <1>2, <1>3, <1>4

\* The world after another store was opened and the old one put away.
Moved(w, p, entries) ==
    [w EXCEPT !.shelf = [w.shelf EXCEPT ![w.path] = w.store.entries, ![p] = <<>>],
              !.store = [entries |-> entries, current |-> None],
              !.path = p]

LEMMA MovedIs ==
    ASSUME NEW w, WorldInv(w), Announced(w), ~Records(w), NEW p \in Paths, p # w.path
    PROVE  LET v == Moved(w, p, w.shelf[p])
           IN /\ WorldInv(v) /\ Announced(v) /\ ~Records(v)
              /\ v.task = w.task /\ v.display = w.display /\ v.clock = w.clock
<1> DEFINE h == [w.shelf EXCEPT ![w.path] = w.store.entries, ![p] = <<>>]
           s == [entries |-> w.shelf[p], current |-> None]
           v == [w EXCEPT !.shelf = h, !.store = s, !.path = p]
<1>0. Moved(w, p, w.shelf[p]) = v
  BY DEF Moved
<1>1. /\ w \in Worlds /\ w.shelf \in [Paths -> Seq(ManifestEntry)] /\ w.path \in Paths
      /\ w.store.entries \in Seq(ManifestEntry)
      /\ NamesPassed(w) /\ CleanIsClean(w) /\ \A e \in w.pruned : Dispensable(e)
  BY WorldFacts DEF WorldInv, Worlds
<1>2. /\ h \in [Paths -> Seq(ManifestEntry)] /\ h[p] = <<>> /\ h[w.path] = w.store.entries
      /\ \A q \in Paths : q # p /\ q # w.path => h[q] = w.shelf[q]
  <2> DEFINE g == [w.shelf EXCEPT ![w.path] = w.store.entries]
  <2>1. g \in [Paths -> Seq(ManifestEntry)] /\ g[w.path] = w.store.entries
        /\ \A q \in Paths : q # w.path => g[q] = w.shelf[q]
    BY <1>1
  <2>2. h = [g EXCEPT ![p] = <<>>] /\ <<>> \in Seq(ManifestEntry)
    OBVIOUS
  <2> HIDE DEF g, h
  <2> QED BY <1>1, <2>1, <2>2
<1>3. s \in Store /\ WellFormed(s) /\ s.entries = w.shelf[p] /\ s.current = None
  BY <1>1 DEF Store, WellFormed, None
<1> HIDE DEF h, s
<1>4. v \in Worlds /\ v.shelf = h /\ v.store = s /\ v.path = p
  BY <1>1, <1>2, <1>3 DEF Worlds
<1>5. /\ v.report = w.report /\ v.clock = w.clock /\ v.finished = w.finished
      /\ v.found = w.found /\ v.began = w.began /\ v.pruned = w.pruned /\ v.closed = w.closed
      /\ v.task = w.task /\ v.display = w.display
  BY <1>1 DEF Worlds
<1> HIDE DEF v
<1>6. NamesPassed(v)
  <2>1. NamesOf(<<>>) = {}
    BY DEF NamesOf
  <2>2. \A q \in Paths : \A n \in NamesOf(h[q]) : n <= w.clock
    BY <1>1, <1>2, <2>1 DEF NamesPassed
  <2> QED BY <1>1, <1>3, <1>4, <1>5, <2>2 DEF NamesPassed
<1>7. CleanIsClean(v) /\ ~Records(v) /\ NotAgainstUser(v) /\ HasEntry(v)
  BY <1>1, <1>5 DEF CleanIsClean, Records, NotAgainstUser, HasEntry
<1>8. Announced(v)
  BY <1>5 DEF Announced
<1>9. WorldInv(v)
  BY <1>1, <1>3, <1>4, <1>5, <1>6, <1>7 DEF WorldInv
<1> QED BY <1>0, <1>5, <1>7, <1>8, <1>9

\* A switch resumes what was recording and nothing a user stopped.
LEMMA SwitchStoreIs ==
    ASSUME NEW w, Sound(w), NEW p \in Paths, NEW e, Answer(w, e), NEW opens \in BOOLEAN
    PROVE  Sound(SwitchStore(w, p, e, opens))
<1> DEFINE was == w.task.state = "Recording"
           old == IF was THEN FinishCurrentEntry(w, Automatic) ELSE w
           moved == Moved(old, p, w.shelf[p])
           resume == was \/ ~w.task.stopped_by_user
           v == SwitchStore(w, p, e, opens)
<1>1. WorldInv(w) /\ Announced(w) /\ DisplayOK(w) /\ w \in Worlds
  BY DEF Sound, WorldInv
<1>2. /\ WorldInv(old) /\ Announced(old) /\ ~Records(old)
      /\ old.shelf = w.shelf /\ old.path = w.path /\ old.clock = w.clock
      /\ old.task.stopped_by_user = w.task.stopped_by_user
      /\ resume => ~old.task.stopped_by_user
  <2>1. CASE was
    <3>1. Ended(w, FinishCurrentEntry(w, Automatic))
      BY <1>1, FinishIs, AutomaticAssumption
    <3>2. ~w.task.stopped_by_user
      BY <1>1, <2>1 DEF WorldInv, NotAgainstUser, Records
    <3> QED BY <1>1, <2>1, <3>1, <3>2, EndedKeeps DEF Ended
  <2>2. CASE ~was
    BY <1>1, <2>2 DEF Records
  <2> QED BY <2>1, <2>2
<1>3. /\ v = IF p = w.path THEN IF resume THEN Start(old, e) ELSE w
             ELSE IF ~opens THEN IF was THEN Start(old, e) ELSE old
             ELSE IF resume THEN Start(moved, e) ELSE moved
  <2>1. p # w.path =>
        moved = [old EXCEPT
                    !.shelf = [@ EXCEPT ![w.path] = old.store.entries, ![p] = <<>>],
                    !.store = [entries |-> w.shelf[p], current |-> None],
                    !.path = p]
    <3> HIDE DEF old
    <3> QED BY <1>2 DEF Moved, WorldInv, Worlds
  <2> HIDE DEF moved
  <2> QED BY <2>1 DEF SwitchStore
<1>4. ~was => old = w
  OBVIOUS
<1> HIDE DEF old
<1>5. p # w.path =>
        /\ WorldInv(moved) /\ Announced(moved) /\ ~Records(moved)
        /\ moved.task = old.task /\ moved.display = old.display /\ moved.clock = w.clock
  BY <1>2, MovedIs
<1> HIDE DEF moved
<1>6. resume => Sound(Start(old, e))
  <2>1. Answer(old, e)
    BY <1>2 DEF Answer
  <2> QED BY <1>2, <2>1, StartIs DEF Sound
<1>7. p # w.path /\ resume => Sound(Start(moved, e))
  <2> SUFFICES ASSUME p # w.path, resume PROVE Sound(Start(moved, e))
    OBVIOUS
  <2>1. Answer(moved, e) /\ ~moved.task.stopped_by_user
    BY <1>2, <1>5 DEF Answer
  <2> QED BY <1>5, <2>1, StartIs DEF Sound
<1>8. p # w.path /\ ~resume => Sound(moved)
  BY <1>1, <1>4, <1>5 DEF Sound, DisplayOK, ShownIsReal, ShowsWorst, Records
<1> HIDE DEF v
<1>9. Sound(v)
  BY <1>3, <1>4, <1>6, <1>7, <1>8
<1> QED BY <1>9 DEF v

\* A start asked for by a user, and a stop.
LEMMA StartByUserIs ==
    ASSUME NEW w, Sound(w), NEW e, Answer(w, e)
    PROVE  Sound(Start([w EXCEPT !.task.stopped_by_user = FALSE], e))
<1> DEFINE k == [w.task EXCEPT !.stopped_by_user = FALSE]
           v == [w EXCEPT !.task = k]
<1>1. w \in Worlds /\ w.task \in Task /\ WorldInv(w) /\ Announced(w)
  BY DEF Sound, WorldInv, Worlds
<1>2. k \in Task /\ ~k.stopped_by_user /\ k.state = w.task.state
  BY <1>1 DEF Task
<1>3. [w EXCEPT !.task.stopped_by_user = FALSE] = v
  BY <1>1 DEF Worlds
<1> HIDE DEF k
<1>4. v \in Worlds /\ v.task = k
  BY <1>1, <1>2 DEF Worlds
<1>5. /\ v.store = w.store /\ v.path = w.path /\ v.shelf = w.shelf
      /\ v.report = w.report /\ v.clock = w.clock /\ v.finished = w.finished
      /\ v.found = w.found /\ v.began = w.began /\ v.pruned = w.pruned /\ v.closed = w.closed
  BY <1>1 DEF Worlds
<1> HIDE DEF v
<1>6. WorldInv(v) /\ Announced(v) /\ ~v.task.stopped_by_user /\ Answer(v, e)
  BY <1>1, <1>2, <1>4, <1>5
  DEF WorldInv, NamesPassed, CleanIsClean, NotAgainstUser, HasEntry, Records, Announced, Answer
<1>7. Sound(Start(v, e))
  BY <1>6, StartIs DEF Sound
<1> QED BY <1>3, <1>7

LEMMA StopByUserIs ==
    ASSUME NEW w, Sound(w)
    PROVE  Sound(Stop([w EXCEPT !.task.stopped_by_user = TRUE], NoReason))
<1> DEFINE asked == [w EXCEPT !.task.stopped_by_user = TRUE]
           u == Stop(w, NoReason)
           k == [u.task EXCEPT !.stopped_by_user = TRUE]
           v == [u EXCEPT !.task = k]
<1>1. w \in Worlds /\ w.task \in Task /\ WorldInv(w) /\ Announced(w)
  BY DEF Sound, WorldInv, Worlds
<1>2. WorldInv(u) /\ Announced(u) /\ DisplayOK(u) /\ ~Records(u)
  BY <1>1, StopIs DEF Ended
<1>3. Stop(asked, NoReason) = v
  <2> DEFINE done == IF w.store.current = None THEN w.finished
                     ELSE w.finished \cup {Current(w)}
             off == [w.task EXCEPT !.state = "Stopped"]
  <2>1. u = [w EXCEPT !.task = off, !.store = CloseCurrentEntry(w.store),
                      !.finished = done, !.display = Paused]
    BY <1>1 DEF Stop, FinishCurrentEntry, Worlds
  <2>2. asked.store = w.store /\ asked.finished = w.finished /\ Current(asked) = Current(w)
        /\ asked = [w EXCEPT !.task = [w.task EXCEPT !.stopped_by_user = TRUE]]
    BY <1>1 DEF Worlds, Current
  <2> HIDE DEF asked
  <2>3. Stop(asked, NoReason) =
            [asked EXCEPT !.task.state = "Stopped", !.store = CloseCurrentEntry(w.store),
                          !.finished = done, !.display = Paused]
    <3>1. FinishCurrentEntry(asked, NoReason) =
            [asked EXCEPT !.task.state = "Stopped", !.store = CloseCurrentEntry(w.store),
                          !.finished = done]
      BY <2>2 DEF FinishCurrentEntry
    <3> HIDE DEF done
    <3> QED BY <1>1, <2>2, <3>1 DEF Stop, Worlds
  <2>4. [[w.task EXCEPT !.stopped_by_user = TRUE] EXCEPT !.state = "Stopped"]
            = [off EXCEPT !.stopped_by_user = TRUE]
    BY <1>1 DEF Task
  <2>5. u.task = off
    BY <1>1, <2>1 DEF Worlds
  <2> HIDE DEF done, off, u
  <2> QED BY <1>1, <2>1, <2>2, <2>3, <2>4, <2>5 DEF Worlds
<1> HIDE DEF u, asked
<1>4. u \in Worlds /\ u.task \in Task
  BY <1>2 DEF WorldInv, Worlds
<1>5. k \in Task /\ k.state = u.task.state /\ k.max_type_seen = u.task.max_type_seen
  BY <1>4 DEF Task
<1> HIDE DEF k
<1>6. v \in Worlds /\ v.task = k
  BY <1>4, <1>5 DEF Worlds
<1>7. /\ v.store = u.store /\ v.path = u.path /\ v.shelf = u.shelf
      /\ v.report = u.report /\ v.clock = u.clock /\ v.finished = u.finished
      /\ v.found = u.found /\ v.began = u.began /\ v.pruned = u.pruned /\ v.closed = u.closed
      /\ v.display = u.display
  BY <1>4 DEF Worlds
<1> HIDE DEF v
<1>8. Sound(v)
  BY <1>2, <1>5, <1>6, <1>7
  DEF Sound, WorldInv, NamesPassed, CleanIsClean, NotAgainstUser, HasEntry, Records,
      Announced, DisplayOK, ShownIsReal, ShowsWorst
<1> QED BY <1>3, <1>8 DEF asked

\* delete_entry and delete_all_entries on request, after the stop that the
\* current recording gets first.
LEMMA DeleteByRequestIs ==
    ASSUME NEW w, Sound(w), NEW n \in NamesOf(w.store.entries),
           NEW upto \in {"nothing", "report", "all"}
    PROVE  Sound(Delete(IF IsCurrentEntry(w.store, n) THEN Stop(w, NoReason) ELSE w, n, upto))
<1> DEFINE u == IF IsCurrentEntry(w.store, n) THEN Stop(w, NoReason) ELSE w
           v == Delete(u, n, upto)
<1>1. Sound(u) /\ ~IsCurrentEntry(u.store, n) /\ n \in NamesOf(u.store.entries)
  <2>1. CASE IsCurrentEntry(w.store, n)
    <3> DEFINE s == Stop(w, NoReason)
    <3>1. Sound(s) /\ Ended(w, s)
      BY StopIs DEF Sound
    <3> HIDE DEF s
    <3>2. None \notin DOMAIN s.store.entries
      BY <3>1, WorldFacts DEF Ended
    <3> QED BY <2>1, <3>1, <3>2 DEF Ended, IsCurrentEntry, s
  <2>2. CASE ~IsCurrentEntry(w.store, n)
    BY <2>2
  <2> QED BY <2>1, <2>2
<1> HIDE DEF u
<1>2. Lighter(u, v)
  BY <1>1, DeleteIs DEF Sound
<1> HIDE DEF v
<1>3. Sound(v)
  BY <1>1, <1>2, LighterKeeps DEF Sound, DisplayOK
<1> QED BY <1>3 DEF v, u

LEMMA DeleteAllIs ==
    ASSUME NEW w, Sound(w), NEW kept
    PROVE  LET u == Stop(w, NoReason)
               gone == NamesOf(u.store.entries) \ kept
           IN Sound([u EXCEPT !.store.entries = RetainOnly(u.store.entries, kept),
                              !.report = [n \in Names |->
                                    IF n \in gone THEN "none" ELSE u.report[n]]])
<1> DEFINE u == Stop(w, NoReason)
           gone == NamesOf(u.store.entries) \ kept
           left == [u.store EXCEPT !.entries = RetainOnly(u.store.entries, kept)]
           told == [n \in Names |-> IF n \in gone THEN "none" ELSE u.report[n]]
           v == [u EXCEPT !.store.entries = RetainOnly(u.store.entries, kept),
                          !.report = told]
<1>1. Sound(u) /\ Ended(w, u)
  BY StopIs DEF Sound
<1> HIDE DEF u
<1>2. /\ u \in Worlds /\ WellFormed(u.store) /\ u.store.current = None
      /\ u.store \in Store /\ u.store.entries \in Seq(ManifestEntry)
      /\ u.report \in [Names -> Report] /\ None \notin DOMAIN u.store.entries
  BY <1>1, WorldFacts DEF Ended, Worlds, WellFormed
<1>3. /\ RetainOnly(u.store.entries, kept) \in Seq(ManifestEntry)
      /\ NamesOf(RetainOnly(u.store.entries, kept)) \subseteq NamesOf(u.store.entries)
  BY <1>2, RetainOnlyKeeps
<1>4. /\ WellFormed(left) /\ left \in Store /\ left.current = None
      /\ NamesOf(left.entries) \subseteq NamesOf(u.store.entries)
  BY <1>2, <1>3 DEF WellFormed, Store, None
<1>5. /\ told \in [Names -> Report]
      /\ \A n \in Names : \/ told[n] = u.report[n]
                          \/ told[n] = "none" /\ ~IsCurrentEntry(u.store, n)
  BY <1>2 DEF Report, IsCurrentEntry
<1>6. v = [u EXCEPT !.store = left, !.report = told]
  BY <1>2 DEF Worlds
<1> HIDE DEF left, told, v
<1>7. v \in Worlds /\ v.store = left /\ v.report = told
  BY <1>2, <1>4, <1>5, <1>6 DEF Worlds
<1>8. /\ v.path = u.path /\ v.shelf = u.shelf /\ v.clock = u.clock
      /\ v.finished = u.finished /\ v.found = u.found /\ v.began = u.began
      /\ v.pruned = u.pruned /\ v.closed = u.closed /\ v.task = u.task /\ v.display = u.display
  BY <1>2, <1>6 DEF Worlds
<1>9. Lighter(u, v)
  BY <1>2, <1>4, <1>5, <1>7, <1>8 DEF Lighter
<1>10. Sound(v)
  BY <1>1, <1>9, LighterKeeps DEF Sound, DisplayOK
<1> QED BY <1>10 DEF v, told, u

\* The shutdown thread takes the entry from under the recording.  It may come
\* after the loop's end, when nothing is announced any more.
LEMMA ShutdownCloseIs ==
    ASSUME NEW w, WorldInv(w), w.store.current # None
    PROVE  LET v == [w EXCEPT !.store = CloseCurrentEntry(w.store), !.closed = Current(w)]
           IN /\ WorldInv(v)
              /\ Announced(w) /\ w.closed = None => Announced(v)
              /\ ShownIsReal(w) => ShownIsReal(v)
              /\ ShowsWorst(w) => ShowsWorst(v)
<1> DEFINE c == CloseCurrentEntry(w.store)
           n == Current(w)
           v == [w EXCEPT !.store = c, !.closed = n]
<1>1. w \in Worlds /\ WellFormed(w.store)
  BY DEF WorldInv
<1>2. n \in Names /\ n \in NamesOf(w.store.entries) /\ n # None
  BY <1>1, WorldFacts, NamesAssumption DEF None
<1>3. WellFormed(c) /\ c \in Store /\ c.entries = w.store.entries /\ c.current = None
  <2>1. WellFormed(c) /\ c.entries = w.store.entries /\ c.current = None
    BY <1>1, CloseCurrentEntryKeeps
  <2> QED BY <2>1 DEF WellFormed
<1>4. \A m : IsCurrentEntry(w.store, m) => m = n
  BY DEF IsCurrentEntry, Current
<1> HIDE DEF c, n
<1>5. v \in Worlds /\ v.store = c /\ v.closed = n
  BY <1>1, <1>2, <1>3 DEF Worlds
<1>6. /\ v.path = w.path /\ v.shelf = w.shelf /\ v.report = w.report
      /\ v.clock = w.clock /\ v.finished = w.finished /\ v.found = w.found
      /\ v.began = w.began /\ v.pruned = w.pruned /\ v.task = w.task
      /\ v.display = w.display
  BY <1>1 DEF Worlds
<1> HIDE DEF v
<1>7. WorldInv(v)
  BY <1>2, <1>3, <1>5, <1>6
  DEF WorldInv, NamesPassed, CleanIsClean, NotAgainstUser, HasEntry, Records
<1>8. ASSUME Announced(w), w.closed = None PROVE Announced(v)
  <2> SUFFICES ASSUME NEW m \in w.began PROVE m \in w.finished \/ m = n
    BY <1>5, <1>6 DEF Announced
  <2>1. m \in Names /\ m # None
    BY <1>1, NamesAssumption DEF Worlds, None
  <2> QED BY <1>4, <1>8, <2>1 DEF Announced
<1>9. /\ ShownIsReal(w) => ShownIsReal(v)
      /\ ShowsWorst(w) => ShowsWorst(v)
  BY <1>6 DEF ShownIsReal, ShowsWorst, Records
<1> QED BY <1>7, <1>8, <1>9 DEF v, c, n

-----------------------------------------------------------------------------
(***************************************************************************)
(* From worlds to steps.                                                   *)
(***************************************************************************)
\* What the environment answers in a step is an answer in this world.
LEMMA AnswersAreAnswers ==
    /\ \A e \in StartAnswers : Answer(World, e)
    /\ \A e \in ContainerAnswers :
        /\ e.max_type \in Severity
        /\ e.space.check \in {"none", "warning", "critical"}
        /\ e.rest.end \in {"unwritten", "written", "limit"}
        /\ e.rest.end = "limit" => Answer(World, e.rest.start)
<1>1. ASSUME NEW e \in StartAnswers PROVE Answer(World, e)
  <2>1. e.outcome \in {"low", "none", "entry", "ok"}
    BY DEF StartAnswers
  <2>2. e.outcome \in {"entry", "ok"} => e.name \in FreeNames
    BY DEF StartAnswers
  <2>3. World.clock = clock
    BY DEF World
  <2> QED BY <2>1, <2>2, <2>3 DEF Answer, FreeNames
<1>2. ASSUME NEW e \in ContainerAnswers
      PROVE  /\ e.max_type \in Severity /\ e.space \in SpaceAnswers /\ e.rest \in EndAnswers
  BY DEF ContainerAnswers
<1>3. \A e \in SpaceAnswers : e.check \in {"none", "warning", "critical"}
  BY DEF SpaceAnswers
<1>4. \A e \in EndAnswers : /\ e.end \in {"unwritten", "written", "limit"}
                            /\ e.end = "limit" => e.start \in StartAnswers
  BY DEF EndAnswers
<1> QED BY <1>1, <1>2, <1>3, <1>4

\* The history that Become forgets is that of recordings no store lists.
LEMMA BecomeKeeps ==
    ASSUME NEW v, WorldInv(v), Become(v)
    PROVE  /\ WorldInv(World') /\ loop' = loop
           /\ Announced(v) => Announced(World')
           /\ ShownIsReal(v) => ShownIsReal(World')
           /\ ShowsWorst(v) => ShowsWorst(World')
<1> DEFINE u == World'
           L == ListedIn(v)
           finds == [n \in Names |-> IF n \in L THEN v.found[n] ELSE 0]
<1>1. u = [store |-> v.store, path |-> v.path, shelf |-> v.shelf, task |-> v.task,
           display |-> v.display, report |-> v.report, clock |-> v.clock,
           finished |-> v.finished \cap L, closed |-> v.closed, found |-> finds,
           began |-> v.began \cap L, pruned |-> v.pruned, ok |-> TRUE]
  BY DEF Become, World
<1>2. v \in Worlds /\ WellFormed(v.store) /\ NamesPassed(v) /\ CleanIsClean(v)
  BY DEF WorldInv
<1> HIDE DEF L
<1>3. /\ finds \in [Names -> Severity]
      /\ \A n \in Names : v.found[n] = 0 => finds[n] = 0
  <2>1. v.found \in [Names -> Severity] /\ 0 \in Severity
    BY <1>2, SeverityAssumption DEF Worlds, Severity
  <2> QED BY <2>1
<1> HIDE DEF u, finds
<1>4. /\ u.store = v.store /\ u.path = v.path /\ u.shelf = v.shelf /\ u.task = v.task
      /\ u.display = v.display /\ u.report = v.report /\ u.clock = v.clock
      /\ u.finished = v.finished \cap L /\ u.found = finds
      /\ u.began = v.began \cap L /\ u.pruned = v.pruned /\ u.closed = v.closed
  BY <1>1
<1>5. u \in Worlds
  BY <1>1, <1>2, <1>3 DEF Worlds
<1>6. NamesPassed(u) /\ CleanIsClean(u)
  BY <1>2, <1>3, <1>4 DEF NamesPassed, CleanIsClean
<1>7. WorldInv(u)
  BY <1>4, <1>5, <1>6 DEF WorldInv, NotAgainstUser, HasEntry, Records
<1>8. /\ Announced(v) => Announced(u)
      /\ ShownIsReal(v) => ShownIsReal(u)
      /\ ShowsWorst(v) => ShowsWorst(u)
  BY <1>4 DEF Announced, ShownIsReal, ShowsWorst, Records
<1>9. loop' = loop
  BY DEF Become
<1> QED BY <1>7, <1>8, <1>9 DEF u

\* A handler of the running task.
LEMMA HandlerPreserves ==
    ASSUME IInv, loop = "runs", NEW v, Sound(v), Become(v)
    PROVE  IInv'
<1>1. /\ WorldInv(World') /\ Announced(World') /\ ShownIsReal(World') /\ ShowsWorst(World')
      /\ loop' = loop
  BY BecomeKeeps DEF Sound, DisplayOK
<1> QED BY <1>1 DEF IInv

\* A step of the uploader or the web server, which the task's end does not stop.
LEMMA OtherPreserves ==
    ASSUME IInv, NEW v, Lighter(World, v), Become(v)
    PROVE  IInv'
<1>1. /\ WorldInv(v) /\ ShowsWorst(v)
      /\ loop = "runs" => ShownIsReal(v) /\ Announced(v)
  BY LighterKeeps DEF IInv
<1>2. /\ WorldInv(World') /\ ShowsWorst(World')
      /\ loop = "runs" => ShownIsReal(World') /\ Announced(World')
      /\ loop' = loop
  BY <1>1, BecomeKeeps
<1> QED BY <1>2 DEF IInv

\* The loop's end closes the writers and tells nobody.
LEMMA EndPreserves ==
    ASSUME IInv, task' = [task EXCEPT !.state = "Stopped"],
           loop' \in {"exited", "failed"},
           UNCHANGED <<store, path, shelf, display, report, clock, finished, closed,
                       found, began, pruned>>
    PROVE  IInv'
<1> DEFINE w == World
           u == World'
<1>1. WorldInv(w) /\ w \in Worlds
  BY DEF IInv, WorldInv
<1>2. /\ w.store = store /\ w.path = path /\ w.shelf = shelf /\ w.task = task
      /\ w.display = display /\ w.report = report /\ w.clock = clock
      /\ w.finished = finished /\ w.found = found /\ w.began = began /\ w.pruned = pruned
      /\ w.closed = closed
  BY DEF World
<1>3. u = [store |-> store, path |-> path, shelf |-> shelf, task |-> task',
           display |-> display, report |-> report, clock |-> clock,
           finished |-> finished, closed |-> closed, found |-> found, began |-> began,
           pruned |-> pruned, ok |-> TRUE]
  BY DEF World
<1> HIDE DEF w, u
<1>4. task' \in Task /\ task'.state = "Stopped"
  <2>1. task \in Task
    BY <1>1, <1>2 DEF Worlds
  <2> QED BY <2>1 DEF Task
<1>5. /\ u \in Worlds /\ u.task = task'
      /\ u.store = w.store /\ u.path = w.path /\ u.shelf = w.shelf
      /\ u.report = w.report /\ u.clock = w.clock /\ u.finished = w.finished
      /\ u.found = w.found /\ u.began = w.began /\ u.pruned = w.pruned /\ u.closed = w.closed
  BY <1>1, <1>2, <1>3, <1>4 DEF Worlds
<1>6. WorldInv(u) /\ ShowsWorst(u)
  BY <1>1, <1>4, <1>5
  DEF WorldInv, NamesPassed, CleanIsClean, NotAgainstUser, HasEntry, Records, ShowsWorst
<1> QED BY <1>6 DEF IInv, u

LEMMA InitIInv == Init => IInv
<1> SUFFICES ASSUME Init PROVE IInv
  OBVIOUS
<1> DEFINE w == World
<1>1. /\ w = [store |-> EmptyStore, path |-> path, shelf |-> [p \in Paths |-> <<>>],
              task |-> [state |-> "Stopped", max_type_seen |-> 0,
                        low_space_warned |-> FALSE, stopped_by_user |-> FALSE],
              display |-> Shows("Initial", 0), report |-> [n \in Names |-> "none"],
              clock |-> None, finished |-> {}, closed |-> None, found |-> [n \in Names |-> 0],
              began |-> {}, pruned |-> {}, ok |-> TRUE]
      /\ path \in Paths
  BY DEF Init, World
<1> HIDE DEF w
<1>2. 0 \in Severity
  BY SeverityAssumption DEF Severity
<1>3. WellFormed(EmptyStore) /\ EmptyStore \in Store /\ EmptyStore.entries = <<>>
  <2>1. <<>> \in Seq(ManifestEntry) /\ Len(<<>>) = 0
    OBVIOUS
  <2> QED BY <2>1 DEF WellFormed, Store, EmptyStore, None
<1>4. w.shelf = [p \in Paths |-> <<>>] /\ w.shelf \in [Paths -> Seq(ManifestEntry)]
  BY <1>1
<1>5. w.task \in Task /\ w.task.state = "Stopped"
  BY <1>1, <1>2 DEF Task
<1>6. w.display \in Displays /\ w.display.kind = "Initial"
  BY <1>1, <1>2 DEF Displays, Shows
<1>7. w \in Worlds
  BY <1>1, <1>2, <1>3, <1>4, <1>5, <1>6 DEF Worlds, Report
<1>8. NamesPassed(w)
  <2>1. NamesOf(<<>>) = {}
    BY DEF NamesOf
  <2>2. w.closed <= w.clock
    BY <1>1 DEF None
  <2> QED BY <1>1, <1>3, <1>4, <2>1, <2>2 DEF NamesPassed
<1>9. CleanIsClean(w) /\ Announced(w) /\ \A e \in w.pruned : Dispensable(e)
  BY <1>1 DEF CleanIsClean, Announced
<1>10. ~Records(w)
  BY <1>5 DEF Records
<1>11. WorldInv(w)
  BY <1>1, <1>3, <1>7, <1>8, <1>9, <1>10 DEF WorldInv, NotAgainstUser, HasEntry
<1>12. ShownIsReal(w) /\ ShowsWorst(w)
  BY <1>6, <1>10 DEF ShownIsReal, ShowsWorst
<1>13. loop = "runs"
  BY DEF Init
<1> QED BY <1>9, <1>11, <1>12, <1>13 DEF IInv, w

\* Every step keeps the inductive invariant.
LEMMA NextIInv == IInv /\ [Next]_vars => IInv'
<1> SUFFICES ASSUME IInv, [Next]_vars PROVE IInv'
  OBVIOUS
<1>1. loop = "runs" => Sound(World)
  BY DEF IInv, Sound, DisplayOK
<1>2. World.store = store
  BY DEF World
<1>3. ASSUME NEW e \in StartAnswers, StartRecording(e) PROVE IInv'
  <2> DEFINE v == Start([World EXCEPT !.task.stopped_by_user = FALSE], e)
  <2>1. loop = "runs" /\ Become(v) /\ Sound(v)
    BY <1>1, <1>3, AnswersAreAnswers, StartByUserIs DEF StartRecording
  <2> HIDE DEF v
  <2> QED BY <2>1, HandlerPreserves
<1>4. ASSUME StopRecording PROVE IInv'
  <2> DEFINE v == Stop([World EXCEPT !.task.stopped_by_user = TRUE], NoReason)
  <2>1. loop = "runs" /\ Become(v) /\ Sound(v)
    BY <1>1, <1>4, StopByUserIs DEF StopRecording
  <2> HIDE DEF v
  <2> QED BY <2>1, HandlerPreserves
<1>5. ASSUME NEW p \in Paths, NEW e \in StartAnswers, NEW opens \in BOOLEAN,
             HandleSwitchStore(p, e, opens)
      PROVE  IInv'
  <2> DEFINE v == SwitchStore(World, p, e, opens)
  <2>1. loop = "runs" /\ Become(v) /\ Sound(v)
    BY <1>1, <1>5, AnswersAreAnswers, SwitchStoreIs DEF HandleSwitchStore
  <2> HIDE DEF v
  <2> QED BY <2>1, HandlerPreserves
<1>6. ASSUME NEW n \in Names, NEW upto \in {"nothing", "report", "all"},
             DeleteByRequest(n, upto)
      PROVE  IInv'
  <2> DEFINE v == Delete(IF IsCurrentEntry(World.store, n) THEN Stop(World, NoReason)
                         ELSE World, n, upto)
  <2>1. loop = "runs" /\ n \in NamesOf(World.store.entries) /\ Become(v)
    BY <1>2, <1>6 DEF DeleteByRequest
  <2>2. Sound(v)
    BY <1>1, <2>1, DeleteByRequestIs
  <2> HIDE DEF v
  <2> QED BY <2>1, <2>2, HandlerPreserves
<1>7. ASSUME NEW kept \in SUBSET Names, DeleteAllByRequest(kept) PROVE IInv'
  <2> DEFINE u == Stop(World, NoReason)
             gone == NamesOf(u.store.entries) \ kept
             v == [u EXCEPT !.store.entries = RetainOnly(u.store.entries, kept),
                            !.report = [n \in Names |->
                                    IF n \in gone THEN "none" ELSE u.report[n]]]
  <2>1. loop = "runs" /\ Become(v)
    <3>1. Sound(u)
      BY <1>1, <1>7, StopIs DEF DeleteAllByRequest, Sound
    <3>2. u \in Worlds /\ u.store \in Store
      BY <3>1 DEF Sound, WorldInv, WellFormed
    <3>3. /\ loop = "runs"
          /\ Become([u EXCEPT !.store.entries = RetainOnly(@, kept),
                              !.report = [n \in Names |-> IF n \in gone THEN "none" ELSE @[n]]])
      BY <1>7 DEF DeleteAllByRequest
    <3> HIDE DEF u
    <3>4. [u EXCEPT !.store.entries = RetainOnly(@, kept),
                    !.report = [n \in Names |-> IF n \in gone THEN "none" ELSE @[n]]] = v
      BY <3>2 DEF Worlds, Store
    <3> QED BY <3>3, <3>4
  <2>2. Sound(v)
    BY <1>1, <2>1, DeleteAllIs
  <2> HIDE DEF v
  <2> QED BY <2>1, <2>2, HandlerPreserves
<1>8. ASSUME NEW e \in ContainerAnswers, HandleContainer(e) PROVE IInv'
  <2> DEFINE v == ProcessContainer(World, e)
  <2>1. loop = "runs" /\ Become(v) /\ Sound(v)
    BY <1>1, <1>8, AnswersAreAnswers, ProcessContainerIs DEF HandleContainer
  <2> HIDE DEF v
  <2> QED BY <2>1, HandlerPreserves
<1>9. ASSUME NEW n \in Names, UploaderMarks(n) PROVE IInv'
  <2> DEFINE v == [World EXCEPT !.store = SetMark(World.store, n, "uploaded", TRUE)]
  <2>1. /\ n \in NamesOf(World.store.entries) /\ "uploaded" \in Marks /\ Become(v)
    BY <1>2, <1>9, MarksAssumption DEF UploaderMarks, World
  <2>2. Lighter(World, v)
    BY <2>1, MarkIs DEF IInv
  <2> HIDE DEF v
  <2> QED BY <2>1, <2>2, OtherPreserves
<1>10. ASSUME NEW n \in Names, UploaderDeletes(n) PROVE IInv'
  <2> DEFINE v == Delete(World, n, "all")
  <2>1. /\ n \in NamesOf(World.store.entries) /\ ~IsCurrentEntry(World.store, n) /\ Become(v)
    BY <1>2, <1>10 DEF UploaderDeletes
  <2>2. Lighter(World, v)
    BY <2>1, DeleteIs DEF IInv
  <2> HIDE DEF v
  <2> QED BY <2>1, <2>2, OtherPreserves
<1>11. ASSUME NEW n \in Names, NEW on \in BOOLEAN, Label(n, on) PROVE IInv'
  <2> DEFINE v == [World EXCEPT !.store = SetMark(World.store, n, "labelled", on)]
  <2>1. /\ n \in NamesOf(World.store.entries) /\ "labelled" \in Marks /\ Become(v)
    BY <1>2, <1>11 DEF Label, World
  <2>2. Lighter(World, v)
    BY <2>1, MarkIs DEF IInv
  <2> HIDE DEF v
  <2> QED BY <2>1, <2>2, OtherPreserves
<1>12. CASE Exit
  BY <1>12, EndPreserves DEF Exit
<1>13. CASE DiagReadError
  BY <1>13, EndPreserves DEF DiagReadError
<1>14. CASE ShutdownClose
  <2> DEFINE v == [World EXCEPT !.store = CloseCurrentEntry(World.store),
                                !.closed = Current(World)]
  <2>1. World.store.current # None /\ World.closed = None /\ Become(v)
    BY <1>2, <1>14 DEF ShutdownClose, World
  <2>2. /\ WorldInv(v) /\ ShowsWorst(v)
        /\ loop = "runs" => ShownIsReal(v) /\ Announced(v)
    BY <2>1, ShutdownCloseIs DEF IInv
  <2> HIDE DEF v
  <2>3. /\ WorldInv(World') /\ ShowsWorst(World')
        /\ loop = "runs" => ShownIsReal(World') /\ Announced(World')
        /\ loop' = loop
    BY <2>1, <2>2, BecomeKeeps
  <2> QED BY <2>3 DEF IInv
<1>15. CASE UNCHANGED vars
  BY <1>15 DEF vars, IInv, World
<1> QED BY <1>3, <1>4, <1>5, <1>6, <1>7, <1>8, <1>9, <1>10, <1>11, <1>12, <1>13, <1>14, <1>15
        DEF Next

-----------------------------------------------------------------------------
\* The world between two messages is as the handlers leave it.
LEMMA Inductive == Spec => []IInv
<1>1. Init => IInv
  BY InitIInv
<1>2. IInv /\ [Next]_vars => IInv'
  BY NextIInv
<1> QED BY <1>1, <1>2, PTL DEF Spec

\* RecorderInv: whatever was deleted, pruned, uploaded or labelled meanwhile,
\* and whichever call of a start, a rotation or a switch failed, a recording in
\* progress has its entry and its report.
THEOREM RecordingKeepsItsEntry == Spec => []RecorderInv
<1>1. IInv => RecorderInv
  <2> SUFFICES ASSUME IInv PROVE RecorderInv
    OBVIOUS
  <2>1. World \in Worlds /\ WellFormed(World.store) /\ HasEntry(World)
    BY DEF IInv, WorldInv
  <2>2. /\ World.store = store /\ World.path = path /\ World.shelf = shelf
        /\ World.task = task /\ World.display = display /\ World.report = report
        /\ World.clock = clock /\ World.finished = finished /\ World.found = found
        /\ World.began = began /\ World.pruned = pruned /\ World.closed = closed
    BY DEF World
  <2>3. TypeOK
    BY <2>1, <2>2 DEF TypeOK, Worlds, Displays, IInv
  <2>4. RecordingHasEntry
    BY <2>1, <2>2 DEF RecordingHasEntry, HasEntry, IsRecording, Records
  <2> QED BY <2>3, <2>4 DEF RecorderInv
<1> QED BY <1>1, Inductive, PTL

\* UserStopHolds: no rotation and no switch of storage, to the same directory or
\* another, resumes a recording that a user stopped.
THEOREM StopIsObeyed == Spec => []UserStopHolds
<1>1. IInv => UserStopHolds
  BY DEF IInv, WorldInv, NotAgainstUser, Records, World, UserStopHolds, IsRecording
<1> QED BY <1>1, Inductive, PTL

\* DisplayIsRight: what the display shows is what the task does and the worst
\* it has found, after every handler and every failure inside one.
THEOREM DisplayAgrees == Spec => []DisplayIsRight
<1>1. IInv => DisplayIsRight
  BY DEF IInv, ShownIsReal, ShowsWorst, Records, World, DisplayIsRight,
         ShownRecordingIsReal, DisplayShowsWorst, IsRecording
<1> QED BY <1>1, Inductive, PTL

\* FinishedAnnounced: while the task runs, a recording that is over has been
\* announced to the analysis thread, in the store in use and in the others.
THEOREM EveryEndIsTold == Spec => []FinishedAnnounced
<1>1. IInv => FinishedAnnounced
  BY DEF IInv, Announced, Records, World, FinishedAnnounced, IsRecording
<1> QED BY <1>1, Inductive, PTL

\* PruneSparesFindings: a clean-up of any length removes nothing in which
\* something was reported, nothing labelled and nothing waiting to be uploaded.
THEOREM FindingsAreSpared == Spec => []PruneSparesFindings
<1>1. IInv => PruneSparesFindings
  BY DEF IInv, WorldInv, Dispensable, World, PruneSparesFindings
<1> QED BY <1>1, Inductive, PTL

=============================================================================
