----------------------- MODULE AtomicOperationsProofs -----------------------
(***************************************************************************)
(* The proof that Inv of AtomicOperationsInvariant is kept by the          *)
(* statements an operation runs and by what ends them, and what it shows.  *)
(***************************************************************************)
EXTENDS AtomicOperationsInvariant

-----------------------------------------------------------------------------
(* A statement takes effect.                                                *)

LEMMA Running ==
    ASSUME Inv, stmt # "none"
    PROVE  /\ frames # <<>> /\ ret = "none"
           /\ Top.pc = "body" => InBody(Top, db, stmt, ret, before, written, nextId)
           /\ Top.pc # "body" => InOther(Top, db, stmt, ret, interrupts, nextId) /\ ~Top.bare
<1>1. frames # <<>>
  BY DEF Inv, Types, TypeOK
<1>2. Position(Top, db, stmt, ret, before, written, interrupts, nextId)
  BY Zenon, <1>1, Now
<1>3. CASE Top.pc = "body"
  BY Zenon, <1>1, <1>2, <1>3 DEF Position, InBody
<1>4. CASE Top.pc # "body"
  BY Zenon, <1>1, <1>2, <1>4 DEF Position, InOther
<1> QED BY <1>3, <1>4

LEMMA TakesStep ==
    ASSUME Inv, frames # <<>>, NEW d \in Dbs, NEW phase \in {"half", "end", "commit"},
           Takes(d, phase), Position(Top, d, phase, ret, before, written, interrupts, nextId)
    PROVE  Inv' /\ Honest
<1>1. /\ db' = d /\ stmt' = phase /\ before' = before /\ flag' = flag /\ signal' = signal
      /\ interrupts' = interrupts /\ frames' = frames /\ ret' = ret /\ last' = last
      /\ active' = active /\ delivered' = delivered /\ suspended' = suspended
      /\ cancelled' = cancelled /\ nextId' = nextId /\ written' = written
  BY Zenon DEF Takes, handle, guards, counts
<1>2. stmt' \in {"none", "start", "half", "end", "commit"}
  BY <1>1
<1>3. /\ Position(Top, db', stmt', ret', before', written', interrupts, nextId) /\ db' \in Dbs
      /\ before' \subseteq Rows /\ ret' \in Results \union {"none"} /\ last' \in Results \union {"none"}
      /\ written' \in 0..MaxWrites /\ flag' \in BOOLEAN /\ signal' \in BOOLEAN
      /\ delivered' \in BOOLEAN /\ (interrupts = 0 => ~flag' /\ ~signal')
  BY Zenon, <1>1, Parts
<1> QED BY Zenon, <1>1, <1>2, <1>3, KeepStep

\* The savepoint of f is there, or is not.
LEMMA Present ==
    ASSUME NEW f \in Frames, Sound(f.entry, f.name), NEW next \in Nat, f.name <= next
    PROVE  /\ Index(f.entry, f.name) = 0 /\ Index(Done(f), f.name) = 0
           /\ \A d \in Dbs : Sound(d, next) /\ Inside(f, d) => Index(d, f.name) # 0
<1>1. /\ f.name \in Nat /\ f.entry \in Dbs /\ f.entry.saves \in Seq(Saves)
      /\ Len(f.entry.saves) \in Nat
  BY Zenon, FrameTypes
<1>2. ASSUME NEW i \in 1..Len(f.entry.saves) PROVE f.entry.saves[i].name # f.name
  <2>1. f.entry.saves[i].name < f.name
    BY Zenon DEF Sound
  <2>2. f.entry.saves[i].name \in Nat
    <3>1. f.entry.saves[i] \in Saves
      BY Zenon, <1>1, ElementOf
    <3> QED BY Zenon, <3>1 DEF Saves
  <2> QED BY ONLY <1>1, <2>1, <2>2
<1>3. Index(f.entry, f.name) = 0
  BY Zenon, <1>1, <1>2, IndexFacts
<1>4. Index(Done(f), f.name) = 0
  <2>1. Done(f) \in Dbs /\ Done(f).saves = f.entry.saves
    BY Zenon, DoneFields
  <2>2. Sound(Done(f), next)
    BY Zenon, DoneSound
  <2>3. \A i \in 1..Len(Done(f).saves) : Done(f).saves[i].name # f.name
    BY Zenon, <1>2, <2>1
  <2> QED BY Zenon, <1>1, <2>1, <2>2, <2>3, IndexFacts
<1>5. ASSUME NEW d \in Dbs, Sound(d, next), Inside(f, d) PROVE Index(d, f.name) # 0
  <2>1. Index(d, f.name) = Len(f.entry.saves) + 1
    BY Zenon, <1>5, InsideFacts
  <2> QED BY <1>1, <2>1
<1> QED BY <1>3, <1>4, <1>5

\* The database in which a cleanup statement of f begins: whether its
\* savepoint is there.
LEMMA AtStart ==
    ASSUME Inv, stmt \in {"start", "half"}, Top.pc \in Cleanup
    PROVE  /\ stmt = "start" /\ Sound(db, nextId) /\ ~Top.bare
           /\ \/ Inside(Top, db) /\ Index(db, Top.name) # 0
              \/ /\ ~Top.entry.auto /\ Index(db, Top.name) = 0
                 /\ \/ Top.pc = "undoOpen" /\ Top.cause \in {"cancelled", "other"} /\ db = Top.entry
                    \/ Top.pc = "undo" /\ db = Done(Top) /\ interrupts > 0
           /\ Top.pc = "undoOpen" => Top.cause \in {"cancelled", "other"}
           /\ Top.pc = "undo" => Top.cause \in Errors
           /\ Top.pc = "release" => db = Opened(Top)
           /\ Top.pc \in {"dropOpen", "drop"} =>
                 /\ Top.cause \in Errors /\ (Top.pc = "dropOpen" => Top.cause # "rollback")
                 /\ db = Marked(Top) \/ (Keeps(Top) /\ Top.kind = "write")
<1>1. Top.pc # "body" /\ stmt # "none" /\ stmt # "end" /\ stmt # "commit"
  BY DEF Cleanup
<1>2. frames # <<>> /\ InOther(Top, db, stmt, ret, interrupts, nextId) /\ ~Top.bare
  BY Zenon, <1>1, Running
<1>3. /\ Top \in Frames /\ Sound(Top.entry, Top.name) /\ nextId \in Nat
      /\ Top.name < nextId /\ Top.name <= nextId
  BY Zenon, <1>2, Now
<1>4. db \in Dbs
  BY Zenon, Parts
<1>5. /\ Index(Top.entry, Top.name) = 0 /\ Index(Done(Top), Top.name) = 0
      /\ Sound(db, nextId) /\ Inside(Top, db) => Index(db, Top.name) # 0
  BY Zenon, <1>3, <1>4, Present
<1>6. /\ Sound(Marked(Top), nextId) /\ Inside(Top, Marked(Top))
      /\ Sound(Opened(Top), nextId) /\ Inside(Top, Opened(Top))
  BY Zenon, <1>3, MarkedSound
<1>7. Sound(Done(Top), nextId) /\ Sound(Top.entry, nextId)
  BY Zenon, <1>3, DoneSound
<1>8. CASE Top.pc = "undoOpen"
  <2>1. InUndoOpen(Top, db, stmt)
    BY Zenon, <1>2, <1>8 DEF InOther
  <2>2. /\ Top.cause \in {"cancelled", "other"} /\ stmt = "start"
        /\ (db = Top.entry /\ ~Top.entry.auto) \/ db = Marked(Top)
    BY <1>1, <2>1 DEF InUndoOpen
  <2>3. Sound(db, nextId)
    BY Zenon, <1>6, <1>7, <2>2
  <2>4. (~Top.entry.auto /\ db = Top.entry /\ Index(db, Top.name) = 0)
        \/ (Inside(Top, db) /\ Index(db, Top.name) # 0)
    BY Zenon, <1>5, <1>6, <2>2, <2>3
  <2> QED BY <1>2, <1>8, <2>2, <2>3, <2>4
<1>9. CASE Top.pc \in {"dropOpen", "drop"}
  <2>1. InDrop(Top, db, stmt, nextId)
    BY Zenon, <1>2, <1>9 DEF InOther
  <2>2. /\ Top.cause \in Errors /\ (Top.pc = "dropOpen" => Top.cause # "rollback") /\ stmt = "start"
        /\ db = Marked(Top) \/ (Keeps(Top) /\ Inside(Top, db) /\ Sound(db, nextId))
    BY <1>1, <2>1 DEF InDrop
  <2>3. Sound(db, nextId) /\ Inside(Top, db)
    BY Zenon, <1>6, <2>2
  <2>4. Keeps(Top) => Top.kind = "write"
    BY Zenon DEF Keeps
  <2> QED BY <1>2, <1>5, <1>9, <2>2, <2>3, <2>4
<1>10. CASE Top.pc = "release"
  <2>1. InRelease(Top, db, stmt)
    BY Zenon, <1>2, <1>10 DEF InOther
  <2>2. stmt = "start" /\ db = Opened(Top)
    BY <1>1, <2>1 DEF InRelease
  <2>3. Sound(db, nextId) /\ Inside(Top, db)
    BY Zenon, <1>6, <2>2
  <2> QED BY <1>2, <1>5, <1>10, <2>2, <2>3
<1>11. CASE Top.pc = "undo"
  <2>1. InUndo(Top, db, stmt, interrupts, nextId)
    BY Zenon, <1>2, <1>11 DEF InOther
  <2>2. /\ Top.cause \in Errors /\ stmt = "start"
        /\ \/ Inside(Top, db) /\ Sound(db, nextId)
           \/ ~Top.entry.auto /\ db = Done(Top) /\ interrupts > 0
    BY <1>1, <2>1 DEF InUndo
  <2>3. Sound(db, nextId)
    BY Zenon, <1>7, <2>2
  <2>4. \/ Inside(Top, db) /\ Index(db, Top.name) # 0
        \/ ~Top.entry.auto /\ Index(db, Top.name) = 0 /\ db = Done(Top) /\ interrupts > 0
    BY Zenon, <1>5, <2>2, <2>3
  <2> QED BY <1>2, <1>11, <2>2, <2>3, <2>4
<1> QED BY <1>8, <1>9, <1>10, <1>11 DEF Cleanup

\* The fields of the database of a callback whose write is running.
LEMMA BodyRunning ==
    ASSUME Inv, stmt # "none", Top.pc = "body"
    PROVE  /\ frames # <<>> /\ ret = "none" /\ stmt \in {"start", "half", "end"}
           /\ written \in 1..MaxWrites /\ (Top.bare => Top.writes = {})
           /\ Base(Top) \in Dbs /\ before = Base(Top).pages
           /\ db = [Base(Top) EXCEPT !.pages = @ \union Stored(stmt, written)]
           /\ db.disk = Base(Top).disk /\ db.auto = Base(Top).auto /\ db.saves = Base(Top).saves
           /\ db.poisoned = Base(Top).poisoned
           /\ db.pages = Base(Top).pages \union Stored(stmt, written)
<1>1. frames # <<>> /\ ret = "none" /\ InBody(Top, db, stmt, "none", before, written, nextId)
  BY Zenon, Running
<1>2. /\ stmt \in {"start", "half", "end"} /\ written \in 1..MaxWrites /\ (Top.bare => Top.writes = {})
      /\ before = Base(Top).pages
      /\ db = [Base(Top) EXCEPT !.pages = @ \union Stored(stmt, written)]
  BY Zenon, <1>1 DEF InBody
<1>3. Base(Top) \in Dbs
  BY Zenon, <1>1, Now, BaseFields
<1> HIDE DEF Base
<1> QED BY Zenon, <1>1, <1>2, <1>3 DEF Dbs

LEMMA BodyEffect ==
    ASSUME Inv, stmt \in {"start", "half"}, Top.pc = "body",
           Takes([db EXCEPT !.pages = @ \union {<<written, IF stmt = "half" THEN 2 ELSE 1>>}],
                 IF stmt = "half" THEN "end" ELSE "half")
    PROVE  Inv' /\ Honest
<1> DEFINE new == {<<written, IF stmt = "half" THEN 2 ELSE 1>>}
           phase == IF stmt = "half" THEN "end" ELSE "half"
           d == [db EXCEPT !.pages = @ \union new]
           e == [Base(Top) EXCEPT !.pages = @ \union Stored(phase, written)]
<1>1. /\ frames # <<>> /\ ret = "none" /\ written \in 1..MaxWrites /\ (Top.bare => Top.writes = {})
      /\ Base(Top) \in Dbs /\ before = Base(Top).pages
      /\ db.disk = Base(Top).disk /\ db.auto = Base(Top).auto /\ db.saves = Base(Top).saves
      /\ db.poisoned = Base(Top).poisoned
      /\ db.pages = Base(Top).pages \union Stored(stmt, written)
  <2>1. stmt # "none"
    OBVIOUS
  <2> QED BY Zenon, <2>1, BodyRunning
<1>2. db \in Dbs
  BY Zenon, Parts
<1>3. Stored(stmt, written) \union new = Stored(phase, written)
  <2>1. CASE stmt = "half"
    <3>1. Stored(stmt, written) = {<<written, 1>>}
      BY <2>1 DEF Stored
    <3>2. Stored(phase, written) = {<<written, 1>>, <<written, 2>>}
      BY <2>1 DEF Stored
    <3>3. new = {<<written, 2>>}
      BY <2>1
    <3> QED BY <3>1, <3>2, <3>3
  <2>2. CASE stmt = "start"
    <3>1. Stored(stmt, written) = {}
      BY <2>2 DEF Stored
    <3>2. Stored(phase, written) = {<<written, 1>>}
      BY <2>2 DEF Stored
    <3>3. new = {<<written, 1>>}
      BY <2>2
    <3> QED BY <3>1, <3>2, <3>3
  <2> QED BY <2>1, <2>2
<1>4. new \subseteq Rows /\ Stored(phase, written) \subseteq Rows
  BY <1>1 DEF Rows, Stored
<1>5. phase \in {"half", "end"} /\ phase \in {"half", "end", "commit"} /\ phase \in {"start", "half", "end"}
  OBVIOUS
<1>6. Takes(d, phase)
  OBVIOUS
<1> HIDE DEF phase, new
<1>7. /\ d \in Dbs /\ d.disk = db.disk /\ d.auto = db.auto /\ d.saves = db.saves
      /\ d.poisoned = db.poisoned /\ d.pages = db.pages \union new
  <2>1. db.pages \union new \subseteq Rows
    BY <1>2, <1>4 DEF Dbs
  <2> QED BY Zenon, <1>2, <2>1 DEF Dbs
<1>8. /\ e \in Dbs /\ e.disk = Base(Top).disk /\ e.auto = Base(Top).auto /\ e.saves = Base(Top).saves
      /\ e.poisoned = Base(Top).poisoned /\ e.pages = Base(Top).pages \union Stored(phase, written)
  <2> HIDE DEF Base
  <2>1. Base(Top).pages \union Stored(phase, written) \subseteq Rows
    BY <1>1, <1>4 DEF Dbs
  <2> QED BY Zenon, <1>1, <2>1 DEF Dbs
<1>9. d = e
  <2>1. (Base(Top).pages \union Stored(stmt, written)) \union new
           = Base(Top).pages \union (Stored(stmt, written) \union new)
    OBVIOUS
  <2> HIDE DEF d, e, Base
  <2>2. d.pages = e.pages
    BY Zenon, <1>1, <1>3, <1>7, <1>8, <2>1
  <2>3. d.disk = e.disk /\ d.auto = e.auto /\ d.saves = e.saves /\ d.poisoned = e.poisoned
    BY Zenon, <1>1, <1>7, <1>8
  <2> QED BY Zenon, <1>7, <1>8, <2>2, <2>3, SameDb
<1>10. Position(Top, d, phase, ret, before, written, interrupts, nextId)
  BY Zenon, <1>1, <1>5, <1>9 DEF Position, InBody
<1> HIDE DEF d
<1> QED BY Zenon, <1>1, <1>5, <1>6, <1>7, <1>10, TakesStep

LEMMA FailsStep ==
    ASSUME Inv, frames # <<>>, NEW missing \in BOOLEAN, NEW d \in Dbs, Fails("other", missing, d),
           Sound(d, nextId), Verdict(Top, d, "other", missing, interrupts, nextId),
           missing /\ Top.pc \in {"undoOpen", "dropOpen"} => Top.cause \in Results,
           interrupts = 0 => Blame \/ missing,
           missing /\ Top.pc \in {"undo", "drop"} => interrupts # 0
    PROVE  Inv' /\ Honest
<1>1. /\ db' = d /\ stmt' = "none" /\ flag' = FALSE /\ before' = {} /\ Failed("other", missing, d)
      /\ signal' = signal /\ interrupts' = interrupts /\ delivered' = delivered
      /\ cancelled' = cancelled /\ nextId' = nextId /\ written' = written
  BY Zenon DEF Fails, Idle, counts
<1>2. before' \subseteq Rows /\ flag' \in BOOLEAN /\ ~flag'
  BY Zenon, <1>1
<1>3. signal \in BOOLEAN /\ delivered \in BOOLEAN /\ (interrupts = 0 => ~signal)
  BY Zenon, Parts
<1>4. Quits
  BY Zenon, <1>1, <1>2, <1>3 DEF Quits
<1>5. /\ Failed("other", missing, db') /\ db' \in Dbs /\ Sound(db', nextId)
      /\ Verdict(Top, db', "other", missing, interrupts, nextId)
  BY Zenon, <1>1
<1> QED BY Zenon, <1>4, <1>5, FailedStep

LEMMA OpenEffect ==
    ASSUME Inv, stmt \in {"start", "half"}, Top.pc = "open", Takes(Savepoint(db, Top.name), "end")
    PROVE  Inv' /\ Honest
<1>1. Top.pc # "body" /\ stmt # "none" /\ stmt # "end"
  OBVIOUS
<1>2. /\ frames # <<>> /\ InOther(Top, db, stmt, ret, interrupts, nextId) /\ ~Top.bare /\ ret = "none"
  BY Zenon, <1>1, Running
<1>3. InOpen(Top, db, stmt)
  BY Zenon, <1>2 DEF InOther
<1>4. Top.writes = {} /\ db = Top.entry
  BY <1>1, <1>3 DEF InOpen
<1>5. Savepoint(db, Top.name) = Marked(Top) /\ Marked(Top) \in Dbs
  BY Zenon, <1>2, <1>4, Now, MarkedFields DEF Marked
<1>6. InOpen(Top, Marked(Top), "end")
  BY <1>4 DEF InOpen
<1>7. InOther(Top, Marked(Top), "end", ret, interrupts, nextId)
  BY <1>2, <1>6 DEF InOther
<1>8. Position(Top, Marked(Top), "end", ret, before, written, interrupts, nextId)
  BY Zenon, <1>1, <1>7 DEF Position
<1>9. "end" \in {"half", "end", "commit"} /\ Takes(Marked(Top), "end")
  BY Zenon, <1>5
<1> QED BY Zenon, <1>2, <1>5, <1>8, <1>9, TakesStep

LEMMA RollbackEffect ==
    ASSUME Inv, stmt \in {"start", "half"}, Top.pc \in {"undoOpen", "undo"}, Index(db, Top.name) # 0,
           Takes(RollbackTo(db, Top.name), "end")
    PROVE  Inv' /\ Honest
<1>1. Top.pc \in Cleanup /\ Top.pc # "body" /\ stmt # "none"
  BY DEF Cleanup
<1>2. /\ Sound(db, nextId) /\ ~Top.bare /\ Inside(Top, db)
      /\ Top.pc = "undoOpen" => Top.cause \in {"cancelled", "other"}
      /\ Top.pc = "undo" => Top.cause \in Errors
  BY Zenon, <1>1, AtStart
<1>3. frames # <<>> /\ ret = "none"
  BY Zenon, <1>1, Running
<1>4. Top \in Frames /\ Sound(Top.entry, Top.name) /\ db \in Dbs
  BY Zenon, <1>3, Now, Parts
<1>5. RollbackTo(db, Top.name) = Marked(Top) /\ Marked(Top) \in Dbs
  BY Zenon, <1>2, <1>4, RollbackToMarked, MarkedFields
<1>6. InOther(Top, Marked(Top), "end", ret, interrupts, nextId)
  <2>1. Top.pc = "undoOpen" => InUndoOpen(Top, Marked(Top), "end")
    BY <1>2 DEF InUndoOpen
  <2>2. Top.pc = "undo" => InUndo(Top, Marked(Top), "end", interrupts, nextId)
    BY <1>2 DEF InUndo
  <2> QED BY <1>2, <1>3, <2>1, <2>2 DEF InOther
<1>7. Position(Top, Marked(Top), "end", ret, before, written, interrupts, nextId)
  BY Zenon, <1>1, <1>6 DEF Position
<1>8. "end" \in {"half", "end", "commit"} /\ Takes(Marked(Top), "end")
  BY Zenon, <1>5
<1> QED BY Zenon, <1>3, <1>5, <1>7, <1>8, TakesStep

LEMMA ReleaseEffect ==
    ASSUME Inv, stmt \in {"start", "half"}, Top.pc \in {"dropOpen", "drop", "release"},
           Index(db, Top.name) # 0, ~Commits(db, Top.name), Takes(Release(db, Top.name), "end")
    PROVE  Inv' /\ Honest
<1> DEFINE d == Release(db, Top.name)
<1>1. Top.pc \in Cleanup /\ Top.pc # "body" /\ stmt # "none"
  BY DEF Cleanup
<1>2. /\ Sound(db, nextId) /\ ~Top.bare /\ Inside(Top, db)
      /\ Top.pc = "release" => db = Opened(Top)
      /\ Top.pc \in {"dropOpen", "drop"} =>
            /\ Top.cause \in Errors /\ (Top.pc = "dropOpen" => Top.cause # "rollback")
            /\ db = Marked(Top) \/ (Keeps(Top) /\ Top.kind = "write")
  BY Zenon, <1>1, AtStart
<1>3. frames # <<>> /\ ret = "none"
  BY Zenon, <1>1, Running
<1>4. /\ Top \in Frames /\ Sound(Top.entry, Top.name) /\ db \in Dbs
      /\ nextId \in Nat /\ Top.name < nextId
  BY Zenon, <1>2, <1>3, Now, Parts
<1>5. ~Top.entry.auto
  BY Zenon, <1>2, <1>4, InsideFacts
<1>6. /\ d \in Dbs /\ Outside(Top, d) /\ Sound(d, nextId)
      /\ db = Marked(Top) => d = Top.entry
      /\ db = Opened(Top) => d = Done(Top)
  BY Zenon, <1>2, <1>4, <1>5, ReleaseInside
<1>7. "end" \in {"half", "end", "commit"} /\ Takes(d, "end")
  BY Zenon
<1> HIDE DEF d
<1>8. InOther(Top, d, "end", ret, interrupts, nextId)
  <2>1. Top.pc \in {"dropOpen", "drop"} => InDrop(Top, d, "end", nextId)
    BY <1>2, <1>5, <1>6 DEF InDrop
  <2>2. Top.pc = "release" => InRelease(Top, d, "end")
    BY <1>2, <1>5, <1>6 DEF InRelease
  <2> QED BY <1>2, <1>3, <2>1, <2>2 DEF InOther
<1>9. Position(Top, d, "end", ret, before, written, interrupts, nextId)
  BY Zenon, <1>1, <1>8 DEF Position
<1> QED BY Zenon, <1>3, <1>6, <1>7, <1>9, TakesStep

LEMMA CommitEffect ==
    ASSUME Inv, stmt \in {"start", "half"}, Top.pc \in {"dropOpen", "drop", "release"},
           Index(db, Top.name) # 0, Commits(db, Top.name),
           IF db.poisoned THEN Fails("other", FALSE, RolledBack(db))
           ELSE Takes([db EXCEPT !.auto = TRUE], "commit")
    PROVE  Inv' /\ Honest
<1> DEFINE d == [db EXCEPT !.auto = TRUE]
<1>1. Top.pc \in Cleanup /\ Top.pc # "body" /\ stmt # "none"
  BY DEF Cleanup
<1>2. /\ Sound(db, nextId) /\ ~Top.bare /\ Inside(Top, db)
      /\ Top.pc = "release" => db = Opened(Top)
      /\ Top.pc \in {"dropOpen", "drop"} =>
            /\ Top.cause \in Errors /\ (Top.pc = "dropOpen" => Top.cause # "rollback")
            /\ db = Marked(Top) \/ (Keeps(Top) /\ Top.kind = "write")
  BY Zenon, <1>1, AtStart
<1>3. frames # <<>> /\ ret = "none"
  BY Zenon, <1>1, Running
<1>4. /\ Top \in Frames /\ Sound(Top.entry, Top.name) /\ db \in Dbs
      /\ Top.bare <=> (Top.kind = "write" /\ Top.entry.auto)
  BY Zenon, <1>3, Now, Parts
<1>5. Top.entry.auto
  BY Zenon, <1>2, <1>4, InsideFacts
<1>6. /\ Top.pc = "release" => db = Opened(Top)
      /\ Top.pc \in {"dropOpen", "drop"} => db = Marked(Top)
  BY Zenon, <1>2, <1>4, <1>5
<1>7. ~db.poisoned
  <2>1. ~Top.entry.poisoned
    BY Zenon, <1>4, <1>5 DEF Sound
  <2>2. Marked(Top).poisoned = Top.entry.poisoned /\ Opened(Top).poisoned = Top.entry.poisoned
    BY Zenon, <1>4, MarkedFields, OpenedFields
  <2>3. db = Marked(Top) \/ db = Opened(Top)
    BY <1>6
  <2> QED BY Zenon, <2>1, <2>2, <2>3
<1>8. d \in Dbs
  BY Zenon, <1>4 DEF Dbs
<1>9. "commit" \in {"half", "end", "commit"} /\ Takes(d, "commit")
  BY Zenon, <1>7
<1>10. /\ db = Marked(Top) => d = [Marked(Top) EXCEPT !.auto = TRUE]
       /\ db = Opened(Top) => d = [Opened(Top) EXCEPT !.auto = TRUE]
  BY Zenon
<1> HIDE DEF d
<1>11. InOther(Top, d, "commit", ret, interrupts, nextId)
  <2>1. Top.pc \in {"dropOpen", "drop"} => InDrop(Top, d, "commit", nextId)
    <3> SUFFICES ASSUME Top.pc \in {"dropOpen", "drop"} PROVE InDrop(Top, d, "commit", nextId)
      OBVIOUS
    <3>1. d = [Marked(Top) EXCEPT !.auto = TRUE]
      BY Zenon, <1>6, <1>10
    <3> QED BY Zenon, <1>2, <1>5, <3>1 DEF InDrop
  <2>2. Top.pc = "release" => InRelease(Top, d, "commit")
    <3> SUFFICES ASSUME Top.pc = "release" PROVE InRelease(Top, d, "commit")
      OBVIOUS
    <3>1. d = [Opened(Top) EXCEPT !.auto = TRUE]
      BY Zenon, <1>6, <1>10
    <3> QED BY Zenon, <1>5, <3>1 DEF InRelease
  <2> QED BY <1>2, <1>3, <2>1, <2>2 DEF InOther
<1>12. Position(Top, d, "commit", ret, before, written, interrupts, nextId)
  BY Zenon, <1>1, <1>11 DEF Position
<1> QED BY Zenon, <1>3, <1>8, <1>9, <1>12, TakesStep

LEMMA GoneEffect ==
    ASSUME Inv, stmt \in {"start", "half"}, Top.pc \in Cleanup, Index(db, Top.name) = 0,
           Fails("other", TRUE, db)
    PROVE  Inv' /\ Honest
<1>1. stmt # "none"
  OBVIOUS
<1>2. frames # <<>> /\ ret = "none"
  BY Zenon, <1>1, Running
<1>3. /\ Sound(db, nextId) /\ ~Top.entry.auto
      /\ \/ Top.pc = "undoOpen" /\ Top.cause \in {"cancelled", "other"} /\ db = Top.entry
         \/ Top.pc = "undo" /\ db = Done(Top) /\ interrupts > 0
  BY Zenon, AtStart
<1>4. Top \in Frames /\ db \in Dbs /\ interrupts \in Nat
  BY Zenon, <1>2, Now, Parts
<1>5. Verdict(Top, db, "other", TRUE, interrupts, nextId)
  <2>1. CASE Top.pc = "undoOpen" /\ Top.cause \in {"cancelled", "other"} /\ db = Top.entry
    <3>1. Outside(Top, db)
      BY Zenon, <1>3, <1>4, <2>1, EntryOutside
    <3>2. Outcome(Top, db, Top.cause, interrupts)
      BY <2>1, <3>1 DEF Outcome
    <3> QED BY <2>1, <3>2 DEF Verdict
  <2>2. CASE Top.pc = "undo" /\ db = Done(Top) /\ interrupts > 0
    <3>1. Outside(Top, db)
      BY Zenon, <1>3, <1>4, <2>2, DoneOutside
    <3>2. Outcome(Top, db, "rollback", interrupts)
      BY <3>1 DEF Outcome, Outside
    <3> QED BY <2>2, <3>2 DEF Verdict
  <2> QED BY Zenon, <1>3, <2>1, <2>2
<1>6. Top.pc \in {"undoOpen", "dropOpen"} => Top.cause \in Results
  BY <1>3 DEF Results
<1>7. Top.pc \in {"undo", "drop"} => interrupts # 0
  BY <1>3, <1>4
<1> QED BY Zenon, <1>2, <1>3, <1>4, <1>5, <1>6, <1>7, FailsStep

LEMMA EffectStep ==
    ASSUME Inv, Effect
    PROVE  Inv' /\ Honest
<1>1. stmt \in {"start", "half"}
  BY Zenon DEF Effect
<1>2. CASE Top.pc = "open" /\ Takes(Savepoint(db, Top.name), "end")
  BY Zenon, <1>1, <1>2, OpenEffect
<1>3. CASE /\ Top.pc = "body"
           /\ Takes([db EXCEPT !.pages = @ \union {<<written, IF stmt = "half" THEN 2 ELSE 1>>}],
                    IF stmt = "half" THEN "end" ELSE "half")
  BY Zenon, <1>1, <1>3, BodyEffect
<1>4. CASE /\ Top.pc \in {"undoOpen", "undo"} /\ Index(db, Top.name) # 0
           /\ Takes(RollbackTo(db, Top.name), "end")
  BY Zenon, <1>1, <1>4, RollbackEffect
<1>5. CASE /\ Top.pc \in {"dropOpen", "drop", "release"} /\ Index(db, Top.name) # 0
           /\ ~Commits(db, Top.name) /\ Takes(Release(db, Top.name), "end")
  BY Zenon, <1>1, <1>5, ReleaseEffect
<1>6. CASE /\ Top.pc \in {"dropOpen", "drop", "release"} /\ Index(db, Top.name) # 0
           /\ Commits(db, Top.name)
           /\ IF db.poisoned THEN Fails("other", FALSE, RolledBack(db))
              ELSE Takes([db EXCEPT !.auto = TRUE], "commit")
  BY Zenon, <1>1, <1>6, CommitEffect
<1>7. CASE Top.pc \in Cleanup /\ Index(db, Top.name) = 0 /\ Fails("other", TRUE, db)
  BY Zenon, <1>1, <1>7, GoneEffect
<1> QED BY Zenon, <1>2, <1>3, <1>4, <1>5, <1>6, <1>7 DEF Effect

-----------------------------------------------------------------------------
(* A statement ends after its effect.                                       *)

LEMMA EntryOutcome ==
    ASSUME NEW f \in Frames, NEW r \in Errors, NEW i
    PROVE  Outcome(f, f.entry, r, i)
<1>1. ~f.entry.auto => Outside(f, f.entry)
  BY Zenon, EntryOutside
<1> QED BY <1>1 DEF Outcome, Errors, Results

LEMMA StoredRows ==
    ASSUME NEW f \in Frames, NEW g \in Frames, NEW w, g.writes = f.writes \union {w}
    PROVE  /\ RowsOf(g) = RowsOf(f) \union Stored("end", w)
           /\ f.writes = {} => RowsOf(g) = Stored("end", w)
<1>1. Stored("end", w) = {<<w, 1>>, <<w, 2>>}
  BY DEF Stored
<1>2. {w} \X {1, 2} = {<<w, 1>>, <<w, 2>>}
  OBVIOUS
<1>3. (f.writes \union {w}) \X {1, 2} = (f.writes \X {1, 2}) \union ({w} \X {1, 2})
  OBVIOUS
<1>4. f.writes = {} => f.writes \union {w} = {w}
  OBVIOUS
<1> QED BY Zenon, <1>1, <1>2, <1>3, <1>4 DEF RowsOf

\* The write of a callback has stored both of its rows.
LEMMA BodyFinish ==
    ASSUME Inv, stmt = "end", Top.pc = "body",
           NEW d, d = (IF db.auto THEN Committed(db) ELSE db),
           NEW g \in Frames, Twins(Top, g), g.writes = Top.writes \union {written}
    PROVE  d \in Dbs /\ Sound(d, nextId) /\ d = IF Top.bare THEN Done(g) ELSE Opened(g)
<1>1. stmt # "none"
  OBVIOUS
<1>2. /\ frames # <<>> /\ (Top.bare => Top.writes = {})
      /\ Base(Top) \in Dbs
      /\ db.disk = Base(Top).disk /\ db.auto = Base(Top).auto /\ db.saves = Base(Top).saves
      /\ db.poisoned = Base(Top).poisoned
      /\ db.pages = Base(Top).pages \union Stored("end", written)
  BY Zenon, <1>1, BodyRunning
<1>3. /\ Top \in Frames /\ Sound(Top.entry, Top.name) /\ Top.name <= nextId /\ nextId \in Nat
      /\ ~Top.bare => Top.name < nextId
      /\ Top.bare <=> (Top.kind = "write" /\ Top.entry.auto)
  BY Zenon, <1>2, Now
<1>4. /\ RowsOf(g) = RowsOf(Top) \union Stored("end", written)
      /\ Top.writes = {} => RowsOf(g) = Stored("end", written)
  BY Zenon, <1>3, StoredRows
<1>5. g.entry = Top.entry /\ g.name = Top.name /\ db \in Dbs
  BY Zenon, Parts DEF Twins
<1>6. CASE Top.bare
  <2>1. Base(Top) = Top.entry /\ Top.entry.auto /\ Top.writes = {}
    BY Zenon, <1>2, <1>3, <1>6 DEF Base
  <2>2. Top.entry.saves = <<>> /\ ~Top.entry.poisoned /\ Top.entry.pages = Top.entry.disk
    BY Zenon, <1>3, <2>1 DEF Sound
  <2>3. db.auto /\ d = Committed(db)
    BY Zenon, <1>2, <2>1
  <2>4. /\ d \in Dbs /\ d.disk = db.pages /\ d.pages = db.pages /\ d.auto = TRUE
        /\ d.saves = <<>> /\ d.poisoned = FALSE
    BY Zenon, <1>5, <2>3, CommittedFields
  <2>5. db.pages = Top.entry.pages \union RowsOf(g)
    BY Zenon, <1>2, <1>4, <2>1
  <2>6. /\ Done(g) \in Dbs /\ Done(g).pages = Top.entry.pages \union RowsOf(g)
        /\ Done(g).disk = Top.entry.disk \union RowsOf(g)
        /\ Done(g).auto = Top.entry.auto /\ Done(g).saves = Top.entry.saves
        /\ Done(g).poisoned = Top.entry.poisoned
    BY Zenon, <1>5, <2>1, DoneFields
  <2>7. Top.entry.auto \in BOOLEAN /\ Top.entry.poisoned \in BOOLEAN
    BY Zenon, <1>3, FrameTypes
  <2>8. d.auto = Done(g).auto /\ d.poisoned = Done(g).poisoned
    BY Zenon, <2>1, <2>2, <2>4, <2>6, <2>7
  <2>9. d.disk = Done(g).disk /\ d.pages = Done(g).pages /\ d.saves = Done(g).saves
    BY Zenon, <2>2, <2>4, <2>5, <2>6
  <2>10. d = Done(g)
    BY Zenon, <2>4, <2>6, <2>8, <2>9, SameDb
  <2>11. Sound(Done(g), nextId)
    BY Zenon, <1>3, <1>5, DoneSound
  <2> QED BY Zenon, <1>6, <2>4, <2>10, <2>11
<1>7. CASE ~Top.bare
  <2>1. Base(Top) = Opened(Top)
    BY Zenon, <1>7 DEF Base
  <2>2. /\ Opened(Top).disk = Top.entry.disk
        /\ Opened(Top).pages = Top.entry.pages \union RowsOf(Top)
        /\ Opened(Top).auto = FALSE /\ Opened(Top).poisoned = Top.entry.poisoned
        /\ Opened(Top).saves = Append(Top.entry.saves, SaveOf(Top))
    BY Zenon, <1>3, OpenedFields
  <2>3. /\ Opened(g) \in Dbs /\ Opened(g).disk = Top.entry.disk
        /\ Opened(g).pages = Top.entry.pages \union RowsOf(g)
        /\ Opened(g).auto = FALSE /\ Opened(g).poisoned = Top.entry.poisoned
        /\ Opened(g).saves = Append(Top.entry.saves, SaveOf(g))
    BY Zenon, <1>5, OpenedFields
  <2>4. SaveOf(g) = SaveOf(Top)
    BY Zenon, <1>5 DEF SaveOf
  <2>5. d = db
    BY <1>2, <2>1, <2>2
  <2>6. (Top.entry.pages \union RowsOf(Top)) \union Stored("end", written)
            = Top.entry.pages \union (RowsOf(Top) \union Stored("end", written))
    OBVIOUS
  <2>7. db.pages = Opened(g).pages
    BY Zenon, <1>2, <1>4, <2>1, <2>2, <2>3, <2>6
  <2>8. /\ db.disk = Opened(g).disk /\ db.auto = Opened(g).auto /\ db.saves = Opened(g).saves
        /\ db.poisoned = Opened(g).poisoned
    BY Zenon, <1>2, <2>1, <2>2, <2>3, <2>4
  <2>9. db = Opened(g)
    BY Zenon, <1>5, <2>3, <2>7, <2>8, SameDb
  <2>10. Sound(Opened(g), nextId)
    BY Zenon, <1>3, <1>5, <1>7, MarkedSound
  <2> QED BY Zenon, <1>5, <1>7, <2>5, <2>9, <2>10
<1> QED BY <1>6, <1>7

LEMMA BodyTwin ==
    ASSUME Inv, stmt # "none", Top.pc = "body"
    PROVE  \E g \in Frames : Twins(Top, g) /\ g.writes = Top.writes \union {written}
<1> DEFINE ws == Top.writes \union {written}
           g == [Top EXCEPT !.writes = ws]
<1>1. frames # <<>> /\ written \in 1..MaxWrites
  BY Zenon, BodyRunning
<1>2. Top \in Frames
  BY Zenon, <1>1, Now
<1>3. ws \subseteq 1..MaxWrites
  BY <1>1, <1>2 DEF Frames
<1> HIDE DEF ws
<1>4. g \in Frames /\ Twins(Top, g) /\ g.writes = ws
  BY <1>2, <1>3 DEF Frames, Twins
<1> HIDE DEF g
<1> QED BY Zenon, <1>4 DEF ws

LEMMA FinishStep ==
    ASSUME Inv, Finish
    PROVE  Inv' /\ Honest
<1>1. /\ stmt' = "none" /\ flag' = FALSE /\ before' = {} /\ Succeeded
      /\ signal' = signal /\ interrupts' = interrupts /\ delivered' = delivered
      /\ cancelled' = cancelled /\ nextId' = nextId /\ written' = written
      /\ \/ stmt = "end" /\ db' = IF db.auto /\ Top.pc = "body" THEN Committed(db) ELSE db
         \/ stmt = "commit" /\ db' = Committed(db)
  BY Zenon DEF Finish, Idle, counts
<1>2. Quits
  <2>1. before' \subseteq Rows /\ flag' \in BOOLEAN /\ ~flag'
    BY Zenon, <1>1
  <2>2. signal \in BOOLEAN /\ delivered \in BOOLEAN /\ (interrupts = 0 => ~signal)
    BY Zenon, Parts
  <2> QED BY Zenon, <1>1, <2>1, <2>2 DEF Quits
<1>3. stmt # "none" /\ stmt # "start" /\ stmt # "half"
  BY <1>1
<1>4. frames # <<>> /\ ret = "none" /\ Top \in Frames /\ db \in Dbs /\ "ok" \notin Errors
  BY Zenon, <1>3, Running, Now, Parts DEF Errors
<1>5. /\ Sound(Top.entry, Top.name) /\ Top.name <= nextId /\ nextId \in Nat
      /\ Top.entry \in Dbs /\ (~Top.bare => Top.name < nextId)
  BY Zenon, <1>4, Now, FrameFields
<1>6. Sound(Done(Top), nextId) /\ Sound(Top.entry, nextId) /\ Done(Top) \in Dbs /\ Marked(Top) \in Dbs
  BY Zenon, <1>4, <1>5, DoneSound, DoneFields, MarkedFields
<1>7. CASE Top.pc = "body"
  <2>1. stmt = "end" /\ written \in 1..MaxWrites
    <3>1. stmt \in {"start", "half", "end"} /\ written \in 1..MaxWrites
      BY Zenon, <1>3, <1>7, BodyRunning
    <3> QED BY <1>3, <3>1
  <2>2. db' = IF db.auto THEN Committed(db) ELSE db
    BY <1>1, <1>7, <2>1
  <2>3. \A g \in Frames : Twins(Top, g) /\ g.writes = Top.writes \union {written} =>
           db' \in Dbs /\ Sound(db', nextId) /\ db' = IF Top.bare THEN Done(g) ELSE Opened(g)
    BY Zenon, <1>7, <2>1, <2>2, BodyFinish
  <2>4. \E g \in Frames : Twins(Top, g) /\ g.writes = Top.writes \union {written}
    BY Zenon, <1>3, <1>7, BodyTwin
  <2>5. db' \in Dbs /\ Sound(db', nextId)
    BY Zenon, <2>3, <2>4
  <2>6. Reached(Top, db', written, interrupts, nextId)
    BY <1>7, <2>3 DEF Reached
  <2> QED BY Zenon, <1>1, <1>2, <1>3, <1>4, <2>1, <2>5, <2>6, SucceededStep
<1>8. CASE Top.pc # "body"
  <2>1. ~Top.bare /\ InOther(Top, db, stmt, ret, interrupts, nextId)
    BY Zenon, <1>3, <1>8, Running
  <2>2. stmt = "end" => db' = db
    BY <1>1, <1>8
  <2>3. stmt = "commit" => db' = Committed(db)
    BY <1>1
  <2>4. db' \in Dbs /\ Sound(db', nextId) /\ Reached(Top, db', written, interrupts, nextId)
    <3>1. CASE Top.pc = "open"
      <4>1. InOpen(Top, db, stmt)
        BY Zenon, <2>1, <3>1 DEF InOther
      <4>2. Top.writes = {} /\ db' = Marked(Top)
        BY <1>3, <2>2, <4>1 DEF InOpen
      <4>3. Sound(db', nextId) /\ db' \in Dbs
        BY Zenon, <1>4, <1>5, <1>6, <2>1, <4>2, MarkedSound
      <4> QED BY <2>1, <3>1, <4>2, <4>3 DEF Reached
    <3>2. CASE Top.pc = "undoOpen"
      <4>1. InUndoOpen(Top, db, stmt)
        BY Zenon, <2>1, <3>2 DEF InOther
      <4>2. Top.cause \in {"cancelled", "other"} /\ db' = Marked(Top)
        BY <1>3, <2>2, <4>1 DEF InUndoOpen
      <4>3. Sound(db', nextId) /\ db' \in Dbs
        BY Zenon, <1>4, <1>5, <1>6, <2>1, <4>2, MarkedSound
      <4> QED BY <2>1, <3>2, <4>2, <4>3 DEF Reached
    <3>3. CASE Top.pc = "undo"
      <4>1. InUndo(Top, db, stmt, interrupts, nextId)
        BY Zenon, <2>1, <3>3 DEF InOther
      <4>2. Top.cause \in Errors /\ db' = Marked(Top)
        BY <1>3, <2>2, <4>1 DEF InUndo
      <4>3. Sound(db', nextId) /\ db' \in Dbs
        BY Zenon, <1>4, <1>5, <1>6, <2>1, <4>2, MarkedSound
      <4> QED BY <2>1, <3>3, <4>2, <4>3 DEF Reached
    <3>4. CASE Top.pc = "release"
      <4>1. InRelease(Top, db, stmt)
        BY Zenon, <2>1, <3>4 DEF InOther
      <4>2. \/ stmt = "end" /\ db = Done(Top)
            \/ stmt = "commit" /\ Top.entry.auto /\ db = [Opened(Top) EXCEPT !.auto = TRUE]
        BY Zenon, <1>3, <4>1 DEF InRelease
      <4>3. db' = Done(Top)
        BY Zenon, <1>4, <1>5, <2>2, <2>3, <4>2, CommitFacts
      <4>4. Outcome(Top, db', "ok", interrupts)
        BY <4>3 DEF Outcome
      <4> QED BY <1>6, <3>4, <4>3, <4>4 DEF Reached
    <3>5. CASE Top.pc \in {"dropOpen", "drop"}
      <4>1. InDrop(Top, db, stmt, nextId)
        BY Zenon, <2>1, <3>5 DEF InOther
      <4>2. /\ Top.cause \in Errors
            /\ \/ stmt = "end" /\ db = Top.entry
               \/ stmt = "end" /\ Keeps(Top) /\ Outside(Top, db) /\ Sound(db, nextId)
               \/ stmt = "commit" /\ Top.entry.auto /\ db = [Marked(Top) EXCEPT !.auto = TRUE]
        BY Zenon, <1>3, <4>1 DEF InDrop
      <4>3. Top.cause \in Results
        BY <4>2 DEF Errors
      <4>4. CASE stmt = "end" /\ Keeps(Top) /\ Outside(Top, db) /\ Sound(db, nextId)
        <5>1. db' = db
          BY <2>2, <4>4
        <5>2. Outcome(Top, db, Top.cause, interrupts)
          BY <4>4 DEF Outcome, Keeps
        <5> QED BY <1>4, <3>5, <4>3, <4>4, <5>1, <5>2 DEF Reached
      <4>5. CASE ~(stmt = "end" /\ Keeps(Top) /\ Outside(Top, db) /\ Sound(db, nextId))
        <5>1. db' = Top.entry
          BY Zenon, <1>4, <1>5, <2>2, <2>3, <4>2, <4>5, CommitFacts
        <5>2. Outcome(Top, db', Top.cause, interrupts)
          BY Zenon, <1>4, <4>2, <5>1, EntryOutcome
        <5> QED BY <1>5, <1>6, <3>5, <4>3, <5>1, <5>2 DEF Reached
      <4> QED BY <4>4, <4>5
    <3> QED BY <1>4, <1>8, <3>1, <3>2, <3>3, <3>4, <3>5, FrameFields DEF Cleanup
  <2> QED BY Zenon, <1>1, <1>2, <1>3, <1>4, <1>8, <2>4, SucceededStep
<1> QED BY <1>7, <1>8

-----------------------------------------------------------------------------
(* A statement is interrupted, or fails.                                    *)

LEMMA SameRollback ==
    ASSUME NEW d \in Dbs, NEW e \in Dbs, d.disk = e.disk
    PROVE  RolledBack(d) = RolledBack(e)
<1> DEFINE a == RolledBack(d)
           b == RolledBack(e)
<1>1. /\ a \in Dbs /\ a.disk = d.disk /\ a.pages = d.disk /\ a.auto = TRUE /\ a.saves = <<>>
      /\ a.poisoned = FALSE
  BY Zenon, RolledBackFields
<1>2. /\ b \in Dbs /\ b.disk = e.disk /\ b.pages = e.disk /\ b.auto = TRUE /\ b.saves = <<>>
      /\ b.poisoned = FALSE
  BY Zenon, RolledBackFields
<1> HIDE DEF a, b
<1>3. a.disk = b.disk /\ a.pages = b.pages /\ a.auto = b.auto /\ a.saves = b.saves
      /\ a.poisoned = b.poisoned
  BY Zenon, <1>1, <1>2
<1>4. a = b
  BY Zenon, <1>1, <1>2, <1>3, SameDb
<1> QED BY Zenon, <1>4 DEF a, b

\* The transaction of f with other pages.
LEMMA Variation ==
    ASSUME NEW f \in Frames, Sound(f.entry, f.name), NEW next \in Nat, f.name < next, NEW d \in Dbs,
           d.disk = f.entry.disk, ~d.auto, d.saves = Opened(f).saves, d.poisoned \/ Whole(d.pages)
    PROVE  Sound(d, next) /\ Inside(f, d)
<1>1. d.saves = Append(f.entry.saves, SaveOf(f)) /\ d.saves = Marked(f).saves
  BY Zenon, OpenedFields, MarkedFields
<1>2. Whole(d.disk)
  BY Zenon DEF Sound
<1>3. Sound(d, next)
  BY Zenon, <1>1, <1>2, MarkedNames
<1>4. Len(d.saves) \in Nat
  BY DEF Dbs
<1>5. Len(d.saves) <= Len(d.saves)
  BY <1>4
<1>6. Above(Marked(f).saves, d)
  BY Zenon, <1>1, <1>5 DEF Above
<1> QED BY Zenon, <1>3, <1>6 DEF Inside

LEMMA InsideOutside ==
    ASSUME NEW f \in Frames, NEW d, Inside(f, d), ~f.entry.auto, d \in Dbs
    PROVE  Outside(f, d)
<1> DEFINE s == f.entry.saves
           t == Marked(f).saves
           n == Len(s)
           m == Len(d.saves)
<1>1. s \in Seq(Saves) /\ n \in Nat /\ SaveOf(f) \in Saves /\ t = Append(s, SaveOf(f))
  BY Zenon, FrameTypes, MarkedFields
<1>2. Len(t) = n + 1 /\ \A i \in 1..n : t[i] = s[i]
  <2> DEFINE u == Append(s, SaveOf(f))
  <2>1. t = u /\ s \in Seq(Saves) /\ SaveOf(f) \in Saves
    BY Zenon, <1>1
  <2>2. Len(u) = n + 1 /\ \A i \in 1..n : u[i] = s[i]
    <3> HIDE DEF s, t
    <3> QED BY <2>1
  <2> HIDE DEF t, u, s, n
  <2> QED BY Zenon, <2>1, <2>2
<1>3. Len(t) <= m /\ \A i \in 1..Len(t) : d.saves[i] = t[i]
  BY Zenon DEF Inside, Above
<1>4. m \in Nat
  BY DEF Dbs
<1> HIDE DEF n, m, t, s
<1>5. n <= m /\ \A i \in 1..n : i \in 1..n + 1
  BY <1>1, <1>2, <1>3, <1>4
<1>6. \A i \in 1..n : d.saves[i] = s[i]
  BY Zenon, <1>2, <1>3, <1>5
<1>7. Above(f.entry.saves, d)
  BY Zenon, <1>5, <1>6 DEF Above, n, m, s
<1> QED BY Zenon, <1>7 DEF Inside, Outside

LEMMA RollbackOutcome ==
    ASSUME NEW f, NEW d, NEW i, d.disk = f.entry.disk,
           ~f.entry.auto => Outside(f, d) \/ d = RolledBack(f.entry)
    PROVE  Outcome(f, d, "rollback", i)
BY DEF Outcome

\* A write of a callback that did not end well.
LEMMA BodyFails ==
    ASSUME Inv, stmt # "none", Top.pc = "body", NEW d, NEW e,
           \/ d \in AbortedWrites(db, before) /\ e = "cancelled"
           \/ d \in FailedWrites(db, before, written) /\ e = "other"
           \/ stmt = "end" /\ db.auto /\ d \in UncertainCommits(db) /\ e = "other"
    PROVE  /\ d \in Dbs /\ Sound(d, nextId)
           /\ IF Top.bare THEN d.auto /\ (e = "cancelled" => d = Top.entry)
              ELSE Inside(Top, d) \/ (e # "cancelled" /\ d = RolledBack(Top.entry))
<1>1. /\ frames # <<>> /\ (Top.bare => Top.writes = {}) /\ before = Base(Top).pages
      /\ written \in 1..MaxWrites
      /\ db.disk = Base(Top).disk /\ db.auto = Base(Top).auto /\ db.saves = Base(Top).saves
      /\ db.poisoned = Base(Top).poisoned
  BY Zenon, BodyRunning
<1>2. /\ Top \in Frames /\ Sound(Top.entry, Top.name) /\ Top.name <= nextId /\ nextId \in Nat
      /\ ~Top.bare => Top.name < nextId
      /\ Top.bare <=> (Top.kind = "write" /\ Top.entry.auto)
  BY Zenon, <1>1, Now
<1>3. db \in Dbs /\ before \subseteq Rows /\ Top.entry \in Dbs
  BY Zenon, <1>2, Parts, FrameFields
<1>4. {<<written, 3>>} \subseteq Rows
  BY <1>1 DEF Rows
<1>5. CASE Top.bare
  <2>1. Base(Top) = Top.entry /\ Top.entry.auto
    BY Zenon, <1>2, <1>5 DEF Base
  <2>2. ~Top.entry.poisoned /\ Top.entry.pages = Top.entry.disk /\ Whole(Top.entry.disk)
    BY Zenon, <1>2, <2>1 DEF Sound
  <2>3. RolledBack(db) = Top.entry
    <3>1. RolledBack(db) = RolledBack(Top.entry)
      BY Zenon, <1>1, <1>3, <2>1, SameRollback
    <3> QED BY Zenon, <1>2, <2>1, <3>1, CommitFacts
  <2>4. Sound(Top.entry, nextId)
    BY Zenon, <1>2, DoneSound
  <2> DEFINE p == before \union {<<written, 3>>}
             x == [db EXCEPT !.pages = p]
             c == Committed(x)
  <2>5. p \subseteq Rows /\ Whole(p)
    <3>1. Whole(before)
      BY Zenon, <1>1, <2>1, <2>2
    <3>2. Whole(p)
      BY Zenon, <1>1, <1>2, <3>1, WholeFacts
    <3> QED BY <1>3, <1>4, <3>2
  <2> HIDE DEF p
  <2>6. x \in Dbs /\ x.pages = p
    BY <1>3, <2>5 DEF Dbs
  <2> HIDE DEF x
  <2>7. /\ c \in Dbs /\ c.disk = p /\ c.pages = p /\ c.auto = TRUE /\ c.saves = <<>>
        /\ c.poisoned = FALSE
    BY Zenon, <2>6, CommittedFields
  <2> HIDE DEF c
  <2>8. c.pages = c.disk /\ Whole(c.disk) /\ ~c.poisoned
    BY Zenon, <2>5, <2>7
  <2>9. Sound(c, nextId)
    BY Zenon, <2>7, <2>8, AutoSound
  <2>10. db.auto
    BY Zenon, <1>1, <2>1
  <2> DEFINE k == Committed(db)
  <2>11. d = Top.entry \/ (e = "other" /\ d = c) \/ (stmt = "end" /\ e = "other" /\ d = k)
    <3>1. AbortedWrites(db, before) = {RolledBack(db)}
      BY Zenon, <2>10 DEF AbortedWrites
    <3>2. FailedWrites(db, before, written) = {RolledBack(db), c}
      BY Zenon, <2>10 DEF FailedWrites, c, x, p
    <3>3. UncertainCommits(db) = {RolledBack(db), k}
      BY Zenon DEF UncertainCommits
    <3> QED BY Zenon, <2>3, <3>1, <3>2, <3>3
  <2>12. CASE d = Top.entry
    BY <1>3, <1>5, <2>1, <2>4, <2>12
  <2>13. CASE e = "other" /\ d = c
    BY <1>5, <2>7, <2>9, <2>13
  <2>14. CASE stmt = "end" /\ e = "other" /\ d = k
    <3>1. k = IF db.auto THEN Committed(db) ELSE db
      BY Zenon, <2>10
    <3>2. k.auto = TRUE
      BY Zenon, <1>3, CommittedFields
    <3> HIDE DEF k
    <3>3. PICK g \in Frames : Twins(Top, g) /\ g.writes = Top.writes \union {written}
      BY Zenon, BodyTwin
    <3>4. k \in Dbs /\ Sound(k, nextId)
      BY Zenon, <2>14, <3>1, <3>3, BodyFinish
    <3> QED BY <1>5, <2>14, <3>2, <3>4
  <2> QED BY <2>11, <2>12, <2>13, <2>14
<1>6. CASE ~Top.bare
  <2>1. Base(Top) = Opened(Top) /\ Top.name < nextId
    BY Zenon, <1>2, <1>6 DEF Base
  <2>2. /\ Opened(Top).disk = Top.entry.disk /\ Opened(Top).auto = FALSE /\ Opened(Top) \in Dbs
    BY Zenon, <1>2, OpenedFields
  <2>3. ~db.auto /\ db.disk = Top.entry.disk /\ db.saves = Opened(Top).saves
        /\ db.poisoned = Opened(Top).poisoned
    BY <1>1, <2>1, <2>2
  <2>4. Opened(Top).poisoned \/ Whole(Opened(Top).pages)
    BY Zenon, <1>2, <2>1, MarkedSound DEF Sound
  <2> DEFINE p == before \union {<<written, 3>>}
             x == [db EXCEPT !.pages = before]
             y == [db EXCEPT !.pages = p]
             z == [db EXCEPT !.poisoned = TRUE]
  <2>5. p \subseteq Rows /\ (Opened(Top).poisoned \/ Whole(p))
    <3>1. Whole(before) => Whole(p)
      BY Zenon, <1>1, <1>2, WholeFacts
    <3>2. p \subseteq Rows
      BY <1>3, <1>4
    <3> QED BY Zenon, <1>1, <2>1, <2>4, <3>1, <3>2
  <2> HIDE DEF p
  <2>6. /\ x \in Dbs /\ x.disk = db.disk /\ x.auto = db.auto /\ x.saves = db.saves
        /\ x.poisoned = db.poisoned /\ x.pages = before
    BY Zenon, <1>3 DEF Dbs
  <2>7. /\ y \in Dbs /\ y.disk = db.disk /\ y.auto = db.auto /\ y.saves = db.saves
        /\ y.poisoned = db.poisoned /\ y.pages = p
    BY Zenon, <1>3, <2>5 DEF Dbs
  <2>8. /\ z \in Dbs /\ z.disk = db.disk /\ z.auto = db.auto /\ z.saves = db.saves
        /\ z.poisoned = TRUE
    BY Zenon, <1>3 DEF Dbs
  <2>9. RolledBack(db) = RolledBack(Top.entry)
    BY Zenon, <1>3, <2>3, SameRollback
  <2>10. d \in {x, z} \/ (e = "other" /\ d \in {x, y, RolledBack(db)})
    <3>1. AbortedWrites(db, before) = {x, z}
      BY Zenon, <2>3 DEF AbortedWrites
    <3>2. FailedWrites(db, before, written) = {x, y, RolledBack(db)}
      BY Zenon, <2>3 DEF FailedWrites, p
    <3> QED BY Zenon, <2>3, <3>1, <3>2
  <2> HIDE DEF x, y, z
  <2>11. CASE d \in {x, y, z}
    <3>1. /\ d \in Dbs /\ d.disk = Top.entry.disk /\ ~d.auto /\ d.saves = Opened(Top).saves
      BY Zenon, <2>3, <2>6, <2>7, <2>8, <2>11
    <3>2. d.poisoned \/ Whole(d.pages)
      <4>1. CASE d = x
        BY Zenon, <1>1, <2>1, <2>3, <2>4, <2>6, <4>1
      <4>2. CASE d = y
        BY Zenon, <2>3, <2>5, <2>7, <4>2
      <4>3. CASE d = z
        BY <2>8, <4>3
      <4> QED BY <2>11, <4>1, <4>2, <4>3
    <3>3. Sound(d, nextId) /\ Inside(Top, d)
      BY Zenon, <1>2, <2>1, <3>1, <3>2, Variation
    <3> QED BY Zenon, <1>6, <3>1, <3>3
  <2>12. CASE e = "other" /\ d = RolledBack(db)
    <3>1. d = RolledBack(Top.entry) /\ e # "cancelled"
      BY <2>9, <2>12
    <3>2. Sound(Top.entry, nextId)
      BY Zenon, <1>2, DoneSound
    <3>3. d \in Dbs /\ Sound(d, nextId)
      BY Zenon, <1>3, <3>1, <3>2, EndSound
    <3> QED BY Zenon, <1>6, <3>1, <3>3
  <2> QED BY Zenon, <2>10, <2>11, <2>12
<1> QED BY <1>5, <1>6

\* A statement other than a write that is interrupted leaves what Failed needs.
LEMMA OpenInterrupted ==
    ASSUME Inv, stmt # "none", Top.pc = "open"
    PROVE  /\ stmt # "commit" /\ Sound(db, nextId)
           /\ Verdict(Top, db, "cancelled", FALSE, interrupts, nextId)
           /\ stmt = "start" => db = Top.entry
           /\ stmt = "start" => Verdict(Top, db, "other", FALSE, interrupts, nextId)
<1>1. Top.pc # "body"
  OBVIOUS
<1>2. frames # <<>> /\ ~Top.bare /\ InOther(Top, db, stmt, ret, interrupts, nextId)
  BY Zenon, <1>1, Running
<1>3. /\ Top \in Frames /\ Sound(Top.entry, Top.name) /\ nextId \in Nat
      /\ Top.name < nextId /\ Top.name <= nextId
  BY Zenon, <1>2, Now
<1>4. InOpen(Top, db, stmt)
  BY Zenon, <1>2 DEF InOther
<1>5. /\ stmt # "commit" /\ (stmt = "start" => db = Top.entry)
      /\ db = Top.entry \/ db = Marked(Top)
  BY <1>4 DEF InOpen
<1>6. Sound(db, nextId)
  BY Zenon, <1>3, <1>5, DoneSound, MarkedSound
<1>7. ~Marked(Top).auto
  <2>1. Marked(Top).auto = FALSE
    BY Zenon, <1>3, MarkedFields
  <2> QED BY <2>1
<1>8. ASSUME NEW e \in {"cancelled", "other"}
      PROVE Verdict(Top, db, e, FALSE, interrupts, nextId)
  <2>1. e \in Errors /\ e # "rollback"
    BY DEF Errors, Results
  <2>2. CASE db.auto
    <3>1. db = Top.entry
      BY Zenon, <1>5, <1>7, <2>2
    <3>2. Outcome(Top, db, e, interrupts)
      BY Zenon, <1>3, <2>1, <3>1, EntryOutcome
    <3> QED BY <2>2, <3>2 DEF Verdict
  <2>3. CASE ~db.auto
    <3>1. Towards(Top, db, e, "undoOpen", interrupts, nextId)
      BY <1>2, <1>5, <2>1, <2>3 DEF Towards
    <3> QED BY <2>3, <3>1 DEF Verdict
  <2> QED BY Zenon, <2>2, <2>3
<1>9. "cancelled" \in {"cancelled", "other"} /\ "other" \in {"cancelled", "other"}
  OBVIOUS
<1> QED BY Zenon, <1>5, <1>6, <1>8, <1>9

LEMMA ReleaseInterrupted ==
    ASSUME Inv, stmt # "none", Top.pc = "release", flag,
           NEW d, d \in (IF stmt = "commit" THEN UncertainCommits(db) ELSE {db})
    PROVE  d \in Dbs /\ Sound(d, nextId) /\ Verdict(Top, d, "cancelled", FALSE, interrupts, nextId)
<1>1. Top.pc # "body"
  OBVIOUS
<1>2. frames # <<>> /\ ~Top.bare /\ InOther(Top, db, stmt, ret, interrupts, nextId)
  BY Zenon, <1>1, Running
<1>3. /\ Top \in Frames /\ Sound(Top.entry, Top.name) /\ nextId \in Nat
      /\ Top.name < nextId /\ Top.name <= nextId
  BY Zenon, <1>2, Now
<1>4. InRelease(Top, db, stmt)
  BY Zenon, <1>2 DEF InOther
<1>5. interrupts # 0 /\ interrupts \in Nat
  BY Zenon, Parts
<1>6. interrupts > 0
  BY <1>5
<1>7. "cancelled" \in Errors /\ "cancelled" # "rollback"
  BY DEF Errors, Results
<1>8. Done(Top) \in Dbs /\ Opened(Top) \in Dbs /\ Top.entry \in Dbs /\ Opened(Top).auto = FALSE
      /\ Done(Top).auto = Top.entry.auto
  BY Zenon, <1>3, DoneFields, OpenedFields, FrameFields
<1>9. Sound(Done(Top), nextId) /\ Sound(Top.entry, nextId)
      /\ Sound(Opened(Top), nextId) /\ Inside(Top, Opened(Top))
  BY Zenon, <1>3, DoneSound, MarkedSound
<1>10. \/ stmt # "commit" /\ d = Opened(Top)
       \/ stmt # "commit" /\ ~Top.entry.auto /\ d = Done(Top)
       \/ Top.entry.auto /\ (d = Done(Top) \/ d = Top.entry)
  <2>1. CASE stmt = "commit"
    <3>1. Top.entry.auto /\ db = [Opened(Top) EXCEPT !.auto = TRUE]
      BY <1>4, <2>1 DEF InRelease
    <3>2. Committed(db) = Done(Top) /\ RolledBack(db) = Top.entry
      BY Zenon, <1>3, <3>1, CommitFacts
    <3> QED BY Zenon, <2>1, <3>1, <3>2 DEF UncertainCommits
  <2>2. CASE stmt # "commit"
    <3>1. d = db
      BY Zenon, <2>2
    <3> QED BY <1>4, <2>2, <3>1 DEF InRelease
  <2> QED BY <2>1, <2>2
<1>11. CASE d = Opened(Top)
  <2>1. ~d.auto
    BY <1>8, <1>11
  <2>2. Towards(Top, d, "cancelled", "undo", interrupts, nextId)
    BY <1>2, <1>7, <1>9, <1>11 DEF Towards
  <2> QED BY <1>8, <1>9, <1>11, <2>1, <2>2 DEF Verdict
<1>12. CASE ~Top.entry.auto /\ d = Done(Top)
  <2>1. ~d.auto
    BY Zenon, <1>8, <1>12
  <2>2. Towards(Top, d, "cancelled", "undo", interrupts, nextId)
    BY <1>2, <1>6, <1>7, <1>12 DEF Towards
  <2> QED BY <1>8, <1>9, <1>12, <2>1, <2>2 DEF Verdict
<1>13. CASE Top.entry.auto /\ (d = Done(Top) \/ d = Top.entry)
  <2>1. d.auto
    BY Zenon, <1>8, <1>13
  <2>2. Outcome(Top, d, "cancelled", interrupts)
    BY <1>5, <1>13 DEF Outcome
  <2>3. d \in Dbs /\ Sound(d, nextId)
    BY Zenon, <1>8, <1>9, <1>13
  <2> QED BY <2>1, <2>2, <2>3 DEF Verdict
<1> QED BY Zenon, <1>10, <1>11, <1>12, <1>13

\* The other cleanups: whatever they left, the transaction is the one f found.
LEMMA CleanupEnds ==
    ASSUME Inv, stmt # "none", Top.pc \in {"undoOpen", "dropOpen", "undo", "drop"},
           NEW d, d \in (IF stmt = "commit" THEN UncertainCommits(db) ELSE {db})
    PROVE  /\ d \in Dbs /\ Sound(d, nextId) /\ d.disk = Top.entry.disk
           /\ Outcome(Top, d, "rollback", interrupts)
<1>1. Top.pc # "body"
  OBVIOUS
<1>2. frames # <<>> /\ ~Top.bare /\ InOther(Top, db, stmt, ret, interrupts, nextId)
  BY Zenon, <1>1, Running
<1>3. /\ Top \in Frames /\ Sound(Top.entry, Top.name) /\ nextId \in Nat
      /\ Top.name < nextId /\ Top.name <= nextId
  BY Zenon, <1>2, Now
<1>4. db \in Dbs
  BY Zenon, Parts
<1>5. /\ Sound(Done(Top), nextId) /\ Sound(Top.entry, nextId) /\ Top.entry \in Dbs
      /\ Sound(Marked(Top), nextId) /\ Inside(Top, Marked(Top))
  BY Zenon, <1>3, DoneSound, MarkedSound, FrameFields
<1>6. \/ stmt # "commit" /\ d = db /\ Sound(db, nextId)
         /\ \/ db = Top.entry \/ Inside(Top, db) \/ Outside(Top, db)
            \/ ~Top.entry.auto /\ db = Done(Top)
      \/ Top.entry.auto /\ d = Top.entry
  <2>1. stmt # "commit" => d = db
    BY Zenon
  <2>2. CASE Top.pc = "undoOpen"
    <3>1. InUndoOpen(Top, db, stmt)
      BY Zenon, <1>2, <2>2 DEF InOther
    <3>2. stmt # "commit" /\ (db = Top.entry \/ db = Marked(Top))
      BY <3>1 DEF InUndoOpen
    <3> QED BY Zenon, <1>5, <2>1, <3>2
  <2>3. CASE Top.pc = "undo"
    <3>1. InUndo(Top, db, stmt, interrupts, nextId)
      BY Zenon, <1>2, <2>3 DEF InOther
    <3>2. stmt # "commit"
          /\ \/ Inside(Top, db) /\ Sound(db, nextId)
             \/ ~Top.entry.auto /\ db = Done(Top)
             \/ db = Marked(Top)
      BY <3>1 DEF InUndo
    <3> QED BY Zenon, <1>5, <2>1, <3>2
  <2>4. CASE Top.pc \in {"dropOpen", "drop"}
    <3>1. InDrop(Top, db, stmt, nextId)
      BY Zenon, <1>2, <2>4 DEF InOther
    <3>2. CASE stmt = "commit"
      <4>1. Top.entry.auto /\ db = [Marked(Top) EXCEPT !.auto = TRUE]
        BY <3>1, <3>2 DEF InDrop
      <4>2. Committed(db) = Top.entry /\ RolledBack(db) = Top.entry
        BY Zenon, <1>3, <4>1, CommitFacts
      <4> QED BY Zenon, <3>2, <4>1, <4>2 DEF UncertainCommits
    <3>3. CASE stmt # "commit"
      <4>1. \/ db = Marked(Top) \/ (Inside(Top, db) /\ Sound(db, nextId)) \/ db = Top.entry
            \/ (Outside(Top, db) /\ Sound(db, nextId))
        BY <3>1, <3>3 DEF InDrop
      <4> QED BY Zenon, <1>5, <2>1, <3>3, <4>1
    <3> QED BY <3>2, <3>3
  <2> QED BY <2>2, <2>3, <2>4
<1>7. d \in Dbs /\ Sound(d, nextId)
  BY Zenon, <1>4, <1>5, <1>6
<1>8. ~Top.entry.auto => Outside(Top, d)
  BY Zenon, <1>3, <1>4, <1>6, EntryOutside, DoneOutside, InsideOutside
<1>9. d.disk = Top.entry.disk
  <2>1. ~Top.entry.auto => Done(Top).disk = Top.entry.disk
    BY Zenon, <1>3, DoneFields
  <2>2. Inside(Top, d) \/ Outside(Top, d) => d.disk = Top.entry.disk
    BY Zenon DEF Inside, Outside
  <2>3. \/ d = Top.entry \/ Inside(Top, d) \/ Outside(Top, d)
        \/ ~Top.entry.auto /\ d = Done(Top)
    BY Zenon, <1>6
  <2> QED BY Zenon, <2>1, <2>2, <2>3
<1>10. Outcome(Top, d, "rollback", interrupts)
  BY Zenon, <1>8, <1>9, RollbackOutcome
<1> QED BY Zenon, <1>7, <1>9, <1>10

LEMMA InterruptedStep ==
    ASSUME Inv, Interrupted
    PROVE  Inv' /\ Honest
<1>1. /\ stmt # "none" /\ (Requested \/ flag) /\ delivered' = (delivered \/ Requested)
      /\ stmt' = "none" /\ flag' = FALSE /\ before' = {}
      /\ signal' = signal /\ interrupts' = interrupts
      /\ cancelled' = cancelled /\ nextId' = nextId /\ written' = written
      /\ db' \in CASE stmt = "commit" -> UncertainCommits(db)
               [] Top.pc = "body" -> AbortedWrites(db, before)
               [] OTHER -> {db}
      /\ Failed("cancelled", FALSE, db')
  BY Zenon DEF Interrupted, Idle, counts
<1>2. Quits
  <2>1. before' \subseteq Rows /\ flag' \in BOOLEAN /\ ~flag' /\ delivered' \in BOOLEAN
    BY Zenon, <1>1, Parts
  <2>2. signal \in BOOLEAN /\ (interrupts = 0 => ~signal)
    BY Zenon, Parts
  <2> QED BY Zenon, <1>1, <2>1, <2>2 DEF Quits
<1>3. frames # <<>> /\ Top \in Frames /\ db \in Dbs
  BY Zenon, <1>1, Running, Now, Parts
<1>4. Top.pc \in Cleanup => flag
  BY Zenon, <1>1, <1>3, Guards
<1>5. db' \in Dbs /\ Sound(db', nextId) /\ Verdict(Top, db', "cancelled", FALSE, interrupts, nextId)
  <2>1. CASE Top.pc = "body"
    <3>1. stmt # "commit"
      <4>1. stmt \in {"start", "half", "end"}
        BY Zenon, <1>1, <2>1, BodyRunning
      <4> QED BY <4>1
    <3>2. db' \in AbortedWrites(db, before)
      BY <1>1, <2>1, <3>1
    <3>3. /\ db' \in Dbs /\ Sound(db', nextId)
          /\ IF Top.bare THEN db'.auto /\ ("cancelled" = "cancelled" => db' = Top.entry)
             ELSE Inside(Top, db') \/ ("cancelled" # "cancelled" /\ db' = RolledBack(Top.entry))
      BY Zenon, <1>1, <2>1, <3>2, BodyFails
    <3> QED BY <2>1, <3>3 DEF Verdict
  <2>2. CASE Top.pc = "open"
    <3>1. /\ stmt # "commit" /\ Sound(db, nextId)
          /\ Verdict(Top, db, "cancelled", FALSE, interrupts, nextId)
      BY Zenon, <1>1, <2>2, OpenInterrupted
    <3>2. db' = db
      BY <1>1, <2>2, <3>1
    <3> QED BY Zenon, <1>3, <3>1, <3>2
  <2>3. CASE Top.pc = "release"
    <3>1. db' \in IF stmt = "commit" THEN UncertainCommits(db) ELSE {db}
      BY <1>1, <2>3
    <3>2. flag
      BY <1>4, <2>3 DEF Cleanup
    <3> QED BY Zenon, <1>1, <2>3, <3>1, <3>2, ReleaseInterrupted
  <2>4. CASE Top.pc \in {"undoOpen", "dropOpen", "undo", "drop"}
    <3>1. db' \in IF stmt = "commit" THEN UncertainCommits(db) ELSE {db}
      BY <1>1, <2>4
    <3>2. db' \in Dbs /\ Sound(db', nextId) /\ Outcome(Top, db', "rollback", interrupts)
      BY Zenon, <1>1, <2>4, <3>1, CleanupEnds
    <3> QED BY <2>4, <3>2 DEF Verdict
  <2> QED BY Zenon, <1>3, <2>1, <2>2, <2>3, <2>4, FrameFields DEF Cleanup
<1>6. "cancelled" \in {"cancelled", "other"} /\ FALSE \in BOOLEAN
  OBVIOUS
<1>7. interrupts = 0 => Top.pc \notin Cleanup
  BY Zenon, <1>4, Parts
<1>8. interrupts = 0 /\ Top.pc \in Cleanup \ {"release"} => Blame \/ FALSE
  BY Zenon, <1>7
<1> QED BY Zenon, <1>1, <1>2, <1>3, <1>5, <1>6, <1>8, FailedStep

\* A statement of an operation fails before it has done anything, and may roll
\* the transaction back.
LEMMA StartFails ==
    ASSUME Inv, stmt = "start", Top.pc \in Cleanup \union {"open"}, NEW d, d \in {db, RolledBack(db)}
    PROVE  d \in Dbs /\ Sound(d, nextId) /\ Verdict(Top, d, "other", FALSE, interrupts, nextId)
<1>1. stmt # "none" /\ stmt # "commit" /\ Top.pc # "body"
  BY DEF Cleanup
<1>2. frames # <<>> /\ ~Top.bare /\ Top \in Frames /\ db \in Dbs
  BY Zenon, <1>1, Running, Now, Parts
<1>3. /\ Sound(Top.entry, Top.name) /\ nextId \in Nat /\ Top.name <= nextId /\ Top.name < nextId
      /\ Top.entry \in Dbs
  BY Zenon, <1>2, Now, FrameFields
<1>4. Sound(Top.entry, nextId) /\ Sound(Opened(Top), nextId) /\ Inside(Top, Opened(Top))
  BY Zenon, <1>2, <1>3, DoneSound, MarkedSound
<1>5. "other" \in Errors /\ "other" # "rollback" /\ "other" # "cancelled" /\ "other" # "ok"
  BY DEF Errors, Results
<1>6. Top.pc = "release" => db = Opened(Top)
  BY Zenon, AtStart DEF Cleanup
<1>7. /\ RolledBack(Top.entry) \in Dbs /\ Sound(RolledBack(Top.entry), nextId)
      /\ RolledBack(Top.entry).auto = TRUE /\ RolledBack(Top.entry).disk = Top.entry.disk
  BY Zenon, <1>3, <1>4, EndSound, RolledBackFields
<1>8. Top.pc \in {"undoOpen", "dropOpen", "undo", "drop"} =>
         Sound(db, nextId) /\ db.disk = Top.entry.disk /\ Outcome(Top, db, "rollback", interrupts)
  BY Zenon, <1>1, CleanupEnds
<1>9. Top.pc = "open" => /\ db = Top.entry
                         /\ Verdict(Top, db, "other", FALSE, interrupts, nextId)
  BY Zenon, <1>1, OpenInterrupted
<1>10. Top.pc \in {"open", "release", "undoOpen", "dropOpen", "undo", "drop"}
  BY Zenon DEF Cleanup
<1>11. CASE d = db
  <2>1. CASE Top.pc = "open"
    BY Zenon, <1>2, <1>4, <1>9, <1>11, <2>1
  <2>2. CASE Top.pc = "release"
    <3>1. d = Opened(Top) /\ ~Opened(Top).auto
      BY Zenon, <1>4, <1>6, <1>11, <2>2 DEF Inside
    <3>2. Towards(Top, d, "other", "undo", interrupts, nextId)
      BY <1>2, <1>4, <1>5, <3>1 DEF Towards
    <3>3. Verdict(Top, d, "other", FALSE, interrupts, nextId)
      BY <2>2, <3>1, <3>2 DEF Verdict
    <3> QED BY Zenon, <1>2, <1>4, <1>11, <3>1, <3>3
  <2>3. CASE Top.pc \in {"undoOpen", "dropOpen", "undo", "drop"}
    <3>1. Outcome(Top, d, "rollback", interrupts)
      BY Zenon, <1>8, <1>11, <2>3
    <3>2. Verdict(Top, d, "other", FALSE, interrupts, nextId)
      BY <2>3, <3>1 DEF Verdict
    <3> QED BY Zenon, <1>2, <1>8, <1>11, <2>3, <3>2
  <2> QED BY <1>10, <2>1, <2>2, <2>3
<1>12. CASE d = RolledBack(db)
  <2>1. db.disk = Top.entry.disk
    <3>1. Opened(Top).disk = Top.entry.disk
      BY Zenon, <1>4 DEF Inside
    <3> QED BY <1>6, <1>8, <1>9, <1>10, <3>1
  <2>2. d = RolledBack(Top.entry)
    BY Zenon, <1>2, <1>3, <1>12, <2>1, SameRollback
  <2>3. d.auto /\ d.disk = Top.entry.disk
    BY <1>7, <2>2
  <2>4. Outcome(Top, d, "other", interrupts)
    BY Zenon, <1>5, <2>2 DEF Outcome
  <2>5. Outcome(Top, d, "rollback", interrupts)
    BY Zenon, <2>2, <2>3, RollbackOutcome
  <2>6. Verdict(Top, d, "other", FALSE, interrupts, nextId)
    BY <1>1, <2>3, <2>4, <2>5 DEF Verdict
  <2> QED BY Zenon, <1>7, <2>2, <2>6
<1> QED BY <1>11, <1>12

\* The commit of an operation fails, and may have been logged.
LEMMA CommitFails ==
    ASSUME Inv, stmt = "commit", NEW d, d \in UncertainCommits(db)
    PROVE  d \in Dbs /\ Sound(d, nextId) /\ Verdict(Top, d, "other", FALSE, interrupts, nextId)
<1>1. stmt # "none"
  OBVIOUS
<1>2. frames # <<>> /\ Top \in Frames
  BY Zenon, <1>1, Running, Now
<1>3. /\ Sound(Top.entry, Top.name) /\ nextId \in Nat /\ Top.name <= nextId /\ Top.entry \in Dbs
  BY Zenon, <1>2, Now, FrameFields
<1>4. Sound(Top.entry, nextId) /\ Sound(Done(Top), nextId) /\ Done(Top) \in Dbs
      /\ Done(Top).auto = Top.entry.auto
  BY Zenon, <1>2, <1>3, DoneSound, DoneFields
<1>5. Top.pc # "body" /\ Top.pc # "open"
  <2>1. Top.pc = "body" => stmt \in {"start", "half", "end"}
    BY Zenon, <1>1, BodyRunning
  <2>2. Top.pc = "open" => stmt # "commit"
    BY Zenon, <1>1, OpenInterrupted
  <2> QED BY <2>1, <2>2
<1>6. CASE Top.pc = "release"
  <2>1. InRelease(Top, db, stmt)
    BY Zenon, <1>1, <1>5, <1>6, Running DEF InOther
  <2>2. Top.entry.auto /\ db = [Opened(Top) EXCEPT !.auto = TRUE]
    BY <2>1 DEF InRelease
  <2>3. Committed(db) = Done(Top) /\ RolledBack(db) = Top.entry
    BY Zenon, <1>2, <1>3, <2>2, CommitFacts
  <2>4. d = Done(Top) \/ d = Top.entry
    BY Zenon, <2>3 DEF UncertainCommits
  <2>5. d.auto /\ d \in Dbs /\ Sound(d, nextId)
    BY Zenon, <1>3, <1>4, <2>2, <2>4
  <2>6. Outcome(Top, d, "other", interrupts)
    BY <1>6, <2>2, <2>4 DEF Outcome
  <2> QED BY <1>6, <2>5, <2>6 DEF Verdict
<1>7. CASE Top.pc \in {"undoOpen", "dropOpen", "undo", "drop"}
  <2>1. d \in IF stmt = "commit" THEN UncertainCommits(db) ELSE {db}
    BY Zenon
  <2>2. d \in Dbs /\ Sound(d, nextId) /\ Outcome(Top, d, "rollback", interrupts)
    BY Zenon, <1>1, <1>7, <2>1, CleanupEnds
  <2> QED BY <1>7, <2>2 DEF Verdict
<1> QED BY Zenon, <1>2, <1>5, <1>6, <1>7, FrameFields DEF Cleanup

LEMMA EngineErrorStep ==
    ASSUME Inv, EngineError
    PROVE  Inv' /\ Honest
<1>1. \/ /\ stmt = "start" /\ Top.pc \in Cleanup \union {"open"}
         /\ \E d \in {db, RolledBack(db)} : Fails("other", FALSE, d)
      \/ /\ stmt # "none" /\ Top.pc = "body"
         /\ \E d \in FailedWrites(db, before, written) : Fails("other", FALSE, d)
      \/ stmt = "commit" /\ \E d \in UncertainCommits(db) : Fails("other", FALSE, d)
      \/ /\ stmt = "end" /\ Top.pc = "body" /\ db.auto
         /\ \E d \in UncertainCommits(db) : Fails("other", FALSE, d)
  BY DEF EngineError, At
<1>2. frames # <<>> /\ Blame
  <2>1. stmt # "none"
    BY <1>1
  <2> QED BY Zenon, <2>1, Running DEF Blame
<1>3. ASSUME NEW d \in Dbs, Fails("other", FALSE, d), Sound(d, nextId),
             Verdict(Top, d, "other", FALSE, interrupts, nextId)
      PROVE  Inv' /\ Honest
  BY Zenon, <1>2, <1>3, FailsStep
<1>4. CASE /\ stmt = "start" /\ Top.pc \in Cleanup \union {"open"}
           /\ \E d \in {db, RolledBack(db)} : Fails("other", FALSE, d)
  BY Zenon, <1>3, <1>4, StartFails
<1>5. ASSUME stmt # "none", Top.pc = "body", NEW d, Fails("other", FALSE, d),
             \/ d \in FailedWrites(db, before, written)
             \/ stmt = "end" /\ db.auto /\ d \in UncertainCommits(db)
      PROVE  Inv' /\ Honest
  <2>1. /\ d \in Dbs /\ Sound(d, nextId)
        /\ IF Top.bare THEN d.auto /\ ("other" = "cancelled" => d = Top.entry)
           ELSE Inside(Top, d) \/ ("other" # "cancelled" /\ d = RolledBack(Top.entry))
    BY Zenon, <1>5, BodyFails
  <2>2. Verdict(Top, d, "other", FALSE, interrupts, nextId)
    BY <1>5, <2>1 DEF Verdict
  <2> QED BY Zenon, <1>3, <1>5, <2>1, <2>2
<1>6. CASE stmt = "commit" /\ \E d \in UncertainCommits(db) : Fails("other", FALSE, d)
  BY Zenon, <1>3, <1>6, CommitFails
<1>7. stmt = "end" => stmt # "none"
  OBVIOUS
<1> QED BY Zenon, <1>1, <1>4, <1>5, <1>6, <1>7

\* What is on disk is whole at every point of an operation.
LEMMA DiskWhole ==
    ASSUME Inv, frames # <<>>
    PROVE  Whole(db.disk)
<1>1. /\ Top \in Frames /\ Sound(Top.entry, Top.name) /\ nextId \in Nat /\ Top.name <= nextId
      /\ Position(Top, db, stmt, ret, before, written, interrupts, nextId)
  BY Zenon, Now
<1>2. Whole(Top.entry.disk) /\ Whole(Done(Top).disk)
  BY Zenon, <1>1, DoneSound DEF Sound
<1>3. /\ Opened(Top).disk = Top.entry.disk /\ Marked(Top).disk = Top.entry.disk
      /\ Opened(Top) \in Dbs /\ Marked(Top) \in Dbs
  BY Zenon, <1>1, OpenedFields, MarkedFields
<1>4. Base(Top).disk = Top.entry.disk /\ Base(Top) \in Dbs
  BY Zenon, <1>1, <1>3, BaseFields DEF Base
<1>5. ASSUME NEW a, a \in Dbs, NEW x
      PROVE  /\ [a EXCEPT !.auto = x].disk = a.disk
             /\ [a EXCEPT !.pages = @ \union x].disk = a.disk
  BY Zenon, <1>5 DEF Dbs
<1>6. CASE Top.pc = "body"
  <2>1. InBody(Top, db, stmt, ret, before, written, nextId)
    BY Zenon, <1>1, <1>6 DEF Position
  <2>2. \/ db = Base(Top) \/ db = Done(Top) \/ db = Opened(Top) \/ Sound(db, nextId)
        \/ db = [Base(Top) EXCEPT !.pages = @ \union Stored(stmt, written)]
    BY Zenon, <2>1 DEF InBody
  <2>3. [Base(Top) EXCEPT !.pages = @ \union Stored(stmt, written)].disk = Base(Top).disk
    BY Zenon, <1>4, <1>5
  <2> QED BY Zenon, <1>2, <1>3, <1>4, <2>2, <2>3 DEF Sound
<1>7. CASE Top.pc # "body"
  <2>1. InOther(Top, db, stmt, ret, interrupts, nextId)
    BY Zenon, <1>1, <1>7 DEF Position
  <2>2. \/ db = Top.entry \/ db = Marked(Top) \/ db = Opened(Top) \/ db = Done(Top) \/ Sound(db, nextId)
        \/ db = [Marked(Top) EXCEPT !.auto = TRUE] \/ db = [Opened(Top) EXCEPT !.auto = TRUE]
    <3>1. Top.pc \in Cleanup \union {"open", "body"}
      BY Zenon, <1>1, FrameFields
    <3>2. CASE Top.pc = "open"
      BY Zenon, <2>1, <3>2 DEF InOther, InOpen
    <3>3. CASE Top.pc = "undoOpen"
      BY Zenon, <2>1, <3>3 DEF InOther, InUndoOpen
    <3>4. CASE Top.pc \in {"dropOpen", "drop"}
      BY Zenon, <2>1, <3>4 DEF InOther, InDrop
    <3>5. CASE Top.pc = "release"
      BY Zenon, <2>1, <3>5 DEF InOther, InRelease
    <3>6. CASE Top.pc = "undo"
      BY Zenon, <2>1, <3>6 DEF InOther, InUndo
    <3> QED BY <1>7, <3>1, <3>2, <3>3, <3>4, <3>5, <3>6 DEF Cleanup
  <2> QED BY Zenon, <1>2, <1>3, <1>5, <2>2 DEF Sound
<1> QED BY <1>6, <1>7

-----------------------------------------------------------------------------
(* The invariant, and what it shows.                                        *)

LEMMA InitInv ==
    ASSUME Init
    PROVE  Inv
<1>1. /\ db = NewDb /\ stmt = "none" /\ before = {} /\ flag = FALSE /\ signal = FALSE
      /\ interrupts = 0 /\ frames = <<>> /\ ret = "none" /\ last = "none" /\ active = {}
      /\ delivered = FALSE /\ suspended = 0 /\ cancelled = {} /\ nextId = 0 /\ written = 0
  BY Zenon DEF Init
<1>2. /\ db.disk = {} /\ db.pages = {} /\ db.auto = TRUE /\ db.saves = <<>> /\ db.poisoned = FALSE
  BY <1>1 DEF NewDb
<1>3. db \in Dbs
  <2>1. <<>> \in Seq(Saves)
    OBVIOUS
  <2> QED BY <1>1, <2>1 DEF Dbs, NewDb
<1>4. Sound(db, nextId)
  <2>1. Whole(db.disk) /\ ~db.poisoned /\ db.pages = db.disk
    BY <1>2 DEF Whole
  <2> QED BY Zenon, <1>2, <2>1, AutoSound
<1>5. Types
  <2>1. frames \in Seq(Frames) /\ Len(frames) = 0
    BY <1>1
  <2>2. nextId \in 0..MaxIds /\ written \in 0..MaxWrites
    BY <1>1, BoundAssumption
  <2>3. suspended = IF active # {} /\ Top.pc \in Cleanup THEN 1 ELSE 0
    BY <1>1
  <2>4. TypeOK
    BY Zenon, <1>1, <1>2, <2>1, <2>2, <2>3 DEF TypeOK, Results
  <2>5. flag \in BOOLEAN /\ signal \in BOOLEAN /\ interrupts \in Nat /\ delivered \in BOOLEAN
    BY Zenon, <1>1
  <2> QED BY Zenon, <1>3, <2>1, <2>4, <2>5 DEF Types
<1>6. Nested
  BY <1>1 DEF Nested
<1>7. Here
  BY Zenon, <1>1, <1>4 DEF Here
<1>8. Undisturbed
  BY <1>1 DEF Undisturbed
<1> QED BY <1>5, <1>6, <1>7, <1>8 DEF Inv

LEMMA NextInv ==
    ASSUME Inv, [Next]_vars
    PROVE  Inv' /\ Honest
<1>1. ASSUME NEW kind \in {"atomic", "write"}, NEW token \in Tokens \union {NoToken},
             Enter(kind, token)
      PROVE  Inv' /\ Honest
  BY Zenon, <1>1, EnterStep
<1>2. ASSUME NEW token \in Tokens, Cancel(token)
      PROVE  Inv' /\ Honest
  BY Zenon, <1>2, CancelStep
<1> QED BY Zenon, <1>1, <1>2, BeginStep, BeginWriteStep, EffectStep, FinishStep, InterruptedStep,
           EngineErrorStep, CallbackReturnsStep, AfterCallbackStep, TransactionStep,
           InterruptTestStep, InterruptStoreStep, StutterStep DEF Next

LEMMA Invariance == Spec => []Inv
<1>1. Inv /\ [Next]_vars => Inv'
  BY NextInv
<1> QED BY InitInv, <1>1, PTL DEF Spec

\* For any nesting, number of writes, cancellations and interrupts: no write is
\* committed in half, also after an operation whose cleanup was interrupted
\* (execute.rs, op_savepoint, op_auto_commit), and the cleanup count is exact.
THEOREM WholeCommits == Spec => []CommittedWhole
<1>1. Inv => CommittedWhole
  <2> SUFFICES ASSUME Inv PROVE CommittedWhole
    OBVIOUS
  <2>1. TypeOK
    BY DEF Inv, Types
  <2>2. Whole(db.disk)
    <3>1. CASE frames = <<>>
      BY Zenon, <3>1, Quiet DEF Sound
    <3>2. CASE frames # <<>>
      BY <3>2, DiskWhole
    <3> QED BY <3>1, <3>2
  <2> QED BY Zenon, <2>1, <2>2 DEF CommittedWhole, Whole
<1> QED BY <1>1, Invariance, PTL

\* For any nesting, number of writes, cancellations, interrupts and engine errors:
\* what an operation reports is what became of its writes. They are there when it
\* succeeds. They are gone when it fails, unless its own RELEASE was committing the
\* transaction, whose outcome is uncertain. With FDB_ROLLBACK it has committed
\* nothing (lib.rs, savepoint_on_stack; request.rs, execute_atomic_request).
THEOREM OutcomeIsTrue == Spec => OutcomeTold
<1> DEFINE Told ==
      Returned =>
        /\ last' = "ok" => Complete(Top)
        /\ last' = "cancelled" => Restored(Top) \/ Published(Top)
        /\ (last' = "other" /\ Top.kind = "atomic") =>
               Restored(Top) \/ db' = RolledBack(Top.entry) \/ Published(Top)
        /\ last' = "rollback" => /\ db'.disk = Top.entry.disk
                                 /\ db'.auto \/ Above(Top.entry.saves, db')
<1>1. Inv /\ [Next]_vars => [Told]_vars
  <2> SUFFICES ASSUME Inv, [Next]_vars PROVE Told
    OBVIOUS
  <2>1. Honest
    BY NextInv
  <2> QED BY Zenon, <2>1 DEF Honest
<1> QED BY <1>1, Invariance, PTL DEF Spec, OutcomeTold

\* For any nesting and number of writes, cancellations and engine errors: without
\* the interrupt handle, an operation cancelled through its tokens leaves the
\* database exactly as it found it, and FDB_ROLLBACK comes only from an engine
\* error of a cleanup statement, of this operation or of one inside it.
THEOREM CancelIsClean == Spec => CancelRestores
<1> DEFINE Clean ==
      (Returned /\ interrupts = 0) =>
        /\ last' = "cancelled" => Restored(Top)
        /\ last' = "rollback" => "rollback" \in {ret, Top.cause} \/ EngineError
<1>1. Inv /\ [Next]_vars => [Clean]_vars
  <2> SUFFICES ASSUME Inv, [Next]_vars PROVE Clean
    OBVIOUS
  <2>1. Honest
    BY NextInv
  <2> QED BY Zenon, <2>1 DEF Honest, Blame
<1> QED BY <1>1, Invariance, PTL DEF Spec, CancelRestores
=============================================================================
