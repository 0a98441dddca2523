---------------------- MODULE AtomicOperationsInvariant ----------------------
(***************************************************************************)
(* Proofs about AtomicOperations, for any depth of nesting, number of      *)
(* writes, tokens and interrupts.  Everything an operation can tell its    *)
(* caller is told relative to the state in which it was entered, so the    *)
(* inductive invariant says, for each point of an operation and of its     *)
(* running statement, how the database differs from that state; a frame    *)
(* below the top is in its callback, and the operation above it was        *)
(* entered in exactly the state its callback had made.                     *)
(***************************************************************************)
EXTENDS AtomicOperations, TLAPS

Whole(rows) == \A w \in 1..MaxWrites : <<w, 1>> \in rows <=> <<w, 2>> \in rows

\* The types of the records.
Saves == [name : Nat, starts : BOOLEAN, pages : SUBSET Rows, poisoned : BOOLEAN]
Dbs == [disk : SUBSET Rows, pages : SUBSET Rows, auto : BOOLEAN, saves : Seq(Saves),
        poisoned : BOOLEAN]
Frames ==
    [kind : {"atomic", "write"}, outer : SUBSET Tokens, entry : Dbs, bare : BOOLEAN,
     name : Nat, pc : Cleanup \union {"open", "body"}, writes : SUBSET (1..MaxWrites),
     cause : Results \union {"none"}]

\* A database between two statements: what is not marked as poisoned is whole,
\* the savepoints have different names, all used before the next one.
Sound(d, next) ==
    /\ Whole(d.disk)
    /\ d.poisoned \/ Whole(d.pages)
    /\ d.auto => d.saves = <<>> /\ ~d.poisoned /\ d.pages = d.disk
    /\ \A i \in 1..Len(d.saves) :
          /\ d.saves[i].poisoned \/ Whole(d.saves[i].pages)
          /\ d.saves[i].name < next
    /\ \A i, j \in 1..Len(d.saves) : i < j => d.saves[i].name < d.saves[j].name

\* The database with the savepoint of f, as it was entered or with its writes.
Marked(f) == Savepoint(f.entry, f.name)
Opened(f) == [Marked(f) EXCEPT !.pages = @ \union RowsOf(f)]

\* The database when f is done.
Done(f) ==
    [f.entry EXCEPT !.pages = @ \union RowsOf(f),
                    !.disk = IF f.entry.auto THEN @ \union RowsOf(f) ELSE @]

\* The transaction is the one in which f was entered, with its savepoint or
\* at least with those that were there before.
Inside(f, d)  == d.disk = f.entry.disk /\ ~d.auto /\ Above(Marked(f).saves, d)
Outside(f, d) == d.disk = f.entry.disk /\ ~d.auto /\ Above(f.entry.saves, d) /\ ~f.entry.auto

Errors == Results \ {"ok"}

\* The rows of write w that the running statement has stored.
Stored(s, w) == CASE s = "half" -> {<<w, 1>>}
                  [] s = "end" -> {<<w, 1>>, <<w, 2>>}
                  [] OTHER -> {}

\* The callback of f, with database d, statement s and result r: before a write,
\* after it, after an error, and while it stores its rows.
Base(f) == IF f.bare THEN f.entry ELSE Opened(f)

InBody(f, d, s, r, b, w, next) ==
    \/ s = "none" /\ r = "none" /\ d = Base(f) /\ (f.bare => f.writes = {})
    \/ s = "none" /\ r = "ok" /\ d = IF f.bare THEN Done(f) ELSE Opened(f)
    \/ /\ s = "none" /\ r \in Errors /\ Sound(d, next)
       /\ IF f.bare THEN d.auto /\ r # "rollback" /\ (r = "cancelled" => d = f.entry)
          ELSE Inside(f, d) \/ (r # "cancelled" /\ d = RolledBack(f.entry))
    \/ /\ s \in {"start", "half", "end"} /\ r = "none" /\ w \in 1..MaxWrites
       /\ b = Base(f).pages /\ d = [Base(f) EXCEPT !.pages = @ \union Stored(s, w)]
       /\ f.bare => f.writes = {}

\* The cleanup of f keeps what it wrote: the error of a native write.
Keeps(f) == f.pc = "drop" /\ f.kind = "write" /\ f.cause = "other"

\* Outside the callback, statement s before its effect, after it, and in a commit;
\* i is the number of interrupts.
InOpen(f, d, s) ==
    /\ f.writes = {}
    /\ (s \in {"none", "start"} /\ d = f.entry) \/ (s = "end" /\ d = Marked(f))

InUndoOpen(f, d, s) ==
    /\ f.cause \in {"cancelled", "other"}
    /\ \/ s \in {"none", "start"} /\ d = f.entry /\ ~f.entry.auto
       \/ s \in {"none", "start", "end"} /\ d = Marked(f)

InDrop(f, d, s, next) ==
    /\ f.cause \in Errors /\ (f.pc = "dropOpen" => f.cause # "rollback")
    /\ \/ s \in {"none", "start"} /\ d = Marked(f)
       \/ s \in {"none", "start"} /\ Keeps(f) /\ Inside(f, d) /\ Sound(d, next)
       \/ s = "end" /\ ~f.entry.auto /\ d = f.entry
       \/ s = "end" /\ Keeps(f) /\ Outside(f, d) /\ Sound(d, next)
       \/ s = "commit" /\ f.entry.auto /\ d = [Marked(f) EXCEPT !.auto = TRUE]

InRelease(f, d, s) ==
    \/ s \in {"none", "start"} /\ d = Opened(f)
    \/ s = "end" /\ ~f.entry.auto /\ d = Done(f)
    \/ s = "commit" /\ f.entry.auto /\ d = [Opened(f) EXCEPT !.auto = TRUE]

InUndo(f, d, s, i, next) ==
    /\ f.cause \in Errors
    /\ \/ s \in {"none", "start"} /\ Inside(f, d) /\ Sound(d, next)
       \/ s \in {"none", "start"} /\ ~f.entry.auto /\ d = Done(f) /\ i > 0
       \/ s = "end" /\ d = Marked(f)

InOther(f, d, s, r, i, next) ==
    /\ r = "none" /\ ~f.bare
    /\ f.pc = "open" => InOpen(f, d, s)
    /\ f.pc = "undoOpen" => InUndoOpen(f, d, s)
    /\ f.pc \in {"dropOpen", "drop"} => InDrop(f, d, s, next)
    /\ f.pc = "release" => InRelease(f, d, s)
    /\ f.pc = "undo" => InUndo(f, d, s, i, next)

Position(f, d, s, r, b, w, i, next) ==
    IF f.pc = "body" THEN InBody(f, d, s, r, b, w, next) ELSE InOther(f, d, s, r, i, next)

\* The operations in progress.
Nested ==
    /\ frames # <<>> => frames[1].outer = {}
    /\ \A k \in 1..Len(frames) :
          LET f == frames[k] IN
          /\ Sound(f.entry, f.name)
          /\ f.name <= nextId /\ (~f.bare => f.name < nextId)
          /\ f.bare <=> (f.kind = "write" /\ f.entry.auto)
    /\ \A k \in 1..Len(frames) - 1 :
          /\ frames[k].pc = "body" /\ frames[k].kind = "atomic"
          /\ frames[k + 1].entry = Opened(frames[k])

\* Where the innermost operation is.
Here ==
    IF frames = <<>>
    THEN active = {} /\ stmt = "none" /\ ret = "none" /\ Sound(db, nextId)
    ELSE Position(Top, db, stmt, ret, before, written, interrupts, nextId)

\* Nobody has used the interrupt handle.
Undisturbed == interrupts = 0 => ~flag /\ ~signal

Types ==
    /\ TypeOK
    /\ db \in Dbs /\ frames \in Seq(Frames)
    /\ flag \in BOOLEAN /\ signal \in BOOLEAN /\ interrupts \in Nat /\ delivered \in BOOLEAN

Inv == Types /\ Nested /\ Here /\ Undisturbed

\* Where FDB_ROLLBACK may come from without the interrupt handle.
Blame == "rollback" \in {ret, Top.cause} \/ EngineError

\* What OutcomeTold and CancelRestores ask of a step.
Honest ==
    Returned =>
       /\ last' = "ok" => Complete(Top)
       /\ last' = "cancelled" => Restored(Top) \/ Published(Top)
       /\ (last' = "other" /\ Top.kind = "atomic") =>
              Restored(Top) \/ db' = RolledBack(Top.entry) \/ Published(Top)
       /\ last' = "rollback" =>
              db'.disk = Top.entry.disk /\ (db'.auto \/ Above(Top.entry.saves, db'))
       /\ interrupts = 0 =>
              (last' = "cancelled" => Restored(Top)) /\ (last' = "rollback" => Blame)

-----------------------------------------------------------------------------
(* The records an operation makes of the state it was entered in.           *)

SaveOf(f) ==
    [name |-> f.name, starts |-> f.entry.auto, pages |-> f.entry.pages,
     poisoned |-> f.entry.poisoned]

LEMMA FrameTypes ==
    ASSUME NEW f \in Frames
    PROVE  /\ f.entry \in Dbs /\ f.entry.saves \in Seq(Saves) /\ f.name \in Nat
           /\ f.entry.pages \subseteq Rows /\ f.entry.disk \subseteq Rows
           /\ f.entry.auto \in BOOLEAN /\ f.entry.poisoned \in BOOLEAN
           /\ Len(f.entry.saves) \in Nat
           /\ f.writes \subseteq 1..MaxWrites /\ RowsOf(f) \subseteq Rows
           /\ SaveOf(f) \in Saves
<1>1. f.entry \in Dbs /\ f.name \in Nat /\ f.writes \subseteq 1..MaxWrites
  BY DEF Frames
<1>2. /\ f.entry.saves \in Seq(Saves) /\ f.entry.pages \subseteq Rows
      /\ f.entry.disk \subseteq Rows /\ f.entry.auto \in BOOLEAN /\ f.entry.poisoned \in BOOLEAN
  BY <1>1 DEF Dbs
<1>3. RowsOf(f) \subseteq Rows
  BY <1>1 DEF RowsOf, Rows
<1>4. SaveOf(f) \in Saves
  BY <1>1, <1>2 DEF SaveOf, Saves
<1> QED BY <1>1, <1>2, <1>3, <1>4

LEMMA MarkedFields ==
    ASSUME NEW f \in Frames
    PROVE  /\ Marked(f) \in Dbs
           /\ Marked(f).disk = f.entry.disk /\ Marked(f).pages = f.entry.pages
           /\ Marked(f).auto = FALSE /\ Marked(f).poisoned = f.entry.poisoned
           /\ Marked(f).saves = Append(f.entry.saves, SaveOf(f))
<1>1. Append(f.entry.saves, SaveOf(f)) \in Seq(Saves)
  BY FrameTypes
<1>2. Marked(f) = [f.entry EXCEPT !.saves = Append(f.entry.saves, SaveOf(f)), !.auto = FALSE]
  BY DEF Marked, Savepoint, SaveOf
<1> HIDE DEF Marked
<1> QED BY Zenon, <1>1, <1>2, FrameTypes DEF Dbs

LEMMA OpenedFields ==
    ASSUME NEW f \in Frames
    PROVE  /\ Opened(f) \in Dbs
           /\ Opened(f).disk = f.entry.disk /\ Opened(f).pages = f.entry.pages \union RowsOf(f)
           /\ Opened(f).auto = FALSE /\ Opened(f).poisoned = f.entry.poisoned
           /\ Opened(f).saves = Append(f.entry.saves, SaveOf(f))
<1>1. f.entry.pages \union RowsOf(f) \subseteq Rows
  BY FrameTypes
<1> QED BY Zenon, <1>1, MarkedFields DEF Opened, Dbs

LEMMA DoneFields ==
    ASSUME NEW f \in Frames
    PROVE  /\ Done(f) \in Dbs
           /\ Done(f).pages = f.entry.pages \union RowsOf(f)
           /\ Done(f).disk = IF f.entry.auto THEN f.entry.disk \union RowsOf(f) ELSE f.entry.disk
           /\ Done(f).auto = f.entry.auto /\ Done(f).saves = f.entry.saves
           /\ Done(f).poisoned = f.entry.poisoned
BY Zenon, FrameTypes DEF Done, Dbs

\* Two databases with the same fields are the same.
LEMMA SameDb ==
    ASSUME NEW d \in Dbs, NEW e \in Dbs, d.disk = e.disk, d.pages = e.pages, d.auto = e.auto,
           d.saves = e.saves, d.poisoned = e.poisoned
    PROVE  d = e
BY DEF Dbs

LEMMA EndedFields ==
    ASSUME NEW d \in Dbs
    PROVE  /\ Ended(d) \in Dbs /\ Ended(d).disk = d.disk /\ Ended(d).pages = d.pages
           /\ Ended(d).auto = TRUE /\ Ended(d).saves = <<>> /\ Ended(d).poisoned = FALSE
<1>1. <<>> \in Seq(Saves)
  OBVIOUS
<1> QED BY Zenon, <1>1 DEF Ended, Dbs

LEMMA RolledBackFields ==
    ASSUME NEW d \in Dbs
    PROVE  /\ RolledBack(d) \in Dbs /\ RolledBack(d).disk = d.disk /\ RolledBack(d).pages = d.disk
           /\ RolledBack(d).auto = TRUE /\ RolledBack(d).saves = <<>>
           /\ RolledBack(d).poisoned = FALSE
<1>1. d.disk \subseteq Rows
  BY DEF Dbs
<1> QED BY Zenon, <1>1, EndedFields DEF RolledBack, Dbs

LEMMA CommittedFields ==
    ASSUME NEW d \in Dbs
    PROVE  /\ Committed(d) \in Dbs /\ Committed(d).disk = d.pages /\ Committed(d).pages = d.pages
           /\ Committed(d).auto = TRUE /\ Committed(d).saves = <<>>
           /\ Committed(d).poisoned = FALSE
<1>1. d.pages \subseteq Rows
  BY DEF Dbs
<1> QED BY Zenon, <1>1, EndedFields DEF Committed, Dbs

-----------------------------------------------------------------------------
(* Savepoints: a name is found where it was put, and what ROLLBACK TO,       *)
(* RELEASE and COMMIT make of a database in which f is in progress.          *)

\* An element of a sequence, and the indices of a sequence one longer.
LEMMA ElementOf ==
    ASSUME NEW S, NEW s \in Seq(S), NEW i \in 1..Len(s)
    PROVE  s[i] \in S
OBVIOUS

LEMMA OneMore ==
    ASSUME NEW n \in Nat
    PROVE  n + 1 \in 1..n + 1 /\ \A i \in 1..n : i \in 1..n + 1
OBVIOUS

LEMMA AppendFacts ==
    ASSUME NEW S, NEW s \in Seq(S), NEW e \in S
    PROVE  /\ Append(s, e) \in Seq(S) /\ Len(s) \in Nat
           /\ Len(Append(s, e)) = Len(s) + 1
           /\ \A i \in 1..Len(s) : Append(s, e)[i] = s[i]
           /\ Append(s, e)[Len(s) + 1] = e
           /\ SubSeq(Append(s, e), 1, Len(s)) = s
           /\ SubSeq(Append(s, e), 1, Len(s) + 1) = Append(s, e)
<1>1. /\ Append(s, e) \in Seq(S) /\ Len(s) \in Nat
      /\ Len(Append(s, e)) = Len(s) + 1
      /\ \A i \in 1..Len(s) : Append(s, e)[i] = s[i]
      /\ Append(s, e)[Len(s) + 1] = e
  OBVIOUS
<1>2. SubSeq(Append(s, e), 1, Len(s)) = s
  BY <1>1
<1>3. SubSeq(Append(s, e), 1, Len(s) + 1) = Append(s, e)
  BY <1>1
<1> QED BY <1>1, <1>2, <1>3

LEMMA PrefixFacts ==
    ASSUME NEW S, NEW s \in Seq(S), NEW t \in Seq(S), Len(s) <= Len(t),
           \A i \in 1..Len(s) : t[i] = s[i]
    PROVE  SubSeq(t, 1, Len(s)) = s
OBVIOUS

LEMMA SubSeqFacts ==
    ASSUME NEW S, NEW s \in Seq(S), NEW m \in 0..Len(s)
    PROVE  /\ SubSeq(s, 1, m) \in Seq(S) /\ Len(SubSeq(s, 1, m)) = m
           /\ \A i \in 1..m : SubSeq(s, 1, m)[i] = s[i]
OBVIOUS

LEMMA IndexFacts ==
    ASSUME NEW d \in Dbs, NEW next, Sound(d, next), NEW n \in Nat
    PROVE  /\ (\A i \in 1..Len(d.saves) : d.saves[i].name # n) => Index(d, n) = 0
           /\ \A i \in 1..Len(d.saves) : d.saves[i].name = n => Index(d, n) = i
<1>1. d.saves \in Seq(Saves) /\ Len(d.saves) \in Nat
  BY DEF Dbs
<1>2. \A i \in 1..Len(d.saves) : d.saves[i].name \in Nat
  <2>1. \A i \in 1..Len(d.saves) : d.saves[i] \in Saves
    BY <1>1
  <2> QED BY <2>1 DEF Saves
<1> DEFINE I == {i \in 1..Len(d.saves) : d.saves[i].name = n}
<1>3. Index(d, n) = IF I = {} THEN 0 ELSE CHOOSE i \in I : \A j \in I : j <= i
  BY DEF Index
<1>4. ASSUME NEW i \in 1..Len(d.saves), d.saves[i].name = n PROVE Index(d, n) = i
  <2>1. \A j \in I : j = i
    <3> SUFFICES ASSUME NEW j \in 1..Len(d.saves), d.saves[j].name = n, j # i PROVE FALSE
      OBVIOUS
    <3>1. i < j \/ j < i
      BY <1>1
    <3> QED BY <1>2, <1>4, <3>1 DEF Sound
  <2>2. I = {i}
    BY <1>4, <2>1
  <2>3. i \in Nat
    BY <1>1
  <2>4. (CHOOSE k \in {i} : \A j \in {i} : j <= k) = i
    BY <2>3
  <2> QED BY Zenon, <1>3, <2>2, <2>4
<1> QED BY <1>3, <1>4

\* The savepoint of f is found, and is the first of a transaction that it began.
LEMMA InsideFacts ==
    ASSUME NEW f \in Frames, NEW d \in Dbs, NEW next, Sound(d, next), Inside(f, d),
           Sound(f.entry, f.name)
    PROVE  /\ Index(d, f.name) = Len(f.entry.saves) + 1
           /\ Len(f.entry.saves) + 1 <= Len(d.saves)
           /\ d.saves[Len(f.entry.saves) + 1] = SaveOf(f)
           /\ \A i \in 1..Len(f.entry.saves) : d.saves[i] = f.entry.saves[i]
           /\ Commits(d, f.name) <=> f.entry.auto
<1>1. /\ f.entry.saves \in Seq(Saves) /\ SaveOf(f) \in Saves /\ Len(f.entry.saves) \in Nat
      /\ f.name \in Nat /\ f.entry.auto \in BOOLEAN
  BY FrameTypes
<1>2. Marked(f).saves = Append(f.entry.saves, SaveOf(f))
  BY Zenon, MarkedFields
<1>3. /\ Len(Append(f.entry.saves, SaveOf(f))) = Len(f.entry.saves) + 1
      /\ \A i \in 1..Len(f.entry.saves) : Append(f.entry.saves, SaveOf(f))[i] = f.entry.saves[i]
      /\ Append(f.entry.saves, SaveOf(f))[Len(f.entry.saves) + 1] = SaveOf(f)
  BY <1>1, AppendFacts
<1>4. /\ Len(f.entry.saves) + 1 <= Len(d.saves)
      /\ \A i \in 1..Len(f.entry.saves) + 1 : d.saves[i] = Append(f.entry.saves, SaveOf(f))[i]
  BY <1>2, <1>3 DEF Inside, Above
<1>5. /\ d.saves[Len(f.entry.saves) + 1] = SaveOf(f)
      /\ \A i \in 1..Len(f.entry.saves) : d.saves[i] = f.entry.saves[i]
  BY Zenon, <1>1, <1>3, <1>4, OneMore
<1>6. Len(d.saves) \in Nat /\ SaveOf(f).name = f.name /\ SaveOf(f).starts = f.entry.auto
  BY DEF Dbs, SaveOf
<1>7. Index(d, f.name) = Len(f.entry.saves) + 1
  <2>1. Len(f.entry.saves) + 1 \in 1..Len(d.saves)
    BY <1>1, <1>4, <1>6
  <2> QED BY <1>1, <1>5, <1>6, <2>1, IndexFacts
<1>8. Commits(d, f.name) <=> f.entry.auto
  <2>1. CASE f.entry.auto
    <3>1. Len(f.entry.saves) = 0
      BY <2>1 DEF Sound
    <3>2. Len(f.entry.saves) + 1 = 1
      BY <3>1
    <3>3. Index(d, f.name) = 1 /\ d.saves[1] = SaveOf(f)
      BY <1>5, <1>7, <3>2
    <3> QED BY Zenon, <1>6, <2>1, <3>3 DEF Commits
  <2>2. CASE ~f.entry.auto
    BY <1>1, <1>5, <1>6, <1>7, <2>2 DEF Commits
  <2> QED BY <1>1, <2>1, <2>2
<1> QED BY <1>4, <1>5, <1>7, <1>8

LEMMA WholeFacts ==
    ASSUME NEW rows, Whole(rows), NEW f \in Frames, NEW w \in 1..MaxWrites
    PROVE  /\ Whole(rows \union RowsOf(f))
           /\ Whole(rows \union {<<w, 1>>, <<w, 2>>})
           /\ Whole(rows \union {<<w, 3>>})
<1>1. \A v \in 1..MaxWrites : <<v, 1>> \in RowsOf(f) <=> <<v, 2>> \in RowsOf(f)
  BY DEF RowsOf
<1>2. Whole(rows \union RowsOf(f))
  BY Zenon, <1>1 DEF Whole
<1>3. \A v \in 1..MaxWrites :
        <<v, 1>> \in {<<w, 1>>, <<w, 2>>} <=> <<v, 2>> \in {<<w, 1>>, <<w, 2>>}
  OBVIOUS
<1>4. \A v \in 1..MaxWrites : <<v, 1>> \notin {<<w, 3>>} /\ <<v, 2>> \notin {<<w, 3>>}
  OBVIOUS
<1> QED BY <1>2, <1>3, <1>4 DEF Whole

\* The names of the savepoints with that of f.
LEMMA MarkedNames ==
    ASSUME NEW f \in Frames, Sound(f.entry, f.name), NEW next \in Nat, f.name < next,
           NEW d \in Dbs, d.saves = Append(f.entry.saves, SaveOf(f)), ~d.auto,
           Whole(d.disk), d.poisoned \/ Whole(d.pages)
    PROVE  Sound(d, next)
<1>1. /\ f.entry.saves \in Seq(Saves) /\ SaveOf(f) \in Saves /\ Len(f.entry.saves) \in Nat
      /\ f.name \in Nat
  BY FrameTypes
<1>2. /\ Len(d.saves) = Len(f.entry.saves) + 1
      /\ \A i \in 1..Len(f.entry.saves) : d.saves[i] = f.entry.saves[i]
      /\ d.saves[Len(f.entry.saves) + 1] = SaveOf(f)
  BY <1>1, AppendFacts
<1>3. \A i \in 1..Len(f.entry.saves) : f.entry.saves[i].name \in Nat
  <2>1. \A i \in 1..Len(f.entry.saves) : f.entry.saves[i] \in Saves
    BY <1>1
  <2> QED BY <2>1 DEF Saves
<1>4. /\ SaveOf(f).name = f.name
      /\ SaveOf(f).poisoned \/ Whole(SaveOf(f).pages)
  BY DEF SaveOf, Sound
<1>5. \A i \in 1..Len(d.saves) : i \in 1..Len(f.entry.saves) \/ i = Len(f.entry.saves) + 1
  BY <1>1, <1>2
<1>6. \A i \in 1..Len(f.entry.saves) :
        /\ f.entry.saves[i].poisoned \/ Whole(f.entry.saves[i].pages)
        /\ f.entry.saves[i].name < f.name
  BY DEF Sound
<1>7. ASSUME NEW i \in 1..Len(d.saves)
      PROVE  (d.saves[i].poisoned \/ Whole(d.saves[i].pages)) /\ d.saves[i].name < next
  <2>1. CASE i \in 1..Len(f.entry.saves)
    <3>1. d.saves[i] = f.entry.saves[i]
      BY <1>2, <2>1
    <3>2. f.entry.saves[i].name < next
      <4>1. f.entry.saves[i].name \in Nat /\ f.entry.saves[i].name < f.name
        BY <1>3, <1>6, <2>1
      <4> QED BY <1>1, <4>1
    <3> QED BY <1>6, <2>1, <3>1, <3>2
  <2>2. CASE i = Len(f.entry.saves) + 1
    BY <1>2, <1>4, <2>2
  <2> QED BY <1>5, <2>1, <2>2
<1>8. ASSUME NEW i \in 1..Len(d.saves), NEW j \in 1..Len(d.saves), i < j
      PROVE  d.saves[i].name < d.saves[j].name
  <2>1. i \in 1..Len(f.entry.saves)
    BY <1>1, <1>2, <1>8
  <2>2. CASE j \in 1..Len(f.entry.saves)
    BY <1>2, <1>8, <2>1, <2>2 DEF Sound
  <2>3. CASE j = Len(f.entry.saves) + 1
    BY <1>2, <1>4, <1>6, <2>1, <2>3
  <2> QED BY <1>5, <2>2, <2>3
<1> QED BY <1>7, <1>8 DEF Sound

LEMMA MarkedSound ==
    ASSUME NEW f \in Frames, Sound(f.entry, f.name), NEW next \in Nat, f.name < next
    PROVE  /\ Sound(Marked(f), next) /\ Inside(f, Marked(f))
           /\ Sound(Opened(f), next) /\ Inside(f, Opened(f))
<1>1. Whole(f.entry.disk) /\ (f.entry.poisoned \/ Whole(f.entry.pages))
  BY DEF Sound
<1>2. \A v \in 1..MaxWrites : <<v, 1>> \in RowsOf(f) <=> <<v, 2>> \in RowsOf(f)
  BY DEF RowsOf
<1>3. f.entry.poisoned \/ Whole(f.entry.pages \union RowsOf(f))
  BY <1>1, <1>2 DEF Whole
<1>4. Sound(Marked(f), next)
  BY Zenon, <1>1, MarkedFields, MarkedNames
<1>5. Sound(Opened(f), next)
  BY Zenon, <1>1, <1>3, OpenedFields, MarkedNames
<1>6. Len(Marked(f).saves) \in Nat
  BY MarkedFields DEF Dbs
<1>7. Above(Marked(f).saves, Marked(f))
  BY <1>6 DEF Above
<1>8. Opened(f).saves = Marked(f).saves
  BY Zenon, MarkedFields, OpenedFields
<1>9. Above(Marked(f).saves, Opened(f))
  BY <1>7, <1>8 DEF Above
<1>10. Inside(f, Marked(f))
  BY Zenon, <1>7, MarkedFields DEF Inside
<1>11. Inside(f, Opened(f))
  BY Zenon, <1>9, OpenedFields DEF Inside
<1> QED BY <1>4, <1>5, <1>10, <1>11

LEMMA DoneSound ==
    ASSUME NEW f \in Frames, Sound(f.entry, f.name), NEW next \in Nat, f.name <= next
    PROVE  Sound(Done(f), next) /\ Sound(f.entry, next)
<1>1. Whole(f.entry.disk) /\ (f.entry.poisoned \/ Whole(f.entry.pages))
  BY DEF Sound
<1>2. \A v \in 1..MaxWrites : <<v, 1>> \in RowsOf(f) <=> <<v, 2>> \in RowsOf(f)
  BY DEF RowsOf
<1>3. /\ f.entry.poisoned \/ Whole(f.entry.pages \union RowsOf(f))
      /\ Whole(f.entry.disk \union RowsOf(f))
  BY <1>1, <1>2 DEF Whole
<1>4. \A i \in 1..Len(f.entry.saves) : f.entry.saves[i].name \in Nat
  <2>1. \A i \in 1..Len(f.entry.saves) : f.entry.saves[i] \in Saves
    BY FrameTypes
  <2> QED BY <2>1 DEF Saves
<1>5. \A i \in 1..Len(f.entry.saves) : f.entry.saves[i].name < next
  BY <1>4, FrameTypes DEF Sound
<1>6. Sound(f.entry, next)
  BY <1>5 DEF Sound
<1>7. f.entry.auto => Done(f).saves = <<>> /\ ~Done(f).poisoned /\ Done(f).pages = Done(f).disk
  BY Zenon, <1>6, DoneFields DEF Sound
<1> QED BY Zenon, <1>3, <1>6, <1>7, DoneFields DEF Sound

\* ROLLBACK TO the savepoint of f brings back the database f marked.
LEMMA RollbackToMarked ==
    ASSUME NEW f \in Frames, NEW d \in Dbs, NEW next, Sound(d, next), Inside(f, d),
           Sound(f.entry, f.name)
    PROVE  RollbackTo(d, f.name) = Marked(f)
<1> DEFINE i == Len(f.entry.saves) + 1
           e == RollbackTo(d, f.name)
<1>1. Index(d, f.name) = i /\ i <= Len(d.saves) /\ d.saves[i] = SaveOf(f) /\ i \in Nat
  BY InsideFacts, FrameTypes
<1>2. e = [d EXCEPT !.pages = SaveOf(f).pages, !.poisoned = SaveOf(f).poisoned,
                    !.saves = SubSeq(d.saves, 1, i)]
  BY <1>1 DEF RollbackTo
<1>3. Marked(f).saves \in Seq(Saves) /\ d.saves \in Seq(Saves) /\ Len(Marked(f).saves) = i
  <2>1. Marked(f).saves = Append(f.entry.saves, SaveOf(f))
    BY Zenon, MarkedFields
  <2>2. f.entry.saves \in Seq(Saves) /\ SaveOf(f) \in Saves
    BY FrameTypes
  <2> QED BY <2>1, <2>2, AppendFacts DEF Dbs
<1>4. SubSeq(d.saves, 1, i) = Marked(f).saves
  BY <1>3, PrefixFacts DEF Inside, Above
<1>5. SaveOf(f).pages = f.entry.pages /\ SaveOf(f).poisoned = f.entry.poisoned
  BY DEF SaveOf
<1> HIDE DEF e
<1>6. /\ e \in Dbs /\ e.disk = d.disk /\ e.auto = d.auto /\ e.saves = Marked(f).saves
      /\ e.pages = f.entry.pages /\ e.poisoned = f.entry.poisoned
  BY Zenon, <1>2, <1>3, <1>4, <1>5, FrameTypes DEF Dbs
<1>7. d.disk = f.entry.disk /\ ~d.auto /\ d.auto \in BOOLEAN
  BY DEF Inside, Dbs
<1>8. e = Marked(f)
  <2>1. /\ Marked(f) \in Dbs /\ e.disk = Marked(f).disk /\ e.pages = Marked(f).pages
        /\ e.auto = Marked(f).auto /\ e.saves = Marked(f).saves
        /\ e.poisoned = Marked(f).poisoned
    BY Zenon, <1>6, <1>7, MarkedFields
  <2> QED BY ONLY <1>6, <2>1, SameDb
<1> QED BY <1>8 DEF e

\* RELEASE of the savepoint of f leaves those that were there before.
LEMMA ReleaseFields ==
    ASSUME NEW f \in Frames, NEW d \in Dbs, NEW next, Sound(d, next), Inside(f, d),
           Sound(f.entry, f.name)
    PROVE  LET e == Release(d, f.name) IN
           /\ e \in Dbs /\ e.disk = d.disk /\ e.pages = d.pages /\ e.auto = d.auto
           /\ e.saves = f.entry.saves /\ e.poisoned = d.poisoned
<1> DEFINE m == Len(f.entry.saves)
<1>1. Index(d, f.name) = m + 1 /\ m + 1 <= Len(d.saves) /\ m \in Nat
  BY InsideFacts, FrameTypes
<1>2. f.entry.saves \in Seq(Saves) /\ d.saves \in Seq(Saves) /\ Len(d.saves) \in Nat
  BY FrameTypes DEF Dbs
<1>3. \A i \in 1..m : d.saves[i] = f.entry.saves[i]
  BY InsideFacts
<1>4. SubSeq(d.saves, 1, m) = f.entry.saves
  BY <1>1, <1>2, <1>3, PrefixFacts
<1>5. Release(d, f.name) = [d EXCEPT !.saves = f.entry.saves]
  <2>1. Index(d, f.name) - 1 = m
    <3> DEFINE k == Index(d, f.name)
    <3>1. k = m + 1 /\ m \in Nat
      BY Zenon, <1>1
    <3> HIDE DEF k, m
    <3>2. k - 1 = m
      BY ONLY <3>1
    <3> QED BY Zenon, <3>2 DEF k
  <2> QED BY Zenon, <1>4, <2>1 DEF Release
<1> QED BY <1>2, <1>5 DEF Dbs

LEMMA ReleaseInside ==
    ASSUME NEW f \in Frames, NEW d \in Dbs, NEW next \in Nat, Sound(d, next), Inside(f, d),
           Sound(f.entry, f.name), f.name < next, ~f.entry.auto
    PROVE  /\ Release(d, f.name) \in Dbs /\ Outside(f, Release(d, f.name))
           /\ Sound(Release(d, f.name), next)
           /\ d = Marked(f) => Release(d, f.name) = f.entry
           /\ d = Opened(f) => Release(d, f.name) = Done(f)
<1> DEFINE e == Release(d, f.name)
<1>1. /\ e \in Dbs /\ e.disk = d.disk /\ e.pages = d.pages /\ e.auto = d.auto
      /\ e.saves = f.entry.saves /\ e.poisoned = d.poisoned
  BY ReleaseFields
<1>2. d.disk = f.entry.disk /\ ~d.auto /\ d.auto \in BOOLEAN /\ f.entry \in Dbs
      /\ f.entry.auto = FALSE
  BY FrameTypes DEF Inside, Dbs
<1> HIDE DEF e
<1>3. Len(f.entry.saves) \in Nat
  BY FrameTypes
<1>4. Outside(f, e)
  BY <1>1, <1>2, <1>3 DEF Outside, Above
<1>5. Sound(e, next)
  <2>1. Sound(f.entry, next)
    <3>1. f.name <= next
      BY FrameTypes
    <3> QED BY <3>1, DoneSound
  <2> QED BY <1>1, <1>2, <2>1 DEF Sound
<1>6. d = Marked(f) => e = f.entry
  <2> SUFFICES ASSUME d = Marked(f) PROVE e = f.entry
    OBVIOUS
  <2>1. /\ e.disk = f.entry.disk /\ e.pages = f.entry.pages /\ e.auto = f.entry.auto
        /\ e.saves = f.entry.saves /\ e.poisoned = f.entry.poisoned
    BY Zenon, <1>1, <1>2, MarkedFields
  <2> QED BY ONLY <1>1, <1>2, <2>1, SameDb
<1>7. d = Opened(f) => e = Done(f)
  <2> SUFFICES ASSUME d = Opened(f) PROVE e = Done(f)
    OBVIOUS
  <2>1. /\ Done(f) \in Dbs /\ e.disk = Done(f).disk /\ e.pages = Done(f).pages
        /\ e.auto = Done(f).auto /\ e.saves = Done(f).saves /\ e.poisoned = Done(f).poisoned
    BY Zenon, <1>1, <1>2, OpenedFields, DoneFields
  <2> QED BY ONLY <1>1, <2>1, SameDb
<1> QED BY <1>1, <1>4, <1>5, <1>6, <1>7 DEF e

\* The same for a transaction that f began: RELEASE turns autocommit on, and the
\* commit that follows succeeds or not.
LEMMA CommitFacts ==
    ASSUME NEW f \in Frames, Sound(f.entry, f.name), f.entry.auto
    PROVE  /\ Committed([Marked(f) EXCEPT !.auto = TRUE]) = f.entry
           /\ RolledBack([Marked(f) EXCEPT !.auto = TRUE]) = f.entry
           /\ Committed([Opened(f) EXCEPT !.auto = TRUE]) = Done(f)
           /\ RolledBack([Opened(f) EXCEPT !.auto = TRUE]) = f.entry
           /\ RolledBack(f.entry) = f.entry
<1> DEFINE a == [Marked(f) EXCEPT !.auto = TRUE]
           b == [Opened(f) EXCEPT !.auto = TRUE]
<1>1. a \in Dbs /\ a.disk = f.entry.disk /\ a.pages = f.entry.pages
  BY Zenon, MarkedFields DEF Dbs
<1>2. b \in Dbs /\ b.disk = f.entry.disk /\ b.pages = f.entry.pages \union RowsOf(f)
  BY Zenon, OpenedFields DEF Dbs
<1>3. /\ f.entry \in Dbs /\ f.entry.auto = TRUE /\ f.entry.saves = <<>>
      /\ f.entry.poisoned = FALSE /\ f.entry.pages = f.entry.disk
  BY FrameTypes DEF Sound
<1> HIDE DEF a, b
<1>4. Committed(a) = f.entry
  <2>1. /\ Committed(a) \in Dbs /\ Committed(a).disk = f.entry.disk
        /\ Committed(a).pages = f.entry.pages /\ Committed(a).auto = f.entry.auto
        /\ Committed(a).saves = f.entry.saves /\ Committed(a).poisoned = f.entry.poisoned
    BY Zenon, <1>1, <1>3, CommittedFields
  <2> QED BY ONLY <1>3, <2>1, SameDb
<1>5. ASSUME NEW d \in Dbs, d.disk = f.entry.disk PROVE RolledBack(d) = f.entry
  <2>1. /\ RolledBack(d) \in Dbs /\ RolledBack(d).disk = f.entry.disk
        /\ RolledBack(d).pages = f.entry.pages /\ RolledBack(d).auto = f.entry.auto
        /\ RolledBack(d).saves = f.entry.saves /\ RolledBack(d).poisoned = f.entry.poisoned
    BY Zenon, <1>3, <1>5, RolledBackFields
  <2> QED BY ONLY <1>3, <2>1, SameDb
<1>6. Committed(b) = Done(f)
  <2>1. /\ Done(f) \in Dbs /\ Done(f).pages = f.entry.pages \union RowsOf(f)
        /\ Done(f).disk = f.entry.pages \union RowsOf(f)
        /\ Done(f).auto = TRUE /\ Done(f).saves = <<>> /\ Done(f).poisoned = FALSE
    BY Zenon, <1>3, DoneFields
  <2>2. /\ Committed(b) \in Dbs /\ Committed(b).disk = Done(f).disk
        /\ Committed(b).pages = Done(f).pages /\ Committed(b).auto = Done(f).auto
        /\ Committed(b).saves = Done(f).saves /\ Committed(b).poisoned = Done(f).poisoned
    BY Zenon, <1>2, <2>1, CommittedFields
  <2> QED BY ONLY Zenon, <2>1, <2>2, SameDb
<1> QED BY Zenon, <1>1, <1>2, <1>3, <1>4, <1>5, <1>6 DEF a, b

-----------------------------------------------------------------------------
(* What holds of the innermost operation, and how a step that moves it, ends *)
(* it or starts another one on top keeps the invariant.                      *)

LEMMA Now ==
    ASSUME Inv, frames # <<>>
    PROVE  /\ Len(frames) \in Nat /\ 1 <= Len(frames) /\ Len(frames) \in 1..Len(frames)
           /\ Top = frames[Len(frames)] /\ Top \in Frames /\ frames \in Seq(Frames)
           /\ Sound(Top.entry, Top.name) /\ Top.name <= nextId /\ nextId \in Nat
           /\ ~Top.bare => Top.name < nextId
           /\ Top.bare <=> (Top.kind = "write" /\ Top.entry.auto)
           /\ Position(Top, db, stmt, ret, before, written, interrupts, nextId)
<1>1. frames \in Seq(Frames) /\ nextId \in Nat
  BY BoundAssumption DEF Inv, Types, TypeOK
<1>2. Len(frames) \in Nat /\ 1 <= Len(frames)
  BY <1>1
<1>3. Top = frames[Len(frames)] /\ Top \in Frames
  BY <1>1, <1>2 DEF Top
<1>4. Len(frames) \in 1..Len(frames)
  BY <1>2
<1>5. /\ Sound(Top.entry, Top.name) /\ Top.name <= nextId /\ (~Top.bare => Top.name < nextId)
      /\ Top.bare <=> (Top.kind = "write" /\ Top.entry.auto)
  BY <1>3, <1>4 DEF Inv, Nested
<1>6. Position(Top, db, stmt, ret, before, written, interrupts, nextId)
  BY DEF Inv, Here
<1> QED BY <1>1, <1>2, <1>3, <1>4, <1>5, <1>6

LEMMA FrameFields ==
    ASSUME NEW f \in Frames
    PROVE  /\ f.kind \in {"atomic", "write"} /\ f.outer \subseteq Tokens /\ f.entry \in Dbs
           /\ f.bare \in BOOLEAN /\ f.name \in Nat /\ f.pc \in Cleanup \union {"open", "body"}
           /\ f.writes \subseteq 1..MaxWrites /\ f.cause \in Results \union {"none"}
BY DEF Frames

\* The innermost operation goes on as g.
LEMMA StayNested ==
    ASSUME Inv, frames # <<>>, NEW g \in Frames, frames' = [frames EXCEPT ![Len(frames)] = g],
           g.entry = Top.entry, g.name = Top.name, g.kind = Top.kind, g.outer = Top.outer,
           g.bare = Top.bare, nextId' = nextId
    PROVE  /\ frames' \in Seq(Frames) /\ Len(frames') = Len(frames) /\ frames' # <<>>
           /\ Top' = g /\ Nested'
           /\ \A k \in 1..Len(frames) - 1 : frames'[k] = frames[k]
           /\ frames'[Len(frames)] = g
<1> DEFINE n == Len(frames)
<1>1. n \in Nat /\ 1 <= n /\ frames \in Seq(Frames) /\ Top = frames[n]
  BY Now
<1>2. frames' \in Seq(Frames) /\ Len(frames') = n /\ frames'[n] = g
      /\ \A k \in 1..n - 1 : frames'[k] = frames[k]
  BY <1>1
<1>3. frames' # <<>> /\ Top' = g
  <2>1. frames' # <<>>
    <3>1. n \in Nat /\ 1 <= n
      BY Zenon, <1>1
    <3>2. Len(frames') = n
      BY Zenon, <1>2
    <3> HIDE DEF n
    <3>3. n # 0
      BY ONLY <3>1
    <3> QED BY <3>2, <3>3
  <2>2. frames'[Len(frames')] = g
    BY Zenon, <1>2
  <2> QED BY <2>1, <2>2 DEF Top
<1> HIDE DEF n
<1>4. frames'[1].outer = {}
  <2>1. frames[1].outer = {}
    BY DEF Inv, Nested
  <2>2. CASE n = 1
    BY <1>1, <1>2, <2>1, <2>2
  <2>3. CASE n # 1
    <3>1. 1 \in 1..n - 1
      BY <1>1, <2>3
    <3> QED BY <1>2, <2>1, <3>1
  <2> QED BY <2>2, <2>3
<1>5. ASSUME NEW k \in 1..n
      PROVE  /\ Sound(frames'[k].entry, frames'[k].name)
             /\ frames'[k].name <= nextId' /\ (~frames'[k].bare => frames'[k].name < nextId')
             /\ frames'[k].bare <=> (frames'[k].kind = "write" /\ frames'[k].entry.auto)
  <2>1. /\ Sound(frames[k].entry, frames[k].name)
        /\ frames[k].name <= nextId /\ (~frames[k].bare => frames[k].name < nextId)
        /\ frames[k].bare <=> (frames[k].kind = "write" /\ frames[k].entry.auto)
    BY DEF Inv, Nested, n
  <2>2. CASE k = n
    BY <1>1, <1>2, <2>1, <2>2
  <2>3. CASE k # n
    <3>1. k \in 1..n - 1
      BY <1>1, <2>3
    <3>2. frames'[k] = frames[k]
      BY <1>2, <3>1
    <3> QED BY <2>1, <3>2
  <2> QED BY <2>2, <2>3
<1>6. ASSUME NEW k \in 1..n - 1
      PROVE  /\ frames'[k].pc = "body" /\ frames'[k].kind = "atomic"
             /\ frames'[k + 1].entry = Opened(frames'[k])
  <2>1. /\ frames[k].pc = "body" /\ frames[k].kind = "atomic"
        /\ frames[k + 1].entry = Opened(frames[k])
    BY DEF Inv, Nested, n
  <2>2. frames'[k] = frames[k]
    BY <1>2
  <2>3. frames'[k + 1].entry = frames[k + 1].entry
    <3>1. CASE k + 1 = n
      BY <1>1, <1>2, <3>1
    <3>2. CASE k + 1 # n
      <4>1. k + 1 \in 1..n - 1
        BY <1>1, <3>2
      <4> QED BY <1>2, <4>1
    <3> QED BY <3>1, <3>2
  <2> QED BY <2>1, <2>2, <2>3
<1>7. Nested'
  BY <1>2, <1>4, <1>5, <1>6 DEF Nested
<1> QED BY Zenon, <1>2, <1>3, <1>7 DEF n

LEMMA StayStep ==
    ASSUME Inv, frames # <<>>, NEW g \in Frames, frames' = [frames EXCEPT ![Len(frames)] = g],
           g.entry = Top.entry, g.name = Top.name, g.kind = Top.kind, g.outer = Top.outer,
           g.bare = Top.bare, nextId' = nextId, active' = active, cancelled' = cancelled,
           db' \in Dbs, stmt' \in {"none", "start", "half", "end", "commit"}, before' \subseteq Rows,
           ret' \in Results \union {"none"}, last' \in Results \union {"none"},
           suspended' = (IF active # {} /\ g.pc \in Cleanup THEN 1 ELSE 0),
           written' \in 0..MaxWrites, flag' \in BOOLEAN, signal' \in BOOLEAN,
           interrupts' = interrupts, delivered' \in BOOLEAN,
           Position(g, db', stmt', ret', before', written', interrupts, nextId),
           interrupts = 0 => ~flag' /\ ~signal'
    PROVE  Inv' /\ Honest
<1>1. /\ frames' \in Seq(Frames) /\ Len(frames') = Len(frames) /\ frames' # <<>>
      /\ Top' = g /\ Nested'
      /\ \A k \in 1..Len(frames) - 1 : frames'[k] = frames[k]
      /\ frames'[Len(frames)] = g
  BY Zenon, StayNested
<1>2. Here'
  BY Zenon, <1>1 DEF Here
<1>3. Undisturbed'
  BY Zenon DEF Undisturbed
<1>4. TypeOK'
  <2>1. /\ active \subseteq Tokens /\ cancelled \subseteq Tokens
        /\ nextId \in 0..MaxIds
    BY DEF Inv, Types, TypeOK
  <2>2. /\ db'.disk \subseteq Rows /\ db'.pages \subseteq Rows
        /\ db'.auto \in BOOLEAN /\ db'.poisoned \in BOOLEAN
    BY DEF Dbs
  <2> QED BY Zenon, <1>1, <2>1, <2>2 DEF TypeOK
<1>5. Types'
  BY Zenon, <1>1, <1>4 DEF Types, Inv
<1>6. ~Returned
  <2>1. Len(frames) \in Nat /\ ~(Len(frames) < Len(frames))
    BY Now
  <2>2. Len(frames') = Len(frames)
    BY Zenon, <1>1
  <2> QED BY ONLY <2>1, <2>2 DEF Returned
<1> QED BY Zenon, <1>1, <1>2, <1>3, <1>5, <1>6 DEF Inv, Honest

-----------------------------------------------------------------------------
(* An operation returns.                                                    *)

\* Operation f may return r with database d, after i interrupts.
Outcome(f, d, r, i) ==
    /\ r = "ok" => d = Done(f)
    /\ r = "cancelled" => d = f.entry \/ (f.pc = "release" /\ f.entry.auto /\ d = Done(f))
    /\ r = "other" /\ f.kind = "atomic" =>
          \/ d = f.entry \/ d = RolledBack(f.entry)
          \/ f.pc = "release" /\ f.entry.auto /\ d = Done(f)
    /\ r = "rollback" => d.disk = f.entry.disk
    /\ r # "ok" /\ ~f.entry.auto => Outside(f, d) \/ d = RolledBack(f.entry)
    /\ i = 0 => (r = "cancelled" => d = f.entry)

\* The writes of f become writes of the operation g around it.
LEMMA Absorb ==
    ASSUME NEW p \in Frames, NEW f \in Frames, f.entry = Opened(p), NEW g \in Frames,
           g.entry = p.entry, g.name = p.name, g.writes = p.writes \union f.writes
    PROVE  Opened(g) = Done(f)
<1>1. RowsOf(g) = RowsOf(p) \union RowsOf(f)
  BY DEF RowsOf
<1>2. SaveOf(g) = SaveOf(p)
  BY DEF SaveOf
<1>3. /\ Done(f) \in Dbs /\ Done(f).disk = p.entry.disk /\ Done(f).auto = FALSE
      /\ Done(f).pages = (p.entry.pages \union RowsOf(p)) \union RowsOf(f)
      /\ Done(f).saves = Append(p.entry.saves, SaveOf(p)) /\ Done(f).poisoned = p.entry.poisoned
  <2>1. ~f.entry.auto
    BY Zenon, OpenedFields
  <2>2. Done(f).disk = f.entry.disk
    BY Zenon, <2>1, DoneFields
  <2>3. /\ Done(f) \in Dbs /\ Done(f).pages = f.entry.pages \union RowsOf(f)
        /\ Done(f).auto = f.entry.auto /\ Done(f).saves = f.entry.saves
        /\ Done(f).poisoned = f.entry.poisoned
    BY Zenon, DoneFields
  <2>4. /\ f.entry.disk = p.entry.disk /\ f.entry.pages = p.entry.pages \union RowsOf(p)
        /\ f.entry.auto = FALSE /\ f.entry.poisoned = p.entry.poisoned
        /\ f.entry.saves = Append(p.entry.saves, SaveOf(p))
    BY Zenon, OpenedFields
  <2> QED BY ONLY Zenon, <2>2, <2>3, <2>4
<1>4. /\ Opened(g) \in Dbs /\ Opened(g).disk = p.entry.disk /\ Opened(g).auto = FALSE
      /\ Opened(g).pages = p.entry.pages \union (RowsOf(p) \union RowsOf(f))
      /\ Opened(g).saves = Append(p.entry.saves, SaveOf(p)) /\ Opened(g).poisoned = p.entry.poisoned
  BY Zenon, OpenedFields, <1>1, <1>2
<1>5. (p.entry.pages \union RowsOf(p)) \union RowsOf(f)
         = p.entry.pages \union (RowsOf(p) \union RowsOf(f))
  OBVIOUS
<1>6. Opened(g).pages = Done(f).pages
  BY Zenon, <1>3, <1>4, <1>5
<1> QED BY ONLY Zenon, <1>3, <1>4, <1>6, SameDb

LEMMA EntryOutside ==
    ASSUME NEW f \in Frames, ~f.entry.auto
    PROVE  Outside(f, f.entry)
<1>1. Len(f.entry.saves) \in Nat
  BY FrameTypes
<1>2. Len(f.entry.saves) <= Len(f.entry.saves)
  BY <1>1
<1> QED BY Zenon, <1>2 DEF Outside, Above

LEMMA DoneOutside ==
    ASSUME NEW f \in Frames, ~f.entry.auto
    PROVE  Outside(f, Done(f))
<1>1. Outside(f, f.entry)
  BY Zenon, EntryOutside
<1>2. Done(f).disk = f.entry.disk /\ Done(f).auto = f.entry.auto /\ Done(f).saves = f.entry.saves
  BY Zenon, DoneFields
<1> QED BY Zenon, <1>1, <1>2 DEF Outside, Above

LEMMA Outward ==
    ASSUME NEW p \in Frames, NEW f \in Frames, f.entry = Opened(p), NEW d
    PROVE  /\ Outside(f, d) => Inside(p, d)
           /\ RolledBack(f.entry) = RolledBack(p.entry)
<1>1. /\ f.entry \in Dbs /\ f.entry.disk = p.entry.disk /\ f.entry.saves = Marked(p).saves
  BY Zenon, OpenedFields, MarkedFields
<1>2. Outside(f, d) => Inside(p, d)
  BY Zenon, <1>1 DEF Outside, Inside
<1>3. p.entry \in Dbs
  BY FrameTypes
<1>4. RolledBack(f.entry) = RolledBack(p.entry)
  <2> DEFINE a == RolledBack(f.entry)
             b == RolledBack(p.entry)
  <2>1. /\ a \in Dbs /\ a.disk = f.entry.disk /\ a.pages = f.entry.disk
        /\ a.auto = TRUE /\ a.saves = <<>> /\ a.poisoned = FALSE
    BY Zenon, <1>1, RolledBackFields
  <2>2. /\ b \in Dbs /\ b.disk = p.entry.disk /\ b.pages = p.entry.disk
        /\ b.auto = TRUE /\ b.saves = <<>> /\ b.poisoned = FALSE
    BY Zenon, <1>3, RolledBackFields
  <2> HIDE DEF a, b
  <2>3. a.disk = b.disk /\ a.pages = b.pages /\ a.auto = b.auto /\ a.saves = b.saves
        /\ a.poisoned = b.poisoned
    BY Zenon, <1>1, <2>1, <2>2
  <2>4. a = b
    BY Zenon, <2>1, <2>2, <2>3, SameDb
  <2> QED BY Zenon, <2>4 DEF a, b
<1> QED BY <1>2, <1>4

LEMMA PopFrames ==
    ASSUME Inv, frames # <<>>, NEW r \in Results, Return(r)
    PROVE  /\ Len(frames) = 1 => frames' = <<>> /\ ret' = "none" /\ active' = {}
           /\ Len(frames) # 1 =>
                 LET m == Len(frames) - 1
                     p == frames[m]
                 IN  /\ m \in Nat /\ 1 <= m
                     /\ frames' \in Seq(Frames) /\ Len(frames') = m
                     /\ \A k \in 1..m - 1 : frames'[k] = frames[k]
                     /\ p \in Frames /\ frames'[m] \in Frames
                     /\ frames'[m] = IF r = "ok"
                                     THEN [p EXCEPT !.writes = @ \union Top.writes] ELSE p
                     /\ ret' = IF r = "ok" THEN "none" ELSE r
                     /\ active' = Top.outer
                     /\ p.pc = "body" /\ p.kind = "atomic" /\ Top.entry = Opened(p)
<1> DEFINE n == Len(frames)
           m == n - 1
           p == frames[m]
           rest == SubSeq(frames, 1, m)
<1>1. n \in Nat /\ 1 <= n /\ frames \in Seq(Frames) /\ Top = frames[n] /\ Top \in Frames
  BY Zenon, Now
<1>2. /\ frames' = IF rest # <<>> /\ r = "ok"
                   THEN [rest EXCEPT ![Len(rest)].writes = @ \union Top.writes] ELSE rest
      /\ ret' = IF rest # <<>> /\ r # "ok" THEN r ELSE "none"
      /\ active' = Top.outer
  BY Zenon DEF Return
<1>3. m \in Nat /\ m \in 0..n
  BY <1>1
<1>4. /\ rest \in Seq(Frames) /\ Len(rest) = m /\ \A k \in 1..m : rest[k] = frames[k]
  BY Zenon, <1>1, <1>3, SubSeqFacts
<1>5. ASSUME n = 1 PROVE frames' = <<>> /\ ret' = "none" /\ active' = {}
  <2>1. m = 0
    BY <1>5
  <2>2. rest = <<>>
    <3>1. rest \in Seq(Frames) /\ Len(rest) = 0
      BY Zenon, <1>4, <2>1
    <3> HIDE DEF rest
    <3> QED BY <3>1
  <2>3. frames[1].outer = {}
    BY Zenon DEF Inv, Nested
  <2>4. Top.outer = {}
    BY Zenon, <1>1, <1>5, <2>3
  <2> HIDE DEF rest
  <2> QED BY Zenon, <1>2, <2>2, <2>4
<1>6. ASSUME n # 1
      PROVE  /\ 1 <= m /\ frames' \in Seq(Frames) /\ Len(frames') = m
             /\ \A k \in 1..m - 1 : frames'[k] = frames[k]
             /\ p \in Frames /\ frames'[m] \in Frames
             /\ frames'[m] = IF r = "ok" THEN [p EXCEPT !.writes = @ \union Top.writes] ELSE p
             /\ ret' = IF r = "ok" THEN "none" ELSE r
             /\ p.pc = "body" /\ p.kind = "atomic" /\ Top.entry = Opened(p)
  <2>1. 1 <= m /\ m \in 1..n /\ m \in 1..m /\ m \in 1..n - 1 /\ m + 1 = n
    <3>1. n \in Nat /\ 1 <= n /\ n # 1
      BY Zenon, <1>1, <1>6
    <3> HIDE DEF n
    <3> QED BY ONLY <3>1
  <2>2. p \in Frames
    BY <1>1, <2>1
  <2>3. p.pc = "body" /\ p.kind = "atomic" /\ frames[m + 1].entry = Opened(p)
    BY Zenon, <2>1 DEF Inv, Nested
  <2>4. Top.entry = Opened(p)
    BY Zenon, <1>1, <2>1, <2>3
  <2>5. rest # <<>> /\ rest[m] = p
    <3>1. Len(rest) # 0
      <4> HIDE DEF m
      <4> QED BY <1>3, <1>4, <2>1
    <3>2. rest[m] = p
      BY Zenon, <1>4, <2>1
    <3> HIDE DEF rest
    <3>3. rest # <<>>
      BY <3>1
    <3> QED BY <3>2, <3>3
  <2> DEFINE g == [p EXCEPT !.writes = @ \union Top.writes]
  <2>6. g \in Frames
    <3>1. p.writes \union Top.writes \subseteq 1..MaxWrites
      BY <1>1, <2>2 DEF Frames
    <3> QED BY Zenon, <2>2, <3>1 DEF Frames
  <2>7. ret' = IF r = "ok" THEN "none" ELSE r
    BY Zenon, <1>2, <2>5
  <2>8. CASE r = "ok"
    <3>1. frames' = [rest EXCEPT ![m] = [rest[m] EXCEPT !.writes = @ \union Top.writes]]
      BY Zenon, <1>2, <1>4, <2>5, <2>8
    <3>2. frames' = [rest EXCEPT ![m] = g]
      BY Zenon, <3>1, <2>5
    <3> HIDE DEF g, rest, m, p
    <3>3. frames' \in Seq(Frames) /\ Len(frames') = m /\ frames'[m] = g
          /\ \A k \in 1..m - 1 : frames'[k] = rest[k]
      BY <1>3, <1>4, <2>1, <2>6, <3>2
    <3>4. \A k \in 1..m - 1 : k \in 1..m
      BY <1>3
    <3>5. \A k \in 1..m - 1 : frames'[k] = frames[k]
      BY Zenon, <1>4, <3>3, <3>4
    <3> QED BY Zenon, <2>1, <2>2, <2>3, <2>4, <2>6, <2>7, <2>8, <3>3, <3>5 DEF g
  <2>9. CASE r # "ok"
    <3>1. frames' = rest
      BY Zenon, <1>2, <2>9
    <3> HIDE DEF rest, m, p
    <3>4. \A k \in 1..m - 1 : k \in 1..m
      BY <1>3
    <3> QED BY Zenon, <1>4, <2>1, <2>2, <2>3, <2>4, <2>5, <2>7, <2>9, <3>1, <3>4
  <2> QED BY <2>8, <2>9
<1> QED BY Zenon, <1>2, <1>3, <1>5, <1>6

LEMMA PopStep ==
    ASSUME Inv, frames # <<>>, NEW r \in Results, Return(r), Outcome(Top, db', r, interrupts),
           nextId' = nextId, cancelled' = cancelled, db' \in Dbs, Sound(db', nextId),
           stmt' = "none", before' \subseteq Rows, suspended' = 0, written' = written,
           flag' \in BOOLEAN, signal' \in BOOLEAN, interrupts' = interrupts, delivered' \in BOOLEAN,
           interrupts = 0 => ~flag' /\ ~signal', interrupts = 0 /\ r = "rollback" => Blame
    PROVE  Inv' /\ Honest
<1> DEFINE n == Len(frames)
           m == n - 1
           p == frames[m]
           g == frames'[m]
<1>1. n \in Nat /\ 1 <= n /\ frames \in Seq(Frames) /\ Top = frames[n] /\ Top \in Frames
  BY Zenon, Now
<1>2. last' = r /\ last' \in Results
  BY Zenon DEF Return
<1>3. Honest
  <2>1. r = "rollback" => db'.auto \/ Above(Top.entry.saves, db')
    <3>1. Sound(Top.entry, Top.name) /\ Top.entry \in Dbs
      BY Zenon, Now, FrameFields
    <3>2. CASE Top.entry.auto
      <4>1. Top.entry.saves = <<>>
        BY Zenon, <3>1, <3>2 DEF Sound
      <4>2. Len(db'.saves) \in Nat
        BY DEF Dbs
      <4> QED BY <4>1, <4>2 DEF Above
    <3>3. CASE ~Top.entry.auto /\ r = "rollback"
      <4>1. Outside(Top, db') \/ db' = RolledBack(Top.entry)
        <5>1. r # "ok"
          BY <3>3
        <5> QED BY Zenon, <3>3, <5>1 DEF Outcome
      <4>2. RolledBack(Top.entry).auto = TRUE
        BY Zenon, <3>1, RolledBackFields
      <4> QED BY Zenon, <4>1, <4>2 DEF Outside
    <3> QED BY <3>2, <3>3
  <2> QED BY Zenon, <1>2, <2>1 DEF Honest, Outcome, Complete, Restored, Published, Done
<1>4. /\ last' \in Results \union {"none"} /\ cancelled' \subseteq Tokens
      /\ nextId' \in 0..MaxIds /\ written' \in 0..MaxWrites /\ Top.outer \subseteq Tokens
  BY <1>1, <1>2 DEF Inv, Types, TypeOK, Frames
<1>5. db'.disk \subseteq Rows /\ db'.pages \subseteq Rows /\ db'.auto \in BOOLEAN
      /\ db'.poisoned \in BOOLEAN
  BY DEF Dbs
<1>6. interrupts \in Nat
  BY DEF Inv, Types
<1>7. CASE n = 1
  <2>1. frames' = <<>> /\ ret' = "none" /\ active' = {}
    BY Zenon, <1>7, PopFrames
  <2>2. frames' \in Seq(Frames) /\ Len(frames') = 0
    BY <2>1
  <2>3. Types'
    <3>1. suspended' = IF active' # {} /\ Top'.pc \in Cleanup THEN 1 ELSE 0
      BY <2>1
    <3>2. ret' \in Results \union {"none"} /\ active' \subseteq Tokens
      BY <2>1
    <3> QED BY Zenon, <1>4, <1>5, <1>6, <2>2, <3>1, <3>2 DEF Types, TypeOK
  <2>4. Nested'
    BY <2>1, <2>2 DEF Nested
  <2>5. Here'
    BY Zenon, <2>1 DEF Here
  <2>6. Undisturbed'
    BY Zenon DEF Undisturbed
  <2> QED BY <1>3, <2>3, <2>4, <2>5, <2>6 DEF Inv
<1>8. CASE n # 1
  <2>1. /\ m \in Nat /\ 1 <= m /\ frames' \in Seq(Frames) /\ Len(frames') = m
        /\ \A k \in 1..m - 1 : frames'[k] = frames[k]
        /\ p \in Frames /\ g \in Frames
        /\ g = IF r = "ok" THEN [p EXCEPT !.writes = @ \union Top.writes] ELSE p
        /\ ret' = IF r = "ok" THEN "none" ELSE r
        /\ active' = Top.outer
        /\ p.pc = "body" /\ p.kind = "atomic" /\ Top.entry = Opened(p)
    BY Zenon, <1>8, PopFrames
  <2>2. m \in 1..n /\ m \in 1..m /\ \A k \in 1..m : k \in 1..n /\ (k = m \/ k \in 1..m - 1)
    <3>1. n \in Nat /\ 1 <= n /\ 1 <= m
      BY Zenon, <1>1, <2>1
    <3> HIDE DEF n
    <3> QED BY ONLY <3>1
  <2>3. /\ g.kind = "atomic" /\ g.pc = "body" /\ g.entry = p.entry /\ g.name = p.name
        /\ g.outer = p.outer /\ g.bare = p.bare /\ g.cause = p.cause
        /\ g.writes = IF r = "ok" THEN p.writes \union Top.writes ELSE p.writes
    <3> HIDE DEF g, p
    <3>1. CASE r = "ok"
      BY <2>1, <3>1 DEF Frames
    <3>2. CASE r # "ok"
      BY Zenon, <2>1, <3>2
    <3> QED BY <3>1, <3>2
  <2>4. /\ Sound(p.entry, p.name) /\ p.name <= nextId /\ (~p.bare => p.name < nextId)
        /\ p.bare <=> (p.kind = "write" /\ p.entry.auto)
    BY Zenon, <2>2 DEF Inv, Nested
  <2>5. ~p.bare
    BY <2>1, <2>4
  <2>6. frames' # <<>> /\ Top' = g
    <3>1. frames' # <<>>
      <4> HIDE DEF n, m
      <4> QED BY <2>1
    <3>2. Top' = g
      BY Zenon, <2>1 DEF Top
    <3> QED BY <3>1, <3>2
  <2>7. Position(g, db', stmt', ret', before', written', interrupts', nextId')
    <3>1. CASE r = "ok"
      <4>1. Opened(g) = Done(Top)
        BY Zenon, <1>1, <2>1, <2>3, <3>1, Absorb
      <4>2. db' = Base(g) /\ ~g.bare
        BY Zenon, <2>3, <2>5, <3>1, <4>1 DEF Base, Outcome
      <4> QED BY Zenon, <2>1, <2>3, <3>1, <4>2 DEF Position, InBody
    <3>2. CASE r # "ok"
      <4>1. ~Top.entry.auto
        BY Zenon, <2>1, OpenedFields
      <4>2. Outside(Top, db') \/ db' = RolledBack(Top.entry)
        BY Zenon, <3>2, <4>1 DEF Outcome
      <4>3. Inside(p, db') \/ (r # "cancelled" /\ db' = RolledBack(p.entry))
        <5>1. CASE r = "cancelled"
          <6>1. db' = Top.entry
            BY Zenon, <4>1, <5>1 DEF Outcome
          <6>2. Outside(Top, db')
            BY Zenon, <1>1, <4>1, <6>1, EntryOutside
          <6> QED BY Zenon, <1>1, <2>1, <6>2, Outward
        <5>2. CASE r # "cancelled"
          BY Zenon, <1>1, <2>1, <4>2, <5>2, Outward
        <5> QED BY <5>1, <5>2
      <4>4. g = p /\ ret' = r /\ r \in Errors
        BY Zenon, <2>1, <3>2 DEF Errors
      <4> HIDE DEF g, p
      <4> QED BY Zenon, <2>1, <2>5, <4>3, <4>4 DEF Position, InBody
    <3> QED BY <3>1, <3>2
  <2> HIDE DEF g, p, m, n
  <2>8. Here'
    BY Zenon, <2>6, <2>7 DEF Here
  <2>9. Nested'
    <3>1. frames'[1].outer = {}
      <4>1. frames[1].outer = {}
        BY Zenon DEF Inv, Nested
      <4>2. 1 \in 1..m
        BY <2>1
      <4>3. frames'[1].outer = frames[1].outer
        BY Zenon, <2>1, <2>2, <2>3, <4>2 DEF g, p
      <4> QED BY <4>1, <4>3
    <3>2. ASSUME NEW k \in 1..m
          PROVE  /\ Sound(frames'[k].entry, frames'[k].name)
                 /\ frames'[k].name <= nextId' /\ (~frames'[k].bare => frames'[k].name < nextId')
                 /\ frames'[k].bare <=> (frames'[k].kind = "write" /\ frames'[k].entry.auto)
      <4>1. /\ Sound(frames[k].entry, frames[k].name)
            /\ frames[k].name <= nextId /\ (~frames[k].bare => frames[k].name < nextId)
            /\ frames[k].bare <=> (frames[k].kind = "write" /\ frames[k].entry.auto)
        BY Zenon, <2>2 DEF Inv, Nested, n
      <4>2. CASE k = m
        BY Zenon, <2>1, <2>3, <2>4, <4>2 DEF g
      <4>3. CASE k # m
        <5>1. frames'[k] = frames[k]
          BY Zenon, <2>1, <2>2, <4>3
        <5> QED BY Zenon, <4>1, <5>1
      <4> QED BY <4>2, <4>3
    <3>3. ASSUME NEW k \in 1..m - 1
          PROVE  /\ frames'[k].pc = "body" /\ frames'[k].kind = "atomic"
                 /\ frames'[k + 1].entry = Opened(frames'[k])
      <4>1. k \in 1..n - 1 /\ k + 1 \in 1..m /\ (k + 1 = m \/ k + 1 \in 1..m - 1)
        BY <1>1, <2>1 DEF m
      <4>2. /\ frames[k].pc = "body" /\ frames[k].kind = "atomic"
            /\ frames[k + 1].entry = Opened(frames[k])
        BY Zenon, <4>1 DEF Inv, Nested, n
      <4>3. frames'[k] = frames[k]
        BY Zenon, <2>1
      <4>4. frames'[k + 1].entry = frames[k + 1].entry
        BY Zenon, <2>1, <2>3, <4>1 DEF g, p
      <4> QED BY Zenon, <4>2, <4>3, <4>4
    <3> QED BY Zenon, <2>1, <2>6, <3>1, <3>2, <3>3 DEF Nested
  <2>10. Undisturbed'
    BY Zenon DEF Undisturbed
  <2>11. Types'
    <3>1. ret' \in Results \union {"none"}
      BY Zenon, <2>1
    <3>2. suspended' = IF active' # {} /\ Top'.pc \in Cleanup THEN 1 ELSE 0
      <4>1. Top'.pc \notin Cleanup
        BY <2>3, <2>6 DEF Cleanup
      <4> QED BY Zenon, <4>1
    <3> QED BY Zenon, <1>4, <1>5, <1>6, <2>1, <3>1, <3>2 DEF Types, TypeOK
  <2> QED BY Zenon, <1>3, <2>8, <2>9, <2>10, <2>11 DEF Inv
<1> QED BY <1>7, <1>8

-----------------------------------------------------------------------------
(* Steps that leave the operations in progress alone.                       *)

LEMMA Quiet ==
    ASSUME Inv
    PROVE  /\ frames # <<>> /\ Top.pc \notin Cleanup => suspended = 0
           /\ frames = <<>> => suspended = 0 /\ active = {} /\ Sound(db, nextId)
           /\ suspended = IF active # {} /\ Top.pc \in Cleanup THEN 1 ELSE 0
<1>1. suspended = IF active # {} /\ Top.pc \in Cleanup THEN 1 ELSE 0
  BY DEF Inv, Types, TypeOK
<1>2. frames = <<>> => active = {} /\ Sound(db, nextId)
  BY DEF Inv, Here
<1> QED BY <1>1, <1>2

LEMMA Parts ==
    ASSUME Inv
    PROVE  /\ db \in Dbs /\ flag \in BOOLEAN /\ signal \in BOOLEAN /\ interrupts \in Nat
           /\ delivered \in BOOLEAN /\ frames \in Seq(Frames)
           /\ stmt \in {"none", "start", "half", "end", "commit"} /\ before \subseteq Rows
           /\ ret \in Results \union {"none"} /\ last \in Results \union {"none"}
           /\ active \subseteq Tokens /\ cancelled \subseteq Tokens
           /\ nextId \in 0..MaxIds /\ nextId \in Nat /\ written \in 0..MaxWrites
           /\ interrupts = 0 => ~flag /\ ~signal
BY BoundAssumption DEF Inv, Types, TypeOK, Undisturbed

LEMMA KeepStep ==
    ASSUME Inv, frames # <<>>, frames' = frames, nextId' = nextId, active' = active,
           cancelled' = cancelled, suspended' = suspended, interrupts' = interrupts,
           db' \in Dbs, stmt' \in {"none", "start", "half", "end", "commit"}, before' \subseteq Rows,
           ret' \in Results \union {"none"}, last' \in Results \union {"none"},
           written' \in 0..MaxWrites, flag' \in BOOLEAN, signal' \in BOOLEAN, delivered' \in BOOLEAN,
           Position(Top, db', stmt', ret', before', written', interrupts, nextId),
           interrupts = 0 => ~flag' /\ ~signal'
    PROVE  Inv' /\ Honest
<1>1. Top \in Frames /\ frames \in Seq(Frames) /\ Top = frames[Len(frames)]
  BY Zenon, Now
<1>2. frames' = [frames EXCEPT ![Len(frames)] = Top]
  BY <1>1
<1>3. suspended' = IF active # {} /\ Top.pc \in Cleanup THEN 1 ELSE 0
  BY Zenon, Quiet
<1> QED BY Zenon, <1>1, <1>2, <1>3, StayStep

LEMMA BeginStep ==
    ASSUME Inv, Begin
    PROVE  Inv' /\ Honest
<1>1. /\ stmt = "none" /\ frames # <<>> /\ Top.pc # "body" /\ stmt' = "start" /\ before' = db.pages
      /\ UNCHANGED <<db, flag, signal, interrupts, frames, ret, last, active, delivered,
                     suspended, cancelled, nextId, written>>
  BY Zenon DEF Begin, Runs, handle, guards, counts
<1>2. InOther(Top, db, "none", ret, interrupts, nextId)
  BY Zenon, <1>1, Now DEF Position
<1>3. InOther(Top, db, "start", ret, interrupts, nextId)
  <2>1. InOpen(Top, db, "none") => InOpen(Top, db, "start")
    BY Zenon DEF InOpen
  <2>2. InUndoOpen(Top, db, "none") => InUndoOpen(Top, db, "start")
    BY Zenon DEF InUndoOpen
  <2>3. InDrop(Top, db, "none", nextId) => InDrop(Top, db, "start", nextId)
    BY Zenon DEF InDrop
  <2>4. InRelease(Top, db, "none") => InRelease(Top, db, "start")
    BY Zenon DEF InRelease
  <2>5. InUndo(Top, db, "none", interrupts, nextId) => InUndo(Top, db, "start", interrupts, nextId)
    BY Zenon DEF InUndo
  <2> QED BY Zenon, <1>2, <2>1, <2>2, <2>3, <2>4, <2>5 DEF InOther
<1>4. Position(Top, db', stmt', ret', before', written', interrupts, nextId)
  BY Zenon, <1>1, <1>3 DEF Position
<1>5. before' \subseteq Rows
  BY <1>1, Parts DEF Dbs
<1> QED BY Zenon, <1>1, <1>4, <1>5, KeepStep, Parts

LEMMA SamePages ==
    ASSUME NEW d \in Dbs
    PROVE  [d EXCEPT !.pages = @ \union {}] = d
<1>1. d.pages \union {} = d.pages
  OBVIOUS
<1>2. d = [d EXCEPT !.pages = d.pages]
  BY DEF Dbs
<1> QED BY <1>1, <1>2

LEMMA BaseFields ==
    ASSUME NEW f \in Frames
    PROVE  Base(f) \in Dbs
BY Zenon, OpenedFields, FrameTypes DEF Base

LEMMA BeginWriteStep ==
    ASSUME Inv, BeginWrite
    PROVE  Inv' /\ Honest
<1>1. /\ stmt = "none" /\ frames # <<>> /\ Top.pc = "body" /\ stmt' = "start" /\ before' = db.pages
      /\ ret = "none" /\ written < MaxWrites /\ written' = written + 1
      /\ UNCHANGED <<db, flag, signal, interrupts, frames, ret, last, active, delivered,
                     suspended, cancelled, nextId>>
  BY Zenon DEF BeginWrite, At, Runs, handle, guards
<1>2. db = Base(Top) /\ (Top.bare => Top.writes = {})
  <2>1. InBody(Top, db, "none", "none", before, written, nextId)
    BY Zenon, <1>1, Now DEF Position
  <2> QED BY <2>1 DEF InBody, Errors, Results
<1>3. written' \in 1..MaxWrites /\ written' \in 0..MaxWrites
  BY <1>1, Parts, BoundAssumption
<1>4. db = [Base(Top) EXCEPT !.pages = @ \union Stored("start", written')]
  <2>1. Stored("start", written') = {}
    BY DEF Stored
  <2> QED BY Zenon, <1>1, <1>2, <2>1, Now, BaseFields, SamePages
<1>5. Position(Top, db', stmt', ret', before', written', interrupts, nextId)
  BY Zenon, <1>1, <1>2, <1>3, <1>4 DEF Position, InBody
<1>6. before' \subseteq Rows
  BY <1>1, Parts DEF Dbs
<1> QED BY Zenon, <1>1, <1>3, <1>5, <1>6, KeepStep, Parts

LEMMA CallbackReturnsStep ==
    ASSUME Inv, CallbackReturns
    PROVE  Inv' /\ Honest
<1>1. /\ stmt = "none" /\ frames # <<>> /\ Top.pc = "body" /\ ret = "none" /\ Top.kind = "atomic"
      /\ ret' \in {"ok", "other"}
      /\ UNCHANGED <<db, stmt, before, flag, signal, interrupts, frames, last, active, delivered,
                     suspended, cancelled, nextId, written>>
  BY Zenon DEF CallbackReturns, At, engine, handle, guards, counts
<1>2. ~Top.bare /\ Top \in Frames /\ Sound(Top.entry, Top.name) /\ Top.name < nextId /\ nextId \in Nat
  BY <1>1, Now
<1>3. db = Opened(Top)
  <2>1. InBody(Top, db, "none", "none", before, written, nextId)
    BY Zenon, <1>1, Now DEF Position
  <2>2. db = Base(Top)
    BY <2>1 DEF InBody, Errors, Results
  <2> QED BY Zenon, <1>2, <2>2 DEF Base
<1>4. Sound(db, nextId) /\ Inside(Top, db)
  BY Zenon, <1>2, <1>3, MarkedSound
<1>5. Position(Top, db', stmt', ret', before', written', interrupts, nextId)
  <2>1. CASE ret' = "ok"
    BY Zenon, <1>1, <1>2, <1>3, <2>1 DEF Position, InBody
  <2>2. CASE ret' = "other"
    <3>1. ret' \in Errors /\ ret' # "cancelled"
      BY <2>2 DEF Errors, Results
    <3> QED BY Zenon, <1>1, <1>2, <1>4, <3>1 DEF Position, InBody
  <2> QED BY <1>1, <2>1, <2>2
<1>6. ret' \in Results \union {"none"}
  BY <1>1 DEF Results
<1> QED BY Zenon, <1>1, <1>5, <1>6, KeepStep, Parts

-----------------------------------------------------------------------------
(* The other threads and the caller's own transactions.                     *)

LEMMA AsideStep ==
    ASSUME Inv, UNCHANGED <<db, stmt, before, frames, ret, last, active, suspended, nextId, written>>,
           cancelled' \subseteq Tokens, delivered' \in BOOLEAN, flag' \in BOOLEAN,
           signal' \in BOOLEAN, interrupts' \in Nat, interrupts <= interrupts',
           interrupts' = 0 => ~flag' /\ ~signal'
    PROVE  Inv' /\ Honest
<1>1. /\ db' = db /\ stmt' = stmt /\ before' = before /\ frames' = frames /\ ret' = ret
      /\ last' = last /\ active' = active /\ suspended' = suspended /\ nextId' = nextId
      /\ written' = written
  OBVIOUS
<1>2. Types'
  BY Zenon, <1>1 DEF Inv, Types, TypeOK, Top
<1>3. Nested'
  BY Zenon, <1>1 DEF Inv, Nested
<1>4. interrupts \in Nat
  BY Parts
<1>5. Undisturbed'
  <2>1. interrupts' = 0 => interrupts = 0
    BY <1>4
  <2> QED BY Zenon, <1>1, <2>1 DEF Inv, Undisturbed
<1>6. Here'
  <2>1. CASE frames = <<>>
    BY Zenon, <1>1, <2>1 DEF Inv, Here
  <2>2. CASE frames # <<>>
    <3>1. Position(Top, db, stmt, ret, before, written, interrupts, nextId)
      BY Zenon, <2>2, Now
    <3>2. interrupts > 0 => interrupts' > 0
      BY <1>4
    <3>3. InUndo(Top, db, stmt, interrupts, nextId) => InUndo(Top, db, stmt, interrupts', nextId)
      BY Zenon, <3>2 DEF InUndo
    <3>4. Position(Top, db, stmt, ret, before, written, interrupts', nextId)
      BY Zenon, <3>1, <3>3 DEF Position, InOther
    <3>5. Top' = Top
      BY Zenon, <1>1 DEF Top
    <3> QED BY Zenon, <1>1, <2>2, <3>4, <3>5 DEF Here
  <2> QED BY <2>1, <2>2
<1>7. ~Returned
  <2>1. Len(frames) \in Nat
    BY Parts
  <2>2. ~(Len(frames) < Len(frames))
    BY <2>1
  <2> QED BY Zenon, <1>1, <2>2 DEF Returned
<1> QED BY Zenon, <1>2, <1>3, <1>5, <1>6, <1>7 DEF Inv, Honest

LEMMA CancelStep ==
    ASSUME Inv, NEW token \in Tokens, Cancel(token)
    PROVE  Inv' /\ Honest
<1>1. /\ UNCHANGED <<db, stmt, before, frames, ret, last, active, suspended, nextId, written>>
      /\ delivered' = delivered /\ flag' = flag /\ signal' = signal /\ interrupts' = interrupts
      /\ cancelled' = cancelled \union {token}
  BY Zenon DEF Cancel, engine, handle, guards, counts
<1>2. cancelled' \subseteq Tokens /\ interrupts <= interrupts'
  BY <1>1, Parts
<1> QED BY Zenon, <1>1, <1>2, AsideStep, Parts

LEMMA InterruptTestStep ==
    ASSUME Inv, InterruptTest
    PROVE  Inv' /\ Honest
<1>1. /\ UNCHANGED <<db, stmt, before, frames, ret, last, active, suspended, nextId, written>>
      /\ delivered' = delivered /\ flag' = flag /\ cancelled' = cancelled
      /\ signal' = TRUE /\ interrupts' = interrupts + 1
  BY Zenon DEF InterruptTest, engine, guards, counts
<1>2. interrupts' \in Nat /\ interrupts' # 0 /\ interrupts <= interrupts'
  BY <1>1, Parts
<1> QED BY Zenon, <1>1, <1>2, AsideStep, Parts

LEMMA InterruptStoreStep ==
    ASSUME Inv, InterruptStore
    PROVE  Inv' /\ Honest
<1>1. /\ UNCHANGED <<db, stmt, before, frames, ret, last, active, suspended, nextId, written>>
      /\ delivered' = delivered /\ cancelled' = cancelled /\ interrupts' = interrupts
      /\ signal /\ signal' = FALSE /\ flag' = TRUE
  BY Zenon DEF InterruptStore, engine, guards, counts
<1>2. interrupts # 0 /\ interrupts <= interrupts'
  BY <1>1, Parts
<1> QED BY Zenon, <1>1, <1>2, AsideStep, Parts

LEMMA StutterStep ==
    ASSUME Inv, UNCHANGED vars
    PROVE  Inv' /\ Honest
<1>1. /\ UNCHANGED <<db, stmt, before, frames, ret, last, active, suspended, nextId, written>>
      /\ delivered' = delivered /\ cancelled' = cancelled /\ interrupts' = interrupts
      /\ signal' = signal /\ flag' = flag
  BY Zenon DEF vars, engine, handle, guards, counts
<1>2. interrupts <= interrupts'
  BY <1>1, Parts
<1> QED BY Zenon, <1>1, <1>2, AsideStep, Parts

LEMMA AutoSound ==
    ASSUME NEW d, NEW next, d.saves = <<>>, ~d.poisoned, d.pages = d.disk, Whole(d.disk)
    PROVE  Sound(d, next)
<1>1. Len(d.saves) = 0 /\ 1..0 = {}
  BY SMT
<1>2. 1..Len(d.saves) = {}
  BY Zenon, <1>1
<1> QED BY Zenon, <1>2 DEF Sound

LEMMA EndSound ==
    ASSUME NEW d \in Dbs, NEW next, Sound(d, next)
    PROVE  /\ EndTransaction(d) \in Dbs /\ Sound(EndTransaction(d), next)
           /\ RolledBack(d) \in Dbs /\ Sound(RolledBack(d), next)
<1>1. RolledBack(d) \in Dbs /\ Sound(RolledBack(d), next)
  <2> DEFINE e == RolledBack(d)
  <2>1. e \in Dbs /\ e.disk = d.disk /\ e.pages = d.disk /\ e.saves = <<>> /\ e.poisoned = FALSE
    BY Zenon, RolledBackFields
  <2>2. Whole(d.disk)
    BY Zenon DEF Sound
  <2> HIDE DEF e
  <2>3. e.pages = e.disk /\ Whole(e.disk) /\ ~e.poisoned
    BY Zenon, <2>1, <2>2
  <2>4. Sound(e, next)
    BY Zenon, <2>1, <2>3, AutoSound
  <2> QED BY Zenon, <2>1, <2>4 DEF e
<1>2. d.poisoned \/ (Committed(d) \in Dbs /\ Sound(Committed(d), next))
  <2> SUFFICES ASSUME ~d.poisoned PROVE Committed(d) \in Dbs /\ Sound(Committed(d), next)
    OBVIOUS
  <2> DEFINE e == Committed(d)
  <2>1. e \in Dbs /\ e.disk = d.pages /\ e.pages = d.pages /\ e.saves = <<>> /\ e.poisoned = FALSE
    BY Zenon, CommittedFields
  <2>2. Whole(d.pages)
    BY Zenon DEF Sound
  <2> HIDE DEF e
  <2>3. e.pages = e.disk /\ Whole(e.disk) /\ ~e.poisoned
    BY Zenon, <2>1, <2>2
  <2>4. Sound(e, next)
    BY Zenon, <2>1, <2>3, AutoSound
  <2> QED BY Zenon, <2>1, <2>4 DEF e
<1> QED BY Zenon, <1>1, <1>2 DEF EndTransaction

LEMMA TransactionStep ==
    ASSUME Inv, Transaction
    PROVE  Inv' /\ Honest
<1>1. /\ frames = <<>> /\ frames' = <<>>
      /\ UNCHANGED <<stmt, before, flag, signal, interrupts, ret, last, active, delivered,
                     suspended, cancelled, nextId, written>>
      /\ \/ db.auto /\ db' = [db EXCEPT !.auto = FALSE]
         \/ ~db.auto /\ db' \in {EndTransaction(db), RolledBack(db)}
  BY Zenon DEF Transaction, handle, guards, counts
<1>2. db \in Dbs /\ Sound(db, nextId) /\ active = {} /\ stmt = "none" /\ ret = "none"
  BY Zenon, <1>1, Parts DEF Inv, Here
<1>3. db' \in Dbs /\ Sound(db', nextId)
  <2>1. CASE db' = [db EXCEPT !.auto = FALSE]
    BY Zenon, <1>2, <2>1 DEF Dbs, Sound
  <2>2. CASE db' \in {EndTransaction(db), RolledBack(db)}
    BY Zenon, <1>2, <2>2, EndSound
  <2> QED BY <1>1, <2>1, <2>2
<1>4. /\ db'.disk \subseteq Rows /\ db'.pages \subseteq Rows
      /\ db'.auto \in BOOLEAN /\ db'.poisoned \in BOOLEAN
  BY <1>3 DEF Dbs
<1>5. Top' = Top
  BY Zenon, <1>1 DEF Top
<1>6. Types'
  BY Zenon, <1>1, <1>3, <1>4, <1>5 DEF Inv, Types, TypeOK
<1>7. Nested'
  BY Zenon, <1>1 DEF Inv, Nested
<1>8. Here'
  BY Zenon, <1>1, <1>2, <1>3 DEF Here
<1>9. Undisturbed'
  BY Zenon, <1>1 DEF Inv, Undisturbed
<1>10. ~Returned
  BY <1>1 DEF Returned
<1> QED BY Zenon, <1>6, <1>7, <1>8, <1>9, <1>10 DEF Inv, Honest

-----------------------------------------------------------------------------
(* An operation is entered, by the caller or by a callback.                 *)

\* The database between the statements of a callback, and between operations.
LEMMA BodyIdle ==
    ASSUME Inv, stmt = "none",
           frames = <<>> \/ (frames # <<>> /\ Top.pc = "body" /\ ret = "none" /\ Top.kind = "atomic")
    PROVE  /\ Sound(db, nextId)
           /\ frames # <<>> => ~Top.bare /\ db = Opened(Top) /\ Inside(Top, db)
<1>1. CASE frames = <<>>
  BY Zenon, <1>1, Quiet
<1>2. CASE frames # <<>> /\ Top.pc = "body" /\ ret = "none" /\ Top.kind = "atomic"
  <2>1. ~Top.bare /\ Top \in Frames /\ Sound(Top.entry, Top.name) /\ Top.name < nextId /\ nextId \in Nat
    BY <1>2, Now
  <2>2. InBody(Top, db, "none", "none", before, written, nextId)
    BY Zenon, <1>2, Now DEF Position
  <2>3. db = Base(Top)
    BY <2>2 DEF InBody, Errors, Results
  <2>4. db = Opened(Top)
    BY Zenon, <2>1, <2>3 DEF Base
  <2> QED BY Zenon, <2>1, <2>4, MarkedSound
<1> QED BY <1>1, <1>2

LEMMA PushNested ==
    ASSUME Inv, stmt = "none", NEW f \in Frames, frames' = Append(frames, f),
           frames = <<>> \/ (frames # <<>> /\ Top.pc = "body" /\ ret = "none" /\ Top.kind = "atomic"),
           f.entry = db, f.name = nextId, f.outer = active,
           f.bare <=> (f.kind = "write" /\ db.auto),
           nextId' \in Nat, nextId <= nextId', ~f.bare => nextId < nextId'
    PROVE  /\ frames' \in Seq(Frames) /\ frames' # <<>> /\ Top' = f /\ Nested'
           /\ Len(frames) \in Nat /\ Len(frames') = Len(frames) + 1
           /\ \A k \in 1..Len(frames) : frames'[k] = frames[k]
<1> DEFINE n == Len(frames)
<1>1. /\ frames' \in Seq(Frames) /\ n \in Nat /\ Len(frames') = n + 1
      /\ \A k \in 1..n : frames'[k] = frames[k]
      /\ frames'[n + 1] = f
  <2>1. frames \in Seq(Frames)
    BY Zenon, Parts
  <2> QED BY <2>1
<1>2. frames' # <<>> /\ Top' = f
  <2>1. frames' # <<>>
    <3> HIDE DEF n
    <3> QED BY <1>1
  <2>2. Top' = f
    BY Zenon, <1>1 DEF Top
  <2> QED BY <2>1, <2>2
<1>3. nextId \in Nat /\ Sound(db, nextId)
  BY Zenon, Parts, BodyIdle
<1>4. ASSUME frames # <<>>
      PROVE  /\ 1 <= n /\ Top = frames[n] /\ frames[1].outer = {} /\ db = Opened(Top)
             /\ Top.pc = "body" /\ Top.kind = "atomic"
  BY Zenon, <1>4, Now, BodyIdle DEF Inv, Nested
<1>5. /\ \A k \in 1..n :
            /\ Sound(frames[k].entry, frames[k].name)
            /\ frames[k].name <= nextId /\ (~frames[k].bare => frames[k].name < nextId)
            /\ frames[k].bare <=> (frames[k].kind = "write" /\ frames[k].entry.auto)
      /\ \A k \in 1..n - 1 :
            /\ frames[k].pc = "body" /\ frames[k].kind = "atomic"
            /\ frames[k + 1].entry = Opened(frames[k])
  BY Zenon DEF Inv, Nested
<1>6. ASSUME NEW k \in 1..n PROVE frames[k].name \in Nat
  <2>1. frames[k] \in Frames
    BY Parts
  <2> QED BY <2>1 DEF Frames
<1>7. frames = <<>> => n = 0 /\ active = {}
  BY Quiet
<1>8. frames # <<>> => n # 0
  BY Parts
<1> HIDE DEF n
<1>9. frames'[1].outer = {}
  <2>1. CASE frames = <<>>
    <3>1. n + 1 = 1
      BY <1>7, <2>1
    <3> QED BY Zenon, <1>1, <1>7, <2>1, <3>1
  <2>2. CASE frames # <<>>
    <3>1. 1 \in 1..n
      BY <1>1, <1>4, <2>2
    <3> QED BY Zenon, <1>1, <1>4, <2>2, <3>1
  <2> QED BY <2>1, <2>2
<1>10. ASSUME NEW k \in 1..n + 1
       PROVE  /\ Sound(frames'[k].entry, frames'[k].name)
              /\ frames'[k].name <= nextId' /\ (~frames'[k].bare => frames'[k].name < nextId')
              /\ frames'[k].bare <=> (frames'[k].kind = "write" /\ frames'[k].entry.auto)
  <2>1. k = n + 1 \/ k \in 1..n
    BY <1>1
  <2>2. CASE k = n + 1
    BY Zenon, <1>1, <1>3, <2>2
  <2>3. CASE k \in 1..n
    <3>1. frames'[k] = frames[k]
      BY Zenon, <1>1, <2>3
    <3>2. frames[k].name <= nextId' /\ (~frames[k].bare => frames[k].name < nextId')
      <4>1. frames[k].name <= nextId /\ (~frames[k].bare => frames[k].name < nextId)
        BY Zenon, <1>5, <2>3
      <4>2. frames[k].name \in Nat
        BY <1>6, <2>3
      <4> QED BY <1>3, <4>1, <4>2
    <3> QED BY Zenon, <1>5, <2>3, <3>1, <3>2
  <2> QED BY Zenon, <2>1, <2>2, <2>3
<1>11. ASSUME NEW k \in 1..n
       PROVE  /\ frames'[k].pc = "body" /\ frames'[k].kind = "atomic"
              /\ frames'[k + 1].entry = Opened(frames'[k])
  <2>1. frames # <<>>
    <3>1. n # 0
      BY <1>1
    <3> QED BY <1>7, <3>1
  <2>2. frames'[k] = frames[k]
    BY Zenon, <1>1
  <2>3. CASE k = n
    <3>1. frames'[k + 1] = f /\ frames[k] = Top
      BY Zenon, <1>1, <1>4, <2>1, <2>3
    <3> QED BY Zenon, <1>4, <2>1, <2>2, <3>1
  <2>4. CASE k # n
    <3>1. k \in 1..n - 1 /\ k + 1 \in 1..n
      BY <1>1, <2>4
    <3>2. /\ frames[k].pc = "body" /\ frames[k].kind = "atomic"
          /\ frames[k + 1].entry = Opened(frames[k])
      BY Zenon, <1>5, <3>1
    <3>3. frames'[k + 1] = frames[k + 1]
      BY Zenon, <1>1, <3>1
    <3> QED BY Zenon, <2>2, <3>2, <3>3
  <2> QED BY Zenon, <2>3, <2>4
<1>12. Nested'
  <2>1. Len(frames') - 1 = n
    BY <1>1
  <2> QED BY Zenon, <1>1, <1>9, <1>10, <1>11, <2>1 DEF Nested
<1> QED BY Zenon, <1>1, <1>2, <1>12 DEF n

\* The frame of an operation entered now.
Fresh(f) ==
    /\ f.entry = db /\ f.name = nextId /\ f.outer = active /\ f.writes = {} /\ f.cause = "none"
    /\ f.bare <=> (f.kind = "write" /\ db.auto)
    /\ f.pc = IF f.bare THEN "body" ELSE "open"

LEMMA PushStep ==
    ASSUME Inv, stmt = "none", NEW f \in Frames, frames' = Append(frames, f), Fresh(f),
           frames = <<>> \/ (frames # <<>> /\ Top.pc = "body" /\ ret = "none" /\ Top.kind = "atomic"),
           nextId' = (IF f.bare THEN nextId ELSE nextId + 1), f.bare \/ nextId < MaxIds,
           active' \subseteq Tokens, delivered' \in BOOLEAN, last' = "none",
           UNCHANGED <<db, stmt, before, flag, signal, interrupts, ret, suspended, cancelled, written>>
    PROVE  Inv' /\ Honest
<1> USE DEF Fresh
<1>1. nextId' \in 0..MaxIds /\ nextId' \in Nat /\ nextId <= nextId' /\ (~f.bare => nextId < nextId')
  BY Parts, BoundAssumption
<1>2. /\ frames' \in Seq(Frames) /\ frames' # <<>> /\ Top' = f /\ Nested'
      /\ Len(frames) \in Nat /\ Len(frames') = Len(frames) + 1
      /\ \A k \in 1..Len(frames) : frames'[k] = frames[k]
  BY Zenon, <1>1, PushNested
<1>3. /\ db' = db /\ stmt' = stmt /\ before' = before /\ flag' = flag /\ signal' = signal
      /\ interrupts' = interrupts /\ ret' = ret /\ suspended' = suspended
      /\ cancelled' = cancelled /\ written' = written
  OBVIOUS
<1>4. suspended = 0 /\ ret = "none"
  <2>1. CASE frames = <<>>
    BY Zenon, <2>1, Quiet DEF Inv, Here
  <2>2. CASE frames # <<>>
    <3>1. Top.pc \notin Cleanup /\ ret = "none"
      BY <2>2 DEF Cleanup
    <3> QED BY Zenon, <2>2, <3>1, Quiet
  <2> QED BY <2>1, <2>2
<1>5. Types'
  <2>1. suspended' = IF active' # {} /\ Top'.pc \in Cleanup THEN 1 ELSE 0
    <3>1. f.pc \notin Cleanup
      BY DEF Cleanup
    <3> QED BY Zenon, <1>2, <1>3, <1>4, <3>1
  <2>2. last' \in Results \union {"none"}
    OBVIOUS
  <2> QED BY Zenon, <1>1, <1>2, <1>3, <2>1, <2>2 DEF Inv, Types, TypeOK
<1>6. Here'
  <2>1. CASE f.bare
    <3>1. f.pc = "body" /\ Base(f) = db
      BY Zenon, <2>1 DEF Base
    <3> QED BY Zenon, <1>2, <1>3, <1>4, <2>1, <3>1 DEF Here, Position, InBody
  <2>2. CASE ~f.bare
    <3>1. f.pc = "open"
      BY Zenon, <2>2
    <3>2. InOpen(f, db, "none")
      BY Zenon DEF InOpen
    <3>3. InOther(f, db, "none", "none", interrupts, nextId')
      BY <2>2, <3>1, <3>2 DEF InOther
    <3>4. f.pc # "body"
      BY <3>1
    <3> QED BY Zenon, <1>2, <1>3, <1>4, <3>3, <3>4 DEF Here, Position
  <2> QED BY <2>1, <2>2
<1>7. Undisturbed'
  <2>1. interrupts = 0 => ~flag /\ ~signal
    BY Parts
  <2> QED BY <1>3, <2>1 DEF Undisturbed
<1>8. ~Returned
  <2> DEFINE n == Len(frames)
  <2>1. n \in Nat /\ Len(frames') = n + 1
    BY Zenon, <1>2
  <2> HIDE DEF n
  <2>2. ~(n + 1 < n)
    BY <2>1
  <2> QED BY Zenon, <2>1, <2>2 DEF Returned, n
<1> QED BY Zenon, <1>2, <1>5, <1>6, <1>7, <1>8 DEF Inv, Honest

LEMMA EnterStep ==
    ASSUME Inv, NEW kind \in {"atomic", "write"}, NEW token \in Tokens \union {NoToken},
           Enter(kind, token)
    PROVE  Inv' /\ Honest
<1> DEFINE bare == kind = "write" /\ db.auto
           f == [kind |-> kind, outer |-> active, entry |-> db, bare |-> bare, name |-> nextId,
                 pc |-> IF bare THEN "body" ELSE "open", writes |-> {}, cause |-> "none"]
<1>1. /\ stmt = "none"
      /\ UNCHANGED <<db, stmt, before, flag, signal, interrupts, suspended, cancelled, written>>
      /\ frames = <<>> \/ (frames # <<>> /\ Top.pc = "body" /\ ret = "none" /\ Top.kind = "atomic")
  BY Zenon DEF Enter, At, engine, handle, guards
<1>2. \/ /\ \/ delivered' = (delivered \/ active # {}) /\ last' = "cancelled"
            \/ delivered' = delivered /\ last' = "other"
         /\ ret' = (IF frames = <<>> THEN "none" ELSE last')
         /\ UNCHANGED <<frames, active, suspended, nextId>>
      \/ /\ bare \/ nextId < MaxIds
         /\ frames' = Append(frames, f)
         /\ nextId' = IF bare THEN nextId ELSE nextId + 1
         /\ active' = active \union ({token} \ {NoToken})
         /\ delivered' = (active # {} /\ delivered)
         /\ ret' = ret /\ last' = "none"
  BY Zenon DEF Enter, guards, NextName
<1>3. CASE /\ \/ delivered' = (delivered \/ active # {}) /\ last' = "cancelled"
              \/ delivered' = delivered /\ last' = "other"
           /\ ret' = (IF frames = <<>> THEN "none" ELSE last')
           /\ UNCHANGED <<frames, active, suspended, nextId>>
  <2>1. delivered' \in BOOLEAN /\ last' \in Results \union {"none"} /\ last' \in {"cancelled", "other"}
    BY Zenon, <1>3, Parts DEF Results
  <2>2. CASE frames = <<>>
    <3>1. /\ db' = db /\ stmt' = stmt /\ before' = before /\ flag' = flag /\ signal' = signal
          /\ interrupts' = interrupts /\ suspended' = suspended /\ cancelled' = cancelled
          /\ written' = written /\ frames' = frames /\ active' = active /\ nextId' = nextId
      BY Zenon, <1>1, <1>3
    <3>2. ret = "none" /\ ret' = "none"
      BY Zenon, <1>3, <2>2 DEF Inv, Here
    <3>3. Top' = Top
      BY Zenon, <3>1 DEF Top
    <3>4. Types'
      BY Zenon, <2>1, <3>1, <3>2, <3>3 DEF Inv, Types, TypeOK
    <3>5. Nested'
      BY Zenon, <3>1 DEF Inv, Nested
    <3>6. Here'
      BY Zenon, <2>2, <3>1, <3>2 DEF Inv, Here
    <3>7. Undisturbed'
      BY Zenon, <3>1, <3>2 DEF Inv, Undisturbed
    <3>8. ~Returned
      BY <2>2, <3>1 DEF Returned
    <3> QED BY Zenon, <3>4, <3>5, <3>6, <3>7, <3>8 DEF Inv, Honest
  <2>3. CASE frames # <<>>
    <3>1. ret' = last' /\ ret' \in Errors /\ ret' \in Results \union {"none"}
      BY <1>3, <2>1, <2>3 DEF Errors, Results
    <3>2. Sound(db, nextId) /\ ~Top.bare /\ Inside(Top, db) /\ Top.pc = "body"
      BY Zenon, <1>1, <2>3, BodyIdle
    <3>3. Position(Top, db', stmt', ret', before', written', interrupts, nextId)
      BY Zenon, <1>1, <3>1, <3>2 DEF Position, InBody
    <3>4. /\ frames' = frames /\ active' = active /\ nextId' = nextId /\ db' = db /\ stmt' = stmt
          /\ before' = before /\ flag' = flag /\ signal' = signal /\ interrupts' = interrupts
          /\ suspended' = suspended /\ cancelled' = cancelled /\ written' = written
      BY Zenon, <1>1, <1>3
    <3> QED BY Zenon, <2>1, <2>3, <3>1, <3>3, <3>4, KeepStep, Parts
  <2> QED BY <2>2, <2>3
<1>4. CASE /\ bare \/ nextId < MaxIds
           /\ frames' = Append(frames, f)
           /\ nextId' = IF bare THEN nextId ELSE nextId + 1
           /\ active' = active \union ({token} \ {NoToken})
           /\ delivered' = (active # {} /\ delivered)
           /\ ret' = ret /\ last' = "none"
  <2>1. /\ f.kind = kind /\ f.entry = db /\ f.name = nextId /\ f.outer = active /\ f.writes = {}
        /\ f.cause = "none" /\ f.bare = bare /\ f.pc = IF bare THEN "body" ELSE "open"
    BY Zenon
  <2>2. bare \in BOOLEAN /\ (IF bare THEN "body" ELSE "open") \in Cleanup \union {"open", "body"}
    BY Zenon
  <2>3. f \in Frames
    <3>1. db \in Dbs /\ active \subseteq Tokens /\ nextId \in Nat
      BY Zenon, Parts
    <3> HIDE DEF bare
    <3> QED BY <2>2, <3>1 DEF Frames
  <2>4. active' \subseteq Tokens /\ delivered' \in BOOLEAN
    BY <1>4, Parts
  <2> DEFINE g == f
  <2>5. /\ g \in Frames /\ frames' = Append(frames, g) /\ Fresh(g)
        /\ nextId' = (IF g.bare THEN nextId ELSE nextId + 1) /\ (g.bare \/ nextId < MaxIds)
    BY Zenon, <1>4, <2>1, <2>3 DEF Fresh
  <2> HIDE DEF g
  <2>6. UNCHANGED <<db, stmt, before, flag, signal, interrupts, ret, suspended, cancelled, written>>
    BY Zenon, <1>1, <1>4
  <2>7. stmt = "none" /\ last' = "none"
        /\ (frames = <<>> \/ (frames # <<>> /\ Top.pc = "body" /\ ret = "none" /\ Top.kind = "atomic"))
    BY Zenon, <1>1, <1>4
  <2> QED BY Zenon, <2>4, <2>5, <2>6, <2>7, PushStep
<1> QED BY Zenon, <1>2, <1>3, <1>4

-----------------------------------------------------------------------------
(* A statement ends, and the operation goes on or returns.                  *)

\* What the end of a statement does apart from the database and the frames.
Quits ==
    /\ stmt' = "none" /\ before' \subseteq Rows /\ flag' \in BOOLEAN /\ signal' \in BOOLEAN
    /\ interrupts' = interrupts /\ (interrupts = 0 => ~flag' /\ ~signal')
    /\ delivered' \in BOOLEAN /\ cancelled' = cancelled /\ nextId' = nextId /\ written' = written

LEMMA ReturnStep ==
    ASSUME Inv, frames # <<>>, NEW r \in Results, Return(r), Quits, suspended' = 0,
           db' \in Dbs, Sound(db', nextId), Outcome(Top, db', r, interrupts),
           interrupts = 0 /\ r = "rollback" => Blame
    PROVE  Inv' /\ Honest
BY Zenon, PopStep DEF Quits

\* Frames with the same entry, name and writes make the same databases.
Twins(f, g) ==
    /\ g.entry = f.entry /\ g.name = f.name /\ g.kind = f.kind /\ g.outer = f.outer
    /\ g.bare = f.bare

LEMMA TwinFacts ==
    ASSUME NEW f, NEW g, Twins(f, g)
    PROVE  /\ Marked(g) = Marked(f)
           /\ g.writes = f.writes => Opened(g) = Opened(f) /\ Done(g) = Done(f)
           /\ \A d : (Inside(g, d) <=> Inside(f, d)) /\ (Outside(g, d) <=> Outside(f, d))
<1>1. Marked(g) = Marked(f)
  BY Zenon DEF Twins, Marked
<1>2. g.writes = f.writes => RowsOf(g) = RowsOf(f)
  BY Zenon DEF RowsOf
<1>3. g.writes = f.writes => Opened(g) = Opened(f) /\ Done(g) = Done(f)
  BY Zenon, <1>1, <1>2 DEF Opened, Done, Twins
<1>4. \A d : (Inside(g, d) <=> Inside(f, d)) /\ (Outside(g, d) <=> Outside(f, d))
  BY Zenon, <1>1 DEF Inside, Outside, Twins
<1> QED BY <1>1, <1>3, <1>4

LEMMA GoesOn ==
    ASSUME Inv, frames # <<>>, NEW g \in Frames, frames' = [frames EXCEPT ![Len(frames)] = g],
           Twins(Top, g), Quits, active' = active, db' \in Dbs,
           ret' \in Results \union {"none"}, last' \in Results \union {"none"},
           suspended' = (IF active # {} /\ g.pc \in Cleanup THEN 1 ELSE 0),
           Position(g, db', "none", ret', before', written', interrupts, nextId)
    PROVE  Inv' /\ Honest
<1>1. stmt' \in {"none", "start", "half", "end", "commit"} /\ written' \in 0..MaxWrites
  BY Parts DEF Quits
<1> QED BY Zenon, <1>1, StayStep DEF Quits, Twins

\* The cleanups an operation can turn to, with the state they begin in.
Towards(f, d, e, pc, i, next) ==
    /\ ~f.bare
    /\ \/ /\ pc = "undoOpen" /\ e \in {"cancelled", "other"}
          /\ (d = f.entry /\ ~f.entry.auto) \/ d = Marked(f)
       \/ pc = "release" /\ e = "none" /\ d = Opened(f)
       \/ /\ pc = "undo" /\ e \in Errors
          /\ (Inside(f, d) /\ Sound(d, next)) \/ (~f.entry.auto /\ d = Done(f) /\ i > 0)
       \/ pc = "drop" /\ f.kind = "write" /\ e = "other" /\ Inside(f, d) /\ Sound(d, next)

LEMMA TowardsPosition ==
    ASSUME NEW f, NEW g, Twins(f, g), g.writes = f.writes, NEW d, NEW e, NEW pc, NEW i, NEW next,
           g.pc = pc, g.cause = e, Towards(f, d, e, pc, i, next)
    PROVE  pc # "body" /\ pc \in Cleanup /\ InOther(g, d, "none", "none", i, next)
<1>1. /\ Marked(g) = Marked(f) /\ Opened(g) = Opened(f) /\ Done(g) = Done(f)
      /\ Inside(g, d) <=> Inside(f, d)
  BY Zenon, TwinFacts
<1>2. g.entry = f.entry /\ g.kind = f.kind /\ g.bare = f.bare
  BY Zenon DEF Twins
<1>3. CASE pc = "undoOpen"
  <2>1. InUndoOpen(g, d, "none")
    BY <1>1, <1>2, <1>3 DEF InUndoOpen, Towards
  <2> QED BY <1>2, <1>3, <2>1 DEF InOther, Towards, Cleanup
<1>4. CASE pc = "release"
  <2>1. InRelease(g, d, "none")
    BY <1>1, <1>2, <1>4 DEF InRelease, Towards
  <2> QED BY <1>2, <1>4, <2>1 DEF InOther, Towards, Cleanup
<1>5. CASE pc = "undo"
  <2>1. InUndo(g, d, "none", i, next)
    BY <1>1, <1>2, <1>5 DEF InUndo, Towards
  <2> QED BY <1>2, <1>5, <2>1 DEF InOther, Towards, Cleanup
<1>6. CASE pc = "drop"
  <2>1. InDrop(g, d, "none", next)
    BY <1>1, <1>2, <1>6 DEF InDrop, Towards, Keeps, Errors, Results
  <2> QED BY <1>2, <1>6, <2>1 DEF InOther, Towards, Cleanup
<1> QED BY <1>3, <1>4, <1>5, <1>6 DEF Towards

LEMMA UnwindStep ==
    ASSUME Inv, frames # <<>>, NEW e, NEW pc, Unwind(e, pc), Quits, db' \in Dbs,
           suspended' = (IF active # {} THEN 1 ELSE 0), Towards(Top, db', e, pc, interrupts, nextId)
    PROVE  Inv' /\ Honest
<1> DEFINE g == [Top EXCEPT !.pc = pc, !.cause = e]
<1>1. Top \in Frames /\ frames \in Seq(Frames) /\ Top = frames[Len(frames)]
      /\ Len(frames) \in 1..Len(frames)
  BY Zenon, Now
<1>2. pc \in Cleanup /\ e \in Results \union {"none"}
  BY DEF Towards, Cleanup, Errors, Results
<1>3. frames' = [frames EXCEPT ![Len(frames)] = g]
  <2>1. frames' = [frames EXCEPT ![Len(frames)].pc = pc, ![Len(frames)].cause = e]
    BY Zenon DEF Unwind
  <2> QED BY Zenon, <1>1, <2>1
<1>4. /\ g \in Frames /\ Twins(Top, g) /\ g.writes = Top.writes /\ g.pc = pc /\ g.cause = e
  BY Zenon, <1>1, <1>2 DEF Frames, Twins
<1> HIDE DEF g
<1>5. pc # "body" /\ InOther(g, db', "none", "none", interrupts, nextId)
  BY Zenon, <1>4, TowardsPosition
<1>6. ret' = "none" /\ last' = last /\ active' = active
  BY Zenon DEF Unwind
<1>7. Position(g, db', "none", ret', before', written', interrupts, nextId)
  BY Zenon, <1>4, <1>5, <1>6 DEF Position
<1>8. ret' \in Results \union {"none"} /\ last' \in Results \union {"none"}
  BY <1>6, Parts
<1>9. suspended' = IF active # {} /\ g.pc \in Cleanup THEN 1 ELSE 0
  BY Zenon, <1>2, <1>4
<1> QED BY Zenon, <1>3, <1>4, <1>6, <1>7, <1>8, <1>9, GoesOn

LEMMA Guards ==
    ASSUME Inv, frames # <<>>
    PROVE  /\ Top.pc \in Cleanup => suspended = (IF active # {} THEN 1 ELSE 0) /\ (Resume => suspended' = 0)
           /\ Top.pc \notin Cleanup =>
                 suspended = 0 /\ (Suspend => suspended' = (IF active # {} THEN 1 ELSE 0))
           /\ Top.pc \in Cleanup => ~Requested
<1>1. suspended = IF active # {} /\ Top.pc \in Cleanup THEN 1 ELSE 0
  BY Zenon, Quiet
<1>2. CASE active = {}
  BY <1>1, <1>2 DEF Resume, Suspend, Requested
<1>3. CASE active # {}
  BY <1>1, <1>3 DEF Resume, Suspend, Requested
<1> QED BY <1>2, <1>3

\* What a statement that failed with e has to leave, wherever f is.
Verdict(f, d, e, missing, i, next) ==
    /\ f.pc = "open" =>
          IF d.auto THEN Outcome(f, d, e, i) ELSE Towards(f, d, e, "undoOpen", i, next)
    /\ f.pc = "body" =>
          IF f.bare THEN d.auto /\ (e = "cancelled" => d = f.entry)
          ELSE Inside(f, d) \/ (e # "cancelled" /\ d = RolledBack(f.entry))
    /\ f.pc = "release" =>
          IF d.auto THEN Outcome(f, d, e, i) ELSE Towards(f, d, e, "undo", i, next)
    /\ f.pc \in {"undoOpen", "dropOpen"} => Outcome(f, d, IF missing THEN f.cause ELSE "rollback", i)
    /\ f.pc \in {"undo", "drop"} => Outcome(f, d, "rollback", i)

LEMMA FailedStep ==
    ASSUME Inv, frames # <<>>, NEW e \in {"cancelled", "other"}, NEW missing \in BOOLEAN,
           Failed(e, missing, db'), Quits, db' \in Dbs, Sound(db', nextId),
           Verdict(Top, db', e, missing, interrupts, nextId),
           missing /\ Top.pc \in {"undoOpen", "dropOpen"} => Top.cause \in Results,
           interrupts = 0 /\ Top.pc \in Cleanup \ {"release"} => Blame \/ missing,
           missing /\ Top.pc \in {"undo", "drop"} => interrupts # 0
    PROVE  Inv' /\ Honest
<1>1. e \in Results /\ e \in Errors /\ "rollback" \in Results /\ e # "rollback"
  BY DEF Results, Errors
<1>2. \/ Top.pc = "open" /\ db'.auto /\ Return(e) /\ UNCHANGED suspended
      \/ Top.pc = "open" /\ ~db'.auto /\ Unwind(e, "undoOpen") /\ Suspend
      \/ /\ Top.pc = "body" /\ ret' = e
         /\ UNCHANGED <<frames, last, active, suspended>>
      \/ Top.pc = "release" /\ db'.auto /\ Resume /\ Return(e)
      \/ Top.pc = "release" /\ ~db'.auto /\ Unwind(e, "undo") /\ UNCHANGED suspended
      \/ /\ Top.pc \in {"undoOpen", "dropOpen"} /\ Resume
         /\ Return(IF missing THEN Top.cause ELSE "rollback")
      \/ Top.pc \in {"undo", "drop"} /\ Resume /\ Return("rollback")
  BY Zenon DEF Failed, StartCleanup
<1>3. CASE Top.pc = "open" /\ db'.auto /\ Return(e) /\ UNCHANGED suspended
  <2>1. Top.pc \notin Cleanup
    BY <1>3 DEF Cleanup
  <2>2. suspended' = 0
    BY Zenon, <1>3, <2>1, Guards
  <2>3. Outcome(Top, db', e, interrupts)
    BY Zenon, <1>3 DEF Verdict
  <2> QED BY Zenon, <1>1, <1>3, <2>2, <2>3, ReturnStep
<1>4. CASE Top.pc = "open" /\ ~db'.auto /\ Unwind(e, "undoOpen") /\ Suspend
  <2>1. Top.pc \notin Cleanup
    BY <1>4 DEF Cleanup
  <2>2. suspended' = IF active # {} THEN 1 ELSE 0
    BY Zenon, <1>4, <2>1, Guards
  <2>3. Towards(Top, db', e, "undoOpen", interrupts, nextId)
    BY Zenon, <1>4 DEF Verdict
  <2> QED BY Zenon, <1>4, <2>2, <2>3, UnwindStep
<1>5. CASE Top.pc = "body" /\ ret' = e /\ UNCHANGED <<frames, last, active, suspended>>
  <2>1. Position(Top, db', stmt', ret', before', written', interrupts, nextId)
    BY Zenon, <1>1, <1>5 DEF Verdict, Quits, Position, InBody
  <2>2. stmt' \in {"none", "start", "half", "end", "commit"} /\ written' \in 0..MaxWrites
        /\ last \in Results \union {"none"}
    BY Parts DEF Quits
  <2>3. frames' = frames /\ last' = last /\ active' = active /\ suspended' = suspended
    BY Zenon, <1>5
  <2>4. ret' \in Results \union {"none"} /\ last' \in Results \union {"none"}
    BY <1>1, <1>5, <2>2, <2>3
  <2> QED BY Zenon, <2>1, <2>2, <2>3, <2>4, KeepStep DEF Quits
<1>6. CASE Top.pc = "release" /\ db'.auto /\ Resume /\ Return(e)
  <2>1. Top.pc \in Cleanup
    BY <1>6 DEF Cleanup
  <2>2. suspended' = 0
    BY Zenon, <1>6, <2>1, Guards
  <2>3. Outcome(Top, db', e, interrupts)
    BY Zenon, <1>6 DEF Verdict
  <2> QED BY Zenon, <1>1, <1>6, <2>2, <2>3, ReturnStep
<1>7. CASE Top.pc = "release" /\ ~db'.auto /\ Unwind(e, "undo") /\ UNCHANGED suspended
  <2>1. Top.pc \in Cleanup
    BY <1>7 DEF Cleanup
  <2>2. suspended' = IF active # {} THEN 1 ELSE 0
    BY Zenon, <1>7, <2>1, Guards
  <2>3. Towards(Top, db', e, "undo", interrupts, nextId)
    BY Zenon, <1>7 DEF Verdict
  <2> QED BY Zenon, <1>7, <2>2, <2>3, UnwindStep
<1>8. CASE /\ Top.pc \in {"undoOpen", "dropOpen"} /\ Resume
           /\ Return(IF missing THEN Top.cause ELSE "rollback")
  <2> DEFINE r == IF missing THEN Top.cause ELSE "rollback"
  <2>1. Top.pc \in Cleanup
    BY <1>8 DEF Cleanup
  <2>2. suspended' = 0
    BY Zenon, <1>8, <2>1, Guards
  <2>3. Outcome(Top, db', r, interrupts) /\ Return(r) /\ r \in Results
    BY Zenon, <1>1, <1>8 DEF Verdict
  <2>4. interrupts = 0 /\ r = "rollback" => Blame
    <3>1. CASE missing
      BY Zenon, <3>1 DEF Blame
    <3>2. CASE ~missing
      <4>1. Top.pc \in Cleanup \ {"release"}
        BY <1>8 DEF Cleanup
      <4> QED BY Zenon, <3>2, <4>1
    <3> QED BY <3>1, <3>2
  <2> HIDE DEF r
  <2> QED BY Zenon, <2>2, <2>3, <2>4, ReturnStep
<1>9. CASE Top.pc \in {"undo", "drop"} /\ Resume /\ Return("rollback")
  <2>1. Top.pc \in Cleanup
    BY <1>9 DEF Cleanup
  <2>2. suspended' = 0
    BY Zenon, <1>9, <2>1, Guards
  <2>3. Outcome(Top, db', "rollback", interrupts)
    BY Zenon, <1>9 DEF Verdict
  <2>4. interrupts = 0 => Blame
    <3>1. Top.pc \in Cleanup \ {"release"}
      BY <1>9 DEF Cleanup
    <3> QED BY Zenon, <1>9, <3>1
  <2> QED BY Zenon, <1>1, <1>9, <2>2, <2>3, <2>4, ReturnStep
<1> QED BY Zenon, <1>2, <1>3, <1>4, <1>5, <1>6, <1>7, <1>8, <1>9

\* What a statement that succeeded has to leave.
Reached(f, d, w, i, next) ==
    /\ f.pc \in {"open", "undoOpen", "undo"} => d = Marked(f) /\ ~f.bare
    /\ f.pc = "open" => f.writes = {}
    /\ f.pc = "undoOpen" => f.cause \in {"cancelled", "other"}
    /\ f.pc = "undo" => f.cause \in Errors
    /\ f.pc = "body" => \A g \in Frames :
          Twins(f, g) /\ g.writes = f.writes \union {w} => d = IF f.bare THEN Done(g) ELSE Opened(g)
    /\ f.pc = "release" => Outcome(f, d, "ok", i)
    /\ f.pc \in {"dropOpen", "drop"} => f.cause \in Results /\ Outcome(f, d, f.cause, i)

LEMMA OpenedUnwritten ==
    ASSUME NEW f \in Frames, f.writes = {}
    PROVE  Opened(f) = Marked(f)
<1>1. RowsOf(f) = {}
  BY DEF RowsOf
<1>2. Marked(f) \in Dbs
  BY Zenon, MarkedFields
<1> QED BY Zenon, <1>1, <1>2, SamePages DEF Opened

LEMMA SucceededStep ==
    ASSUME Inv, frames # <<>>, stmt # "none", Succeeded, Quits, db' \in Dbs, Sound(db', nextId),
           Top.pc = "body" => ret = "none" /\ written \in 1..MaxWrites,
           Reached(Top, db', written, interrupts, nextId)
    PROVE  Inv' /\ Honest
<1>1. /\ Top \in Frames /\ frames \in Seq(Frames) /\ Top = frames[Len(frames)]
      /\ Len(frames) \in 1..Len(frames)
      /\ Position(Top, db, stmt, ret, before, written, interrupts, nextId)
      /\ Top.bare <=> (Top.kind = "write" /\ Top.entry.auto)
  BY Zenon, Now
<1>2. last \in Results \union {"none"} /\ "ok" \in Results /\ "ok" # "rollback"
  BY Parts DEF Results
<1>3. CASE /\ Top.pc \in {"open", "undoOpen", "undo"}
           /\ Goto(CASE Top.pc = "open" -> "body" [] Top.pc = "undoOpen" -> "dropOpen"
                     [] OTHER -> "drop")
           /\ UNCHANGED <<ret, last, active, suspended>>
  <2> DEFINE pc == CASE Top.pc = "open" -> "body" [] Top.pc = "undoOpen" -> "dropOpen"
                     [] OTHER -> "drop"
             g == [Top EXCEPT !.pc = pc]
  <2>1. /\ Top.pc = "open" => pc = "body"
        /\ Top.pc = "undoOpen" => pc = "dropOpen"
        /\ Top.pc = "undo" => pc = "drop"
    OBVIOUS
  <2>2. frames' = [frames EXCEPT ![Len(frames)].pc = pc]
    BY Zenon, <1>3 DEF Goto
  <2> HIDE DEF pc
  <2>3. frames' = [frames EXCEPT ![Len(frames)] = g]
    BY <1>1, <2>2
  <2>4. pc \in Cleanup \union {"open", "body"}
    BY <1>3, <2>1 DEF Cleanup
  <2>5. /\ g \in Frames /\ Twins(Top, g) /\ g.writes = Top.writes /\ g.pc = pc /\ g.cause = Top.cause
        /\ g.kind = Top.kind /\ g.bare = Top.bare
    BY <1>1, <2>4 DEF Frames, Twins
  <2>6. ret' = ret /\ last' = last /\ active' = active /\ suspended' = suspended /\ ret = "none"
    <3>1. Top.pc # "body"
      BY <1>3
    <3> QED BY Zenon, <1>1, <1>3, <3>1 DEF Position, InOther
  <2> HIDE DEF g
  <2>7. Marked(g) = Marked(Top) /\ Opened(g) = Opened(Top)
    BY Zenon, <2>5, TwinFacts
  <2>8. db' = Marked(g) /\ ~g.bare
    BY Zenon, <1>3, <2>5, <2>7 DEF Reached
  <2>9. Position(g, db', "none", ret', before', written', interrupts, nextId)
    <3>1. CASE Top.pc = "open"
      <4>1. g.writes = {} /\ g.pc = "body"
        BY Zenon, <2>1, <2>5, <3>1 DEF Reached
      <4>2. db' = Base(g)
        BY Zenon, <2>5, <2>8, <4>1, OpenedUnwritten DEF Base
      <4> QED BY Zenon, <2>6, <4>1, <4>2 DEF Position, InBody
    <3>2. CASE Top.pc = "undoOpen"
      <4>1. g.cause \in {"cancelled", "other"} /\ g.pc = "dropOpen"
        BY Zenon, <2>1, <2>5, <3>2 DEF Reached
      <4>2. InDrop(g, db', "none", nextId)
        BY <2>8, <4>1 DEF InDrop, Errors, Results
      <4> QED BY <2>6, <2>8, <4>1, <4>2 DEF Position, InOther
    <3>3. CASE Top.pc = "undo"
      <4>1. g.cause \in Errors /\ g.pc = "drop"
        BY Zenon, <2>1, <2>5, <3>3 DEF Reached
      <4>2. InDrop(g, db', "none", nextId)
        BY <2>8, <4>1 DEF InDrop, Errors, Results
      <4> QED BY <2>6, <2>8, <4>1, <4>2 DEF Position, InOther
    <3> QED BY <1>3, <3>1, <3>2, <3>3
  <2>10. suspended' = IF active # {} /\ g.pc \in Cleanup THEN 1 ELSE 0
    <3>1. Top.pc \in Cleanup <=> g.pc \in Cleanup
      BY <1>3, <2>1, <2>5 DEF Cleanup
    <3> QED BY Zenon, <2>6, <3>1, Quiet
  <2>11. ret' \in Results \union {"none"} /\ last' \in Results \union {"none"}
    BY <1>2, <2>6
  <2> QED BY Zenon, <1>2, <2>3, <2>5, <2>6, <2>9, <2>10, <2>11, GoesOn
<1>4. CASE /\ Top.pc = "body"
           /\ frames' = [frames EXCEPT ![Len(frames)].writes = @ \union {written}]
           /\ ret' = IF Top.kind = "write" THEN "ok" ELSE "none"
           /\ UNCHANGED <<last, active, suspended>>
  <2> DEFINE ws == Top.writes \union {written}
             g == [Top EXCEPT !.writes = ws]
  <2>1. ws \subseteq 1..MaxWrites
    BY <1>1, <1>4 DEF Frames
  <2>2. frames' = [frames EXCEPT ![Len(frames)] = g]
    BY <1>1, <1>4
  <2> HIDE DEF ws
  <2>3. /\ g \in Frames /\ Twins(Top, g) /\ g.writes = ws /\ g.pc = "body" /\ g.cause = Top.cause
        /\ g.bare = Top.bare
    BY Zenon, <1>1, <1>4, <2>1 DEF Frames, Twins
  <2> HIDE DEF g
  <2>4. db' = IF g.bare THEN Done(g) ELSE Opened(g)
    BY Zenon, <1>4, <2>3 DEF Reached, ws
  <2>5. Position(g, db', "none", ret', before', written', interrupts, nextId)
    <3>1. CASE Top.kind = "write"
      <4>1. ret' = "ok"
        BY Zenon, <1>4, <3>1
      <4> QED BY Zenon, <2>3, <2>4, <4>1 DEF Position, InBody
    <3>2. CASE Top.kind # "write"
      <4>1. ret' = "none" /\ ~g.bare
        BY Zenon, <1>1, <1>4, <2>3, <3>2
      <4>2. db' = Base(g)
        BY Zenon, <2>4, <4>1 DEF Base
      <4> QED BY Zenon, <2>3, <4>1, <4>2 DEF Position, InBody
    <3> QED BY <3>1, <3>2
  <2>6. suspended' = IF active # {} /\ g.pc \in Cleanup THEN 1 ELSE 0
    BY Zenon, <1>4, <2>3, Quiet
  <2>7. ret' \in Results \union {"none"} /\ last' \in Results \union {"none"} /\ active' = active
    BY <1>2, <1>4
  <2> QED BY Zenon, <1>2, <2>2, <2>3, <2>5, <2>6, <2>7, GoesOn
<1>5. CASE Top.pc = "release" /\ Resume /\ Return("ok")
  <2>1. Top.pc \in Cleanup
    BY <1>5 DEF Cleanup
  <2>2. suspended' = 0
    BY Zenon, <1>5, <2>1, Guards
  <2>3. Outcome(Top, db', "ok", interrupts)
    BY Zenon, <1>5 DEF Reached
  <2> QED BY Zenon, <1>2, <1>5, <2>2, <2>3, ReturnStep
<1>6. CASE Top.pc \in {"dropOpen", "drop"} /\ Resume /\ Return(Top.cause)
  <2>1. Top.pc \in Cleanup
    BY <1>6 DEF Cleanup
  <2>2. suspended' = 0
    BY Zenon, <1>6, <2>1, Guards
  <2>3. Outcome(Top, db', Top.cause, interrupts) /\ Top.cause \in Results
    BY Zenon, <1>6 DEF Reached
  <2>4. Top.cause = "rollback" => Blame
    BY Zenon DEF Blame
  <2> QED BY Zenon, <1>6, <2>2, <2>3, <2>4, ReturnStep
<1> QED BY Zenon, <1>3, <1>4, <1>5, <1>6 DEF Succeeded

-----------------------------------------------------------------------------
(* The callback has returned.                                               *)

LEMMA BodyDone ==
    ASSUME Inv, frames # <<>>, stmt = "none", Top.pc = "body", ret # "none"
    PROVE  /\ Sound(db, nextId)
           /\ ret = "ok" => db = IF Top.bare THEN Done(Top) ELSE Opened(Top)
           /\ ret # "ok" => ret \in Errors /\
                 IF Top.bare THEN db.auto /\ ret # "rollback" /\ (ret = "cancelled" => db = Top.entry)
                 ELSE Inside(Top, db) \/ (ret # "cancelled" /\ db = RolledBack(Top.entry))
<1>1. /\ Top \in Frames /\ Sound(Top.entry, Top.name) /\ Top.name <= nextId /\ nextId \in Nat
      /\ ~Top.bare => Top.name < nextId
  BY Zenon, Now
<1>2. InBody(Top, db, "none", ret, before, written, nextId)
  BY Zenon, Now DEF Position
<1>3. CASE ret = "ok"
  <2>1. db = IF Top.bare THEN Done(Top) ELSE Opened(Top)
    BY <1>2, <1>3 DEF InBody, Errors, Results
  <2>2. Sound(db, nextId)
    BY Zenon, <1>1, <2>1, DoneSound, MarkedSound
  <2> QED BY <1>3, <2>1, <2>2
<1>4. CASE ret # "ok"
  <2>1. /\ ret \in Errors /\ Sound(db, nextId)
        /\ IF Top.bare THEN db.auto /\ ret # "rollback" /\ (ret = "cancelled" => db = Top.entry)
           ELSE Inside(Top, db) \/ (ret # "cancelled" /\ db = RolledBack(Top.entry))
    <3> DEFINE A == Base(Top)
               B == IF Top.bare THEN Done(Top) ELSE Opened(Top)
               C == IF Top.bare THEN db.auto /\ ret # "rollback" /\ (ret = "cancelled" => db = Top.entry)
                    ELSE Inside(Top, db) \/ (ret # "cancelled" /\ db = RolledBack(Top.entry))
    <3>1. ret \in Errors /\ Sound(db, nextId) /\ C
      BY Zenon, <1>2, <1>4 DEF InBody
    <3> QED BY <3>1
  <2> QED BY <1>4, <2>1
<1> QED BY <1>3, <1>4

LEMMA AfterCallbackStep ==
    ASSUME Inv, AfterCallback
    PROVE  Inv' /\ Honest
<1> DEFINE late == ret = "ok" /\ Requested /\ ~Top.bare
           error == IF late THEN "cancelled" ELSE ret
           undo == Top.kind = "atomic" \/ error \in {"cancelled", "rollback"}
<1>1. /\ stmt = "none" /\ frames # <<>> /\ Top.pc = "body" /\ ret # "none"
      /\ delivered' = (delivered \/ late)
      /\ db' = db /\ stmt' = stmt /\ before' = before /\ flag' = flag /\ signal' = signal
      /\ interrupts' = interrupts /\ cancelled' = cancelled /\ nextId' = nextId /\ written' = written
  BY Zenon DEF AfterCallback, At, engine, handle, counts
<1>2. \/ (Top.bare \/ (error # "ok" /\ db.auto)) /\ Return(error) /\ UNCHANGED suspended
      \/ ~Top.bare /\ error = "ok" /\ Unwind("none", "release") /\ Suspend
      \/ /\ ~Top.bare /\ error # "ok" /\ ~db.auto
         /\ Unwind(error, IF undo THEN "undo" ELSE "drop") /\ Suspend
  BY Zenon DEF AfterCallback, StartCleanup
<1>3. /\ Top \in Frames /\ Sound(Top.entry, Top.name) /\ nextId \in Nat
      /\ ~Top.bare => Top.name < nextId
      /\ Top.bare <=> (Top.kind = "write" /\ Top.entry.auto)
      /\ Top.kind \in {"atomic", "write"}
  BY Zenon, <1>1, Now, FrameFields
<1>4. /\ db \in Dbs /\ before \subseteq Rows /\ flag \in BOOLEAN /\ signal \in BOOLEAN
      /\ ret \in Results /\ delivered \in BOOLEAN
      /\ interrupts = 0 => ~flag /\ ~signal
  BY Zenon, <1>1, Parts
<1>5. Quits
  <2>1. delivered' \in BOOLEAN
    BY <1>1, <1>4
  <2> QED BY Zenon, <1>1, <1>4, <2>1 DEF Quits
<1>6. /\ Sound(db, nextId)
      /\ ret = "ok" => db = IF Top.bare THEN Done(Top) ELSE Opened(Top)
      /\ ret # "ok" => ret \in Errors /\
            IF Top.bare THEN db.auto /\ ret # "rollback" /\ (ret = "cancelled" => db = Top.entry)
            ELSE Inside(Top, db) \/ (ret # "cancelled" /\ db = RolledBack(Top.entry))
  BY Zenon, <1>1, BodyDone
<1>7. /\ error \in Results /\ (error = "rollback" => ret = "rollback")
      /\ late => error = "cancelled" /\ ret = "ok"
      /\ ~late => error = ret
  BY <1>4 DEF Results
<1>8. suspended = 0 /\ (Suspend => suspended' = (IF active # {} THEN 1 ELSE 0))
  <2>1. Top.pc \notin Cleanup
    BY <1>1 DEF Cleanup
  <2> QED BY Zenon, <1>1, <2>1, Guards
<1>9. ASSUME ~Top.bare, ret = "ok" PROVE db = Opened(Top) /\ ~db.auto /\ Inside(Top, db)
  <2>1. db = Opened(Top)
    BY Zenon, <1>6, <1>9
  <2>2. Opened(Top).auto = FALSE
    BY Zenon, <1>3, OpenedFields
  <2>3. ~db.auto
    BY <2>1, <2>2
  <2> QED BY Zenon, <1>3, <1>9, <2>1, <2>3, MarkedSound
<1>10. CASE (Top.bare \/ (error # "ok" /\ db.auto)) /\ Return(error) /\ UNCHANGED suspended
  <2>1. Outcome(Top, db, error, interrupts)
    <3>1. CASE Top.bare
      <4>1. ~late /\ error = ret /\ Top.kind = "write" /\ Top.entry.auto
        BY Zenon, <1>3, <1>7, <3>1
      <4>2. Top.kind # "atomic"
        BY <4>1
      <4>3. ret = "ok" => db = Done(Top)
        BY Zenon, <1>6, <3>1
      <4>4. ret = "cancelled" => db = Top.entry
        <5>1. ret = "cancelled" => ret # "ok"
          OBVIOUS
        <5> QED BY Zenon, <1>6, <3>1, <5>1
      <4>5. ret # "rollback"
        <5>1. ret = "rollback" => ret # "ok"
          OBVIOUS
        <5> QED BY Zenon, <1>6, <3>1, <5>1
      <4> HIDE DEF error, late
      <4> QED BY Zenon, <1>4, <4>1, <4>2, <4>3, <4>4, <4>5 DEF Outcome
    <3>2. CASE ~Top.bare
      <4>1. error # "ok" /\ db.auto
        BY Zenon, <1>10, <3>2
      <4>2. ret # "ok" /\ ~late /\ error = ret
        BY Zenon, <1>7, <1>9, <3>2, <4>1
      <4>3. ~Inside(Top, db)
        BY Zenon, <4>1 DEF Inside
      <4>4. ret # "cancelled" /\ db = RolledBack(Top.entry)
        BY Zenon, <1>6, <3>2, <4>2, <4>3
      <4>5. db.disk = Top.entry.disk
        BY Zenon, <1>3, <4>4, FrameFields, RolledBackFields
      <4> HIDE DEF error, late
      <4> QED BY Zenon, <1>4, <4>2, <4>4, <4>5 DEF Outcome
    <3> QED BY <3>1, <3>2
  <2>2. Outcome(Top, db', error, interrupts) /\ Sound(db', nextId) /\ db' \in Dbs /\ suspended' = 0
    BY Zenon, <1>1, <1>4, <1>6, <1>8, <1>10, <2>1
  <2>3. error = "rollback" => Blame
    BY Zenon, <1>7 DEF Blame
  <2> HIDE DEF error
  <2> QED BY Zenon, <1>1, <1>5, <1>7, <1>10, <2>2, <2>3, ReturnStep
<1>11. CASE ~Top.bare /\ error = "ok" /\ Unwind("none", "release") /\ Suspend
  <2>1. ~late /\ ret = "ok"
    <3>1. "cancelled" # "ok"
      OBVIOUS
    <3> QED BY Zenon, <1>7, <1>11, <3>1
  <2>2. Towards(Top, db', "none", "release", interrupts, nextId)
    <3>1. db' = Opened(Top)
      BY Zenon, <1>1, <1>9, <1>11, <2>1
    <3> QED BY <1>11, <3>1 DEF Towards
  <2> QED BY Zenon, <1>1, <1>4, <1>5, <1>8, <1>11, <2>2, UnwindStep
<1>12. CASE /\ ~Top.bare /\ error # "ok" /\ ~db.auto
            /\ Unwind(error, IF undo THEN "undo" ELSE "drop") /\ Suspend
  <2> DEFINE pc == IF undo THEN "undo" ELSE "drop"
  <2>1. Inside(Top, db)
    <3>1. CASE ret = "ok"
      BY Zenon, <1>9, <1>12, <3>1
    <3>2. CASE ret # "ok"
      <4>1. db # RolledBack(Top.entry)
        <5>1. RolledBack(Top.entry).auto = TRUE
          BY Zenon, <1>3, FrameFields, RolledBackFields
        <5> QED BY <1>12, <5>1
      <4> QED BY Zenon, <1>6, <1>12, <3>2, <4>1
    <3> QED BY <3>1, <3>2
  <2>2. error \in Errors
    BY Zenon, <1>7, <1>12 DEF Errors
  <2>3. pc = "undo" \/ (pc = "drop" /\ Top.kind = "write" /\ error = "other")
    <3> HIDE DEF error
    <3> QED BY <1>3, <2>2 DEF Errors, Results
  <2> HIDE DEF pc, error
  <2>4. Towards(Top, db', error, pc, interrupts, nextId)
    <3>1. CASE pc = "undo"
      BY <1>1, <1>6, <1>7, <1>12, <2>1, <2>2, <3>1 DEF Towards
    <3>2. CASE pc = "drop" /\ Top.kind = "write" /\ error = "other"
      BY <1>1, <1>6, <1>7, <1>12, <2>1, <3>2 DEF Towards
    <3> QED BY <2>3, <3>1, <3>2
  <2>5. Unwind(error, pc)
    BY Zenon, <1>12 DEF pc
  <2> QED BY Zenon, <1>1, <1>4, <1>5, <1>8, <1>12, <2>4, <2>5, UnwindStep
<1> QED BY Zenon, <1>2, <1>10, <1>11, <1>12
=============================================================================
