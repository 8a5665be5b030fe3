---------------------------- MODULE CourseCatalog ----------------------------
(***************************************************************************)
(* The catalogue of a course: its entries in two levels, and the rows that *)
(* put lessons under them (service/goods/course.go,                        *)
(* adaptor/repo/goods/course.go), under requests of the back office that   *)
(* overlap.  A new item reads the largest position among its siblings and  *)
(* is inserted after it by a second statement.  UpdateCatalogSort writes   *)
(* the rows of a page in one transaction: it changes a row in place, holds *)
(* the row's lock to its end, and others read the version before.          *)
(*                                                                         *)
(* Entries and rows have much in common and are both called items: an id,  *)
(* a parent (parent_id, or catalog_id) and a position among their          *)
(* siblings.  Names, durations and show times are left out, and with them  *)
(* UpdateCatalog, which writes only a name.                                *)
(***************************************************************************)
EXTENDS Integers, Sequences, Functions

CONSTANTS
  Requests,      \* the requests of a behaviour
  Entries,       \* ids of course_catalog
  Rows,          \* ids of course_lessons
  LessonIds,     \* the lessons there are
  Picks,         \* the lists of lessons that are added together
  Layouts,       \* the arrangements that pages ask for
  FirstEntries,  \* the entries there are at first
  Root,          \* the parent of an entry of the first level
  MaxFailures,   \* bound: failed statements and lost servers in a behaviour
  NoLesson       \* the lesson of a row that is not there

Items == Entries \cup Rows

(* What a page asks of one item, see UpdateCatalogSortDto.                 *)
Slot == [item : Items, under : Entries \cup {Root}, sort : Nat]

ASSUME CatalogAssumption ==
  /\ Entries \subseteq Nat
  /\ Rows \subseteq Nat
  /\ Entries \cap Rows = {}
  /\ FirstEntries \subseteq Entries
  /\ Picks \subseteq Seq(LessonIds)
  /\ Layouts \subseteq Seq(Slot)
  /\ Root \notin Items
  /\ NoLesson \notin LessonIds
  /\ MaxFailures \in Nat

VARIABLES
  \* MySQL
  presence,    \* is an item "Absent", "Here" or "Deleted"?
  parent,      \* course_catalog.parent_id, course_lessons.catalog_id
  sort,        \* its position
  undo,        \* the version before that of a transaction not yet committed
  lesson,      \* course_lessons.lesson_id
  trial,       \* course_lessons.enable_trial = 1
  \* requests
  pc,          \* what a request does next
  target,      \* the entry it adds to
  top,         \* the largest position it has read
  picks,       \* AddCatalogLesson: the lessons to be added
  list,        \* UpdateCatalogSort: the arrangement
  written,     \* UpdateCatalogSort: how many of its rows are written
  failures,    \* failures so far
  \* history
  ahead,       \* the siblings a request has found when it read their positions
  older,       \* those of the request that has added an item
  placed,      \* items that have been part of an arrangement
  arrangement  \* the arrangement that was committed last

rowVars     == <<presence, parent, sort, undo, lesson, trial>>
requestVars == <<target, top, picks, list, written>>
history     == <<ahead, older, placed, arrangement>>
catalogVars == <<rowVars, pc, requestVars, failures, history>>

Here(S)  == {i \in S : presence[i] = "Here"}
Known(S) == {i \in S : presence[i] # "Absent"}

Version == [parent : Entries \cup {Root}, sort : Nat]
Labels  == {"Idle", "Insert", "InsertLessons", "Sort", "Done"}

CatalogTypeOK ==
  /\ presence \in [Items -> {"Absent", "Here", "Deleted"}]
  /\ parent \in [Items -> Entries \cup {Root}]
  /\ sort \in [Items -> Nat]
  /\ undo \in [Items -> Version]
  /\ lesson \in [Rows -> LessonIds \cup {NoLesson}]
  /\ trial \in [Rows -> BOOLEAN]
  /\ pc \in [Requests -> Labels]
  /\ target \in [Requests -> Entries \cup {Root}]
  /\ top \in [Requests -> Nat]
  /\ picks \in [Requests -> Seq(LessonIds)]
  /\ list \in [Requests -> Seq(Slot)]
  /\ written \in [Requests -> Nat]
  /\ failures \in 0 .. MaxFailures
  /\ ahead \in [Requests -> SUBSET Items]
  /\ older \in [Items -> SUBSET Items]
  /\ placed \subseteq Items
  /\ arrangement \in Seq(Slot)

CatalogInit ==
  /\ presence = [i \in Items |-> IF i \in FirstEntries THEN "Here" ELSE "Absent"]
  /\ parent = [i \in Items |-> Root]
  /\ sort = [i \in Items |-> IF i \in FirstEntries THEN i ELSE 0]
  /\ undo = [i \in Items |-> [parent |-> Root, sort |-> 0]]
  /\ lesson = [i \in Rows |-> NoLesson]
  /\ trial = [i \in Rows |-> FALSE]
  /\ pc = [r \in Requests |-> "Idle"]
  /\ target = [r \in Requests |-> Root]
  /\ top = [r \in Requests |-> 0]
  /\ picks = [r \in Requests |-> <<>>]
  /\ list = [r \in Requests |-> <<>>]
  /\ written = [r \in Requests |-> 0]
  /\ failures = 0
  /\ ahead = [r \in Requests |-> {}]
  /\ older = [i \in Items |-> {}]
  /\ placed = {}
  /\ arrangement = <<>>

-----------------------------------------------------------------------------
At(r, label) == pc[r] = label
GoTo(r, label) == pc' = [pc EXCEPT ![r] = label]

Failure == failures < MaxFailures /\ failures' = failures + 1

(* The rows a transaction has written are locked until it ends.            *)
Locked(r) == IF At(r, "Sort") THEN {list[r][k].item : k \in 1 .. written[r]} ELSE {}
Free(i) == \A r \in Requests : i \notin Locked(r)
Waits(r, i) == \E s \in Requests \ {r} : i \in Locked(s)

(* What other requests see of an item.                                     *)
Parent(i) == IF Free(i) THEN parent[i] ELSE undo[i].parent
Sort(i)   == IF Free(i) THEN sort[i] ELSE undo[i].sort

Siblings(kind, p) == {i \in Here(kind) : Parent(i) = p}

(* COALESCE(MAX(sort), 0) over the items below p.                          *)
Positions == {Sort(i) : i \in Items} \cup {0}

MaxSort(kind, p, m) ==
  /\ m \in {Sort(i) : i \in Siblings(kind, p)} \cup {0}
  /\ \A i \in Siblings(kind, p) : Sort(i) <= m

(* AUTO_INCREMENT gives out the ids in order.                              *)
FreshIds(kind, n) ==
  {s \in [1 .. n -> kind \ Known(kind)] :
     /\ \A a, b \in 1 .. n : a < b => s[a] < s[b]
     /\ \A k \in 1 .. n, i \in kind \ Known(kind) : i < s[k] => \E a \in 1 .. n : s[a] = i}

-----------------------------------------------------------------------------
(* AddCatalog, or AddCatalogLesson, below an entry which the page showed.   *)
ReadMaxSort(r, kind, p, m) ==
  /\ p \in Known(Entries) \cup {Root}
  /\ MaxSort(kind, p, m)
  /\ target' = [target EXCEPT ![r] = p]
  /\ top' = [top EXCEPT ![r] = m]
  /\ ahead' = [ahead EXCEPT ![r] = Siblings(kind, p)]
  /\ UNCHANGED <<rowVars, list, written, failures, older, placed, arrangement>>

StartCatalog(r, p, m) ==
  /\ At(r, "Idle")
  /\ ReadMaxSort(r, Entries, p, m)
  /\ GoTo(r, "Insert")
  /\ UNCHANGED picks

AddCatalog(r, e) ==
  /\ At(r, "Insert")
  /\ <<e>> \in FreshIds(Entries, 1)
  /\ presence' = [presence EXCEPT ![e] = "Here"]
  /\ parent' = [parent EXCEPT ![e] = target[r]]
  /\ sort' = [sort EXCEPT ![e] = top[r] + 1]
  /\ older' = [older EXCEPT ![e] = ahead[r]]
  /\ GoTo(r, "Done")
  /\ UNCHANGED <<undo, lesson, trial, requestVars, failures, ahead, placed, arrangement>>

(* AddCatalogLesson takes any lessons there are, those of the course too.  *)
StartCatalogLesson(r, p, ids, m) ==
  /\ At(r, "Idle")
  /\ p # Root
  /\ ReadMaxSort(r, Rows, p, m)
  /\ picks' = [picks EXCEPT ![r] = ids]
  /\ GoTo(r, "InsertLessons")

AddCatalogLesson(r, ids) ==
  LET n == Len(picks[r])
      index(i) == CHOOSE k \in 1 .. n : ids[k] = i
      new == {ids[k] : k \in 1 .. n}
  IN  /\ At(r, "InsertLessons")
      /\ ids \in FreshIds(Rows, n)
      /\ presence' = [i \in Items |-> IF i \in new THEN "Here" ELSE presence[i]]
      /\ parent' = [i \in Items |-> IF i \in new THEN target[r] ELSE parent[i]]
      /\ sort' = [i \in Items |-> IF i \in new THEN top[r] + index(i) ELSE sort[i]]
      /\ lesson' = [i \in Rows |-> IF i \in new THEN picks[r][index(i)] ELSE lesson[i]]
      /\ older' = [i \in Items |->
                     IF i \in new THEN ahead[r] \cup {j \in new : j < i} ELSE older[i]]
      /\ GoTo(r, "Done")
      /\ UNCHANGED <<undo, trial, requestVars, failures, ahead, placed, arrangement>>

(* DeleteCatalog leaves the rows of the entry and the entries below it.    *)
(* A locked row is waited for.                                             *)
DeleteCatalog(r, e) ==
  /\ At(r, "Idle")
  /\ e \in Here(Entries)
  /\ Free(e)
  /\ presence' = [presence EXCEPT ![e] = "Deleted"]
  /\ GoTo(r, "Done")
  /\ UNCHANGED <<parent, sort, undo, lesson, trial, requestVars, failures, history>>

RemoveCatalogLesson(r, S) ==
  /\ At(r, "Idle")
  /\ S # {}
  /\ S \subseteq Here(Rows)
  /\ \A i \in S : Free(i)
  /\ presence' = [i \in Items |-> IF i \in S THEN "Deleted" ELSE presence[i]]
  /\ GoTo(r, "Done")
  /\ UNCHANGED <<parent, sort, undo, lesson, trial, requestVars, failures, history>>

UpdateCatalogLesson(r, i) ==
  /\ At(r, "Idle")
  /\ i \in Here(Rows)
  /\ Free(i)
  /\ trial' = [trial EXCEPT ![i] = ~@]
  /\ GoTo(r, "Done")
  /\ UNCHANGED <<presence, parent, sort, undo, lesson, requestVars, failures, history>>

-----------------------------------------------------------------------------
(* UpdateCatalogSort of the items that the page shows.                     *)
StartSort(r, layout) ==
  /\ At(r, "Idle")
  /\ \A k \in 1 .. Len(layout) : layout[k].item \in Here(Items)
  /\ list' = [list EXCEPT ![r] = layout]
  /\ GoTo(r, "Sort")
  /\ UNCHANGED <<rowVars, target, top, picks, written, failures, history>>

(* One row: its position, and the parent if it is an entry.  A row that is  *)
(* gone by now is passed over, one that another has locked is waited for,  *)
(* and of a row that is named again the first version is kept.             *)
UpdateCatalogSort(r) ==
  LET k == written[r] + 1
      slot == list[r][k]
      i == slot.item
  IN  /\ At(r, "Sort")
      /\ written[r] < Len(list[r])
      /\ ~ Waits(r, i)
      /\ undo' = [undo EXCEPT ![i] =
                    IF Free(i) THEN [parent |-> parent[i], sort |-> sort[i]] ELSE @]
      /\ sort' = [sort EXCEPT ![i] = IF presence[i] = "Here" THEN slot.sort ELSE @]
      /\ parent' = [parent EXCEPT ![i] =
                      IF presence[i] = "Here" /\ i \in Entries THEN slot.under ELSE @]
      /\ written' = [written EXCEPT ![r] = k]
      /\ UNCHANGED <<presence, lesson, trial, pc, target, top, picks, list,
                     failures, history>>

Commit(r) ==
  /\ At(r, "Sort")
  /\ written[r] = Len(list[r])
  /\ arrangement' = list[r]
  /\ placed' = placed \cup Locked(r)
  /\ GoTo(r, "Done")
  /\ UNCHANGED <<rowVars, requestVars, failures, ahead, older>>

\* Wrong: the rows are written outside the transaction.
RollbackNothing(r) ==
  /\ GoTo(r, "Done")
  /\ UNCHANGED <<rowVars, requestVars, history>>

Rollback(r) ==
  /\ parent' = [i \in Items |-> IF i \in Locked(r) THEN undo[i].parent ELSE parent[i]]
  /\ sort' = [i \in Items |-> IF i \in Locked(r) THEN undo[i].sort ELSE sort[i]]
  /\ GoTo(r, "Done")
  /\ UNCHANGED <<presence, undo, lesson, trial, requestVars, history>>

(* Two transactions that wait for each other: the database ends one.       *)
Victim(r) ==
  /\ At(r, "Sort")
  /\ written[r] < Len(list[r])
  /\ Waits(r, list[r][written[r] + 1].item)
  /\ Rollback(r)
  /\ UNCHANGED failures

(* A statement fails or the server stops: the request ends where it is.    *)
Stop(r) ==
  /\ pc[r] \in {"Insert", "InsertLessons", "Sort"}
  /\ Rollback(r)
  /\ Failure

CatalogNext ==
  \E r \in Requests :
    \/ \E p \in Entries \cup {Root}, m \in Positions : StartCatalog(r, p, m)
    \/ \E e \in Entries : AddCatalog(r, e)
    \/ \E p \in Entries, ids \in Picks, m \in Positions : StartCatalogLesson(r, p, ids, m)
    \/ \E ids \in FreshIds(Rows, Len(picks[r])) : AddCatalogLesson(r, ids)
    \/ \E e \in Entries : DeleteCatalog(r, e)
    \/ \E S \in SUBSET Rows : RemoveCatalogLesson(r, S)
    \/ \E i \in Rows : UpdateCatalogLesson(r, i)
    \/ \E layout \in Layouts : StartSort(r, layout)
    \/ UpdateCatalogSort(r)
    \/ Commit(r)
    \/ Victim(r)
    \/ Stop(r)

CatalogSpec == CatalogInit /\ [][CatalogNext]_catalogVars

-----------------------------------------------------------------------------
(* A new item goes to the end: it stands after each sibling that was there *)
(* when its request began, until an administrator rearranges one of them.  *)
(* That positions are a maximum plus one, not a count plus one, matters    *)
(* after a deletion.                                                       *)
AppendedLast ==
  \A i \in Here(Items) : \A j \in older[i] \cap Here(Items) :
    {i, j} \cap placed = {} => Sort(j) < Sort(i)

(* Of the first n slots of an arrangement, those whose item is not named   *)
(* again.                                                                  *)
Final(layout, n) ==
  {k \in 1 .. n : \A m \in (k + 1) .. n : layout[m].item # layout[k].item}

(* UpdateCatalogSort is all or nothing: the items stand as the last        *)
(* arrangement that was committed wanted them, whatever other              *)
(* arrangements were written beside it or have been rolled back.           *)
ReorderIsWhole ==
  \A k \in Final(arrangement, Len(arrangement)) :
    LET slot == arrangement[k]
        i == slot.item
    IN  i \in Here(Items) =>
          Sort(i) = slot.sort /\ (i \in Entries => Parent(i) = slot.under)

(* The positions: a new item is the last, and the others stand as they     *)
(* were arranged.                                                          *)
PositionsHold == AppendedLast /\ ReorderIsWhole
=============================================================================
