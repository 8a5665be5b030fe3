------------------------------- MODULE Lessons -------------------------------
(***************************************************************************)
(* The tree of lesson categories and the lessons with their videos         *)
(* (service/goods/lesson.go, adaptor/repo/goods/lesson.go), under requests *)
(* of the back office that overlap.  Every statement is a step of its own: *)
(* CategoryDelete collects the tree below a category level by level and    *)
(* then deletes what it collected, CategorySort writes one row at a time   *)
(* (its Transaction is opened and not used), and UpdateLesson compares the *)
(* row it has read with the form before it removes the old video.          *)
(*                                                                         *)
(* An administrator acts on what a page showed before: requests name       *)
(* categories that may be gone by now, and a lesson is saved from a form   *)
(* that was opened earlier.  Names, durations, attachments and chapters    *)
(* are left out, and with them CategoryUpdate, which writes only a name;   *)
(* so are the records of uploads, which are removed with the files.        *)
(***************************************************************************)
EXTENDS Integers, Sequences

CONSTANTS
  Requests,     \* the requests of a behaviour
  Categories,   \* ids of lesson_category
  LessonIds,    \* ids of lessons
  Videos,       \* keys of the object storage
  Lists,        \* the orders of categories that pages ask for
  Sorts,        \* the positions that pages give new categories
  Tree,         \* the parents of the categories there are at first
  Films,        \* the videos of the lessons there are at first
  Root,         \* the parent of a category of the first level
  MaxFaults,    \* bound: failed statements and calls in a behaviour
  None          \* no category, no lesson, no video

ASSUME LessonsAssumption ==
  /\ Categories \subseteq Nat
  /\ LessonIds \subseteq Nat
  /\ Lists \subseteq Seq(Categories)
  /\ \A ids \in Lists : \A i, j \in 1 .. Len(ids) : ids[i] = ids[j] => i = j
  /\ Sorts \subseteq Nat
  /\ DOMAIN Tree \subseteq Categories
  /\ \A c \in DOMAIN Tree : Tree[c] \in DOMAIN Tree \cup {Root}
  /\ DOMAIN Films \subseteq LessonIds
  /\ \A l \in DOMAIN Films : Films[l] \in Videos
  /\ \A l, k \in DOMAIN Films : Films[l] = Films[k] => l = k
  /\ Root \notin Categories
  /\ None \notin Categories \cup LessonIds \cup Videos \cup {Root}
  /\ MaxFaults \in Nat

VARIABLES
  \* MySQL
  category,   \* is a row of lesson_category "Absent", "Here" or "Deleted"?
  parent,     \* lesson_category.parent_id
  sort,       \* lesson_category.sort
  folder,     \* lessons.category_id, None where there is no row
  video,      \* lessons.video_key
  enabled,    \* lessons.status = 1
  \* the object storage
  stored,     \* the videos it holds
  uploaded,   \* the keys that have been given out
  \* requests
  pc,         \* what a request does next
  target,     \* the category or the lesson it is about
  all,        \* CategoryDelete: the ids collected so far
  level,      \* CategoryDelete: those whose children are still to be read
  list,       \* CategorySort: the ids, in the order wanted
  written,    \* CategorySort: how many of them are written
  form,       \* UpdateLesson: the video the form showed
  new,        \* UpdateLesson: the video it is saved with
  old,        \* UpdateLesson: the video of the row it has read
  faults,     \* failures so far
  \* history
  raced,      \* categories added below one that is gone or being deleted
  stale,      \* lessons saved from a form older than the row
  order,      \* the list of the last sort that came to its end
  disturbed   \* have two sorts overlapped, or has one failed half way?

treeVars   == <<category, parent, sort>>
lessonVars == <<folder, video, enabled>>
fileVars   == <<stored, uploaded>>
deleteVars == <<all, level>>
sortVars   == <<list, written, order, disturbed>>
formVars   == <<form, new, old>>
vars == <<treeVars, lessonVars, fileVars, pc, target, deleteVars, sortVars,
          formVars, faults, raced, stale>>

Here    == {c \in Categories : category[c] = "Here"}
Known   == {c \in Categories : category[c] # "Absent"}
Lessons == {l \in LessonIds : folder[l] # None}

\* The row an insert gets: AUTO_INCREMENT gives out the ids in order.
FreshId(S, used) == {i \in S \ used : \A j \in S \ used : i <= j}

Sorting  == {r \in Requests : pc[r] = "Sort"}
Deleting == {r \in Requests : pc[r] \in {"Children", "Delete"}}
Labels   == {"Idle", "Insert", "Children", "Delete", "Sort", "Move",
             "Form", "Write", "DeleteFile", "Done"}

TypeOK ==
  /\ category \in [Categories -> {"Absent", "Here", "Deleted"}]
  /\ parent \in [Categories -> Categories \cup {Root}]
  /\ sort \in [Categories -> Nat]
  /\ folder \in [LessonIds -> Categories \cup {None}]
  /\ video \in [LessonIds -> Videos \cup {None}]
  /\ enabled \in [LessonIds -> BOOLEAN]
  /\ stored \subseteq uploaded
  /\ uploaded \subseteq Videos
  /\ pc \in [Requests -> Labels]
  /\ target \in [Requests -> Categories \cup LessonIds \cup {Root, None}]
  /\ all \in [Requests -> SUBSET Categories]
  /\ level \in [Requests -> SUBSET Categories]
  /\ list \in [Requests -> Seq(Categories)]
  /\ written \in [Requests -> Nat]
  /\ form \in [Requests -> Videos \cup {None}]
  /\ new \in [Requests -> Videos \cup {None}]
  /\ old \in [Requests -> Videos \cup {None}]
  /\ faults \in 0 .. MaxFaults
  /\ raced \subseteq Categories
  /\ stale \subseteq LessonIds
  /\ order \in Seq(Categories)
  /\ disturbed \in BOOLEAN

Init ==
  /\ category = [c \in Categories |-> IF c \in DOMAIN Tree THEN "Here" ELSE "Absent"]
  /\ parent = [c \in Categories |-> IF c \in DOMAIN Tree THEN Tree[c] ELSE Root]
  /\ sort = [c \in Categories |-> 0]
  /\ folder \in [LessonIds -> DOMAIN Tree \cup {None}]
  /\ \A l \in LessonIds : folder[l] # None <=> l \in DOMAIN Films
  /\ video = [l \in LessonIds |-> IF l \in DOMAIN Films THEN Films[l] ELSE None]
  /\ enabled = [l \in LessonIds |-> TRUE]
  /\ stored = {Films[l] : l \in DOMAIN Films}
  /\ uploaded = stored
  /\ pc = [r \in Requests |-> "Idle"]
  /\ target = [r \in Requests |-> None]
  /\ all = [r \in Requests |-> {}]
  /\ level = [r \in Requests |-> {}]
  /\ list = [r \in Requests |-> <<>>]
  /\ written = [r \in Requests |-> 0]
  /\ form = [r \in Requests |-> None]
  /\ new = [r \in Requests |-> None]
  /\ old = [r \in Requests |-> None]
  /\ faults = 0
  /\ raced = {}
  /\ stale = {}
  /\ order = <<>>
  /\ disturbed = FALSE

-----------------------------------------------------------------------------
At(r, label) == pc[r] = label
GoTo(r, label) == pc' = [pc EXCEPT ![r] = label]

Fault   == faults < MaxFaults /\ faults' = faults + 1

-----------------------------------------------------------------------------
(* Categories.                                                             *)

(* An administrator asks for a category below p, which the page shows.     *)
StartCreate(r, p) ==
  /\ At(r, "Idle")
  /\ p \in Here \cup {Root}
  /\ target' = [target EXCEPT ![r] = p]
  /\ GoTo(r, "Insert")
  /\ UNCHANGED <<treeVars, lessonVars, fileVars, deleteVars, sortVars,
                 formVars, faults, raced, stale>>

(* AddCategory: nobody looks whether the parent is still there.  The       *)
(* position comes with the request; it is taken from those in use.         *)
AddCategory(r, c, s) ==
  /\ At(r, "Insert")
  /\ c \in FreshId(Categories, Known)
  /\ category' = [category EXCEPT ![c] = "Here"]
  /\ parent' = [parent EXCEPT ![c] = target[r]]
  /\ sort' = [sort EXCEPT ![c] = s]
  /\ raced' = IF target[r] \in Here \cup {Root}
                 /\ \A q \in Deleting : target[r] \notin all[q]
              THEN raced ELSE raced \cup {c}
  /\ GoTo(r, "Done")
  /\ UNCHANGED <<lessonVars, fileVars, target, deleteVars, sortVars, formVars,
                 faults, stale>>

(* CategoryDelete of the categories ids.                                   *)
StartDelete(r, ids) ==
  /\ At(r, "Idle")
  /\ ids # {}
  /\ ids \subseteq Here
  /\ all' = [all EXCEPT ![r] = ids]
  /\ level' = [level EXCEPT ![r] = ids]
  /\ GoTo(r, "Children")
  /\ UNCHANGED <<treeVars, lessonVars, fileVars, target, sortVars, formVars,
                 faults, raced, stale>>

(* FindByParentIDs: one round of the loop.                                 *)
Children(r) == {c \in Here : parent[c] \in level[r]}

\* Wrong: only the categories right below are collected.
FindByParentIDsOnce(r) ==
  /\ At(r, "Children")
  /\ all' = [all EXCEPT ![r] = @ \cup Children(r)]
  /\ GoTo(r, "Delete")
  /\ UNCHANGED <<treeVars, lessonVars, fileVars, target, level, sortVars, formVars,
                 faults, raced, stale>>

FindByParentIDs(r) ==
  /\ At(r, "Children")
  /\ IF Children(r) = {}
     THEN /\ GoTo(r, "Delete")
          /\ UNCHANGED deleteVars
     ELSE /\ all' = [all EXCEPT ![r] = @ \cup Children(r)]
          /\ level' = [level EXCEPT ![r] = Children(r)]
          /\ UNCHANGED pc
  /\ UNCHANGED <<treeVars, lessonVars, fileVars, target, sortVars, formVars,
                 faults, raced, stale>>

DeleteCategory(r) ==
  /\ At(r, "Delete")
  /\ category' = [c \in Categories |->
                    IF c \in all[r] /\ c \in Here THEN "Deleted" ELSE category[c]]
  /\ GoTo(r, "Done")
  /\ UNCHANGED <<parent, sort, lessonVars, fileVars, target, deleteVars,
                 sortVars, formVars, faults, raced, stale>>

(* CategorySort: the page sends the ids it shows, in their new order.      *)
StartSort(r, ids) ==
  /\ At(r, "Idle")
  /\ \A i \in 1 .. Len(ids) : ids[i] \in Known
  /\ list' = [list EXCEPT ![r] = ids]
  /\ written' = [written EXCEPT ![r] = 0]
  /\ disturbed' = (disturbed \/ Sorting # {})
  /\ GoTo(r, "Sort")
  /\ UNCHANGED <<treeVars, lessonVars, fileVars, target, deleteVars, order,
                 formVars, faults, raced, stale>>

(* UpdateCategorySort: one statement, committed by itself.                 *)
UpdateCategorySort(r) ==
  /\ At(r, "Sort")
  /\ written[r] < Len(list[r])
  /\ LET i == written[r] + 1
         c == list[r][i]
     IN  /\ sort' = [sort EXCEPT ![c] = IF c \in Here THEN i ELSE @]
         /\ written' = [written EXCEPT ![r] = i]
  /\ UNCHANGED <<category, parent, lessonVars, fileVars, pc, target, deleteVars,
                 list, order, disturbed, formVars, faults, raced, stale>>

EndSort(r) ==
  /\ At(r, "Sort")
  /\ written[r] = Len(list[r])
  /\ order' = list[r]
  /\ GoTo(r, "Done")
  /\ UNCHANGED <<treeVars, lessonVars, fileVars, target, deleteVars, list,
                 written, disturbed, formVars, faults, raced, stale>>

-----------------------------------------------------------------------------
(* Lessons.                                                                *)

(* CreateLesson, with a video that was uploaded for it.                    *)
CreateLesson(r, l, c, v) ==
  /\ At(r, "Idle")
  /\ l \in FreshId(LessonIds, Lessons)
  /\ c \in Known
  /\ v \in Videos \ uploaded
  /\ folder' = [folder EXCEPT ![l] = c]
  /\ video' = [video EXCEPT ![l] = v]
  /\ enabled' = [enabled EXCEPT ![l] = TRUE]
  /\ stored' = stored \cup {v}
  /\ uploaded' = uploaded \cup {v}
  /\ GoTo(r, "Done")
  /\ UNCHANGED <<treeVars, target, deleteVars, sortVars, formVars, faults,
                 raced, stale>>

(* MoveLesson checks the category first.                                   *)
GetCategoryById(r, c) ==
  /\ At(r, "Idle")
  /\ c \in Here
  /\ target' = [target EXCEPT ![r] = c]
  /\ GoTo(r, "Move")
  /\ UNCHANGED <<treeVars, lessonVars, fileVars, deleteVars, sortVars,
                 formVars, faults, raced, stale>>

MoveLesson(r, S) ==
  /\ At(r, "Move")
  /\ S \subseteq Lessons
  /\ S # {}
  /\ folder' = [l \in LessonIds |-> IF l \in S THEN target[r] ELSE folder[l]]
  /\ GoTo(r, "Done")
  /\ UNCHANGED <<treeVars, video, enabled, fileVars, target, deleteVars,
                 sortVars, formVars, faults, raced, stale>>

UpdateLessonStatus(r, l) ==
  /\ At(r, "Idle")
  /\ l \in Lessons
  /\ enabled' = [enabled EXCEPT ![l] = ~@]
  /\ GoTo(r, "Done")
  /\ UNCHANGED <<treeVars, folder, video, fileVars, target, deleteVars,
                 sortVars, formVars, faults, raced, stale>>

(* LessonInfo fills the form of a lesson.                                  *)
OpenForm(r, l) ==
  /\ At(r, "Idle")
  /\ l \in Lessons
  /\ target' = [target EXCEPT ![r] = l]
  /\ form' = [form EXCEPT ![r] = video[l]]
  /\ GoTo(r, "Form")
  /\ UNCHANGED <<treeVars, lessonVars, fileVars, deleteVars, sortVars, new, old,
                 faults, raced, stale>>

(* UpdateLesson: the form is saved, with its video or with another one     *)
(* that was uploaded for it, and the row is read for the comparison.       *)
GetLessonById(r, v) ==
  /\ At(r, "Form")
  /\ v = form[r] \/ v \in Videos \ uploaded
  /\ IF v = form[r]
     THEN UNCHANGED fileVars
     ELSE /\ stored' = stored \cup {v}
          /\ uploaded' = uploaded \cup {v}
  /\ new' = [new EXCEPT ![r] = v]
  /\ old' = [old EXCEPT ![r] = video[target[r]]]
  /\ GoTo(r, "Write")
  /\ UNCHANGED <<treeVars, lessonVars, target, deleteVars, sortVars, form,
                 faults, raced, stale>>

\* Wrong: the video is removed without the comparison.
UpdateLessonUncompared(r) ==
  /\ At(r, "Write")
  /\ LET l == target[r]
     IN  /\ video' = [video EXCEPT ![l] = new[r]]
         /\ stale' = IF video[l] = form[r] THEN stale ELSE stale \cup {l}
  /\ GoTo(r, "DeleteFile")
  /\ UNCHANGED <<treeVars, folder, enabled, fileVars, target, deleteVars,
                 sortVars, formVars, faults, raced>>

UpdateLesson(r) ==
  /\ At(r, "Write")
  /\ LET l == target[r]
     IN  /\ video' = [video EXCEPT ![l] = new[r]]
         /\ stale' = IF video[l] = form[r] THEN stale ELSE stale \cup {l}
  /\ GoTo(r, IF old[r] # new[r] THEN "DeleteFile" ELSE "Done")
  /\ UNCHANGED <<treeVars, folder, enabled, fileVars, target, deleteVars,
                 sortVars, formVars, faults, raced>>

DeleteFile(r) ==
  /\ At(r, "DeleteFile")
  /\ stored' = stored \ {old[r]}
  /\ GoTo(r, "Done")
  /\ UNCHANGED <<treeVars, lessonVars, uploaded, target, deleteVars, sortVars,
                 formVars, faults, raced, stale>>

-----------------------------------------------------------------------------
(* A statement fails, a name is taken, or the server stops: the request    *)
(* ends where it is.  A deletion that the storage refuses is only logged.  *)
Stop(r) ==
  /\ pc[r] \notin {"Idle", "Form", "Done"}
  /\ disturbed' = (disturbed \/ At(r, "Sort"))
  /\ GoTo(r, "Done")
  /\ Fault
  /\ UNCHANGED <<treeVars, lessonVars, fileVars, target, deleteVars, list,
                 written, order, formVars, raced, stale>>

Next ==
  \E r \in Requests :
    \/ \E p \in Categories \cup {Root} : StartCreate(r, p)
    \/ \E c \in Categories, s \in Sorts : AddCategory(r, c, s)
    \/ \E ids \in SUBSET Categories : StartDelete(r, ids)
    \/ FindByParentIDs(r)
    \/ DeleteCategory(r)
    \/ \E ids \in Lists : StartSort(r, ids)
    \/ UpdateCategorySort(r)
    \/ EndSort(r)
    \/ \E l \in LessonIds, c \in Categories, v \in Videos : CreateLesson(r, l, c, v)
    \/ \E c \in Categories : GetCategoryById(r, c)
    \/ \E S \in SUBSET LessonIds : MoveLesson(r, S)
    \/ \E l \in LessonIds : UpdateLessonStatus(r, l) \/ OpenForm(r, l)
    \/ \E v \in Videos : GetLessonById(r, v)
    \/ UpdateLesson(r)
    \/ DeleteFile(r)
    \/ Stop(r)

Spec == Init /\ [][Next]_vars

-----------------------------------------------------------------------------
(* CategoryDelete takes everything below along ("那就全部删除"): a category     *)
(* whose parent is gone was added while, or after, its parent was being    *)
(* deleted, by a page that still showed it.                                *)
OrphanNeedsRace ==
  \A c \in Here : parent[c] \in Here \cup {Root} \/ c \in raced

(* UpdateLesson removes a video only when no lesson shows it any more: a   *)
(* lesson whose video is gone was saved from a form that was older than    *)
(* its row.                                                                *)
MissingVideoNeedsStaleForm ==
  \A l \in Lessons : video[l] \in stored \/ l \in stale

(* The storage fills up with replaced videos only after a failure or a     *)
(* lost update: else a stored video is that of a lesson, or a request is   *)
(* about to save or to remove it.                                          *)
LeftoverNeedsFault ==
  \A v \in stored :
    \/ \E l \in Lessons : video[l] = v
    \/ \E r \in Requests : At(r, "Write") /\ new[r] = v
    \/ \E r \in Requests : At(r, "DeleteFile") /\ old[r] = v
    \/ faults > 0
    \/ stale # {}

(* The rows of a sort are written one by one outside the transaction.      *)
(* Unless two sorts overlapped, or one failed half way, the categories     *)
(* stand as the last one wanted them.                                      *)
SortIsWhole ==
  disturbed \/ Sorting # {} \/
  \A i \in 1 .. Len(order) : order[i] \in Here => sort[order[i]] = i

(* The tree of categories: what is deleted goes with all that was below,   *)
(* and what was sorted stands as it was sorted.                            *)
TreeIsWhole == OrphanNeedsRace /\ SortIsWhole

(* The videos: each that a lesson shows is stored, and each that is stored *)
(* is needed.                                                              *)
VideosMatch == MissingVideoNeedsStaleForm /\ LeftoverNeedsFault
=============================================================================
