---------------------------- MODULE Lessons_proofs ----------------------------
(***************************************************************************)
(* What Lessons promises for any number of requests, categories, lessons   *)
(* and videos, any tree to begin with and any number of failures.  The     *)
(* three invariants are about the tree, about sorts and about videos; they *)
(* stand on the types of the variables and else not on each other.         *)
(***************************************************************************)
EXTENDS Lessons, TLAPS

(* What CategoryDelete has collected: everything below, but for the level  *)
(* it reads next and for categories that are added meanwhile.              *)
Collected(r) ==
  /\ pc[r] = "Children" =>
       /\ level[r] \subseteq all[r]
       /\ \A c \in Here : parent[c] \in all[r] =>
            c \in all[r] \/ parent[c] \in level[r] \/ c \in raced
  /\ pc[r] = "Delete" =>
       \A c \in Here : parent[c] \in all[r] => c \in all[r] \/ c \in raced

TreeInv == OrphanNeedsRace /\ \A r \in Requests : Collected(r)

(* A sort is a list of categories that exist, or existed, each of them     *)
(* once, and it writes no more than it has.                                *)
Listed(r) ==
  /\ written[r] <= Len(list[r])
  /\ \A i \in 1 .. Len(list[r]) : list[r][i] \in Known
  /\ \A i, j \in 1 .. Len(list[r]) : list[r][i] = list[r][j] => i = j

ListsAreKnown ==
  /\ \A r \in Sorting : Listed(r)
  /\ \A i \in 1 .. Len(order) : order[i] \in Known

OneSorts == ~ disturbed => \A q, r \in Sorting : q = r

(* What a sort has written stands, while nothing disturbs it.              *)
WrittenIsSorted ==
  ~ disturbed => \A r \in Sorting : \A i \in 1 .. written[r] :
                   list[r][i] \in Here => sort[list[r][i]] = i

SortInv == ListsAreKnown /\ OneSorts /\ WrittenIsSorted /\ SortIsWhole

(* The requests that hold videos of a lesson, and the videos a lesson has  *)
(* to do with.                                                             *)
Active(r) == pc[r] \in {"Form", "Write", "DeleteFile"}

Concerns(l, v) ==
  \/ l \in Lessons /\ video[l] = v
  \/ \E r \in Requests : /\ Active(r)
                         /\ target[r] = l
                         /\ v = form[r] \/ (pc[r] # "Form" /\ v \in {new[r], old[r]})

(* No two lessons have to do with one video.                               *)
VideosAreOwned ==
  /\ \A r \in Requests : Active(r) => target[r] \in Lessons
  /\ \A l \in LessonIds, v \in Videos \cup {None} : Concerns(l, v) => v \in uploaded
  /\ \A l, k \in LessonIds, v \in Videos : Concerns(l, v) /\ Concerns(k, v) => l = k

(* A video that was uploaded for a form is nowhere else until it is saved. *)
Unused(r) ==
  /\ new[r] \in stored
  /\ new[r] # old[r]
  /\ \A l \in Lessons : video[l] # new[r]
  /\ \A q \in Requests \ {r} :
       Active(q) => /\ form[q] # new[r]
                    /\ pc[q] # "Form" => new[q] # new[r] /\ old[q] # new[r]

FreshIsUnused == \A r \in Requests : At(r, "Write") /\ new[r] # form[r] => Unused(r)

(* The video that is removed is no longer the one of its lesson.           *)
OldIsReplaced ==
  \A r \in Requests : At(r, "DeleteFile") => video[target[r]] # old[r] \/ target[r] \in stale

(* A form that is up to date has read the row it shows.                    *)
OldIsCurrent ==
  \A r \in Requests :
    At(r, "Write") /\ video[target[r]] = form[r] => old[r] = form[r] \/ target[r] \in stale

FileInv ==
  /\ VideosAreOwned
  /\ FreshIsUnused
  /\ OldIsReplaced
  /\ OldIsCurrent
  /\ MissingVideoNeedsStaleForm
  /\ LeftoverNeedsFault

(* What a request is about.                                                *)
Aimed(r) ==
  /\ At(r, "Insert") => target[r] \in Categories \cup {Root}
  /\ At(r, "Move") => target[r] \in Categories
  /\ pc[r] \in {"Form", "Write"} => target[r] \in LessonIds

AimsAreRight == \A r \in Requests : Aimed(r)

Inv == TypeOK /\ AimsAreRight /\ TreeInv /\ SortInv /\ FileInv

-----------------------------------------------------------------------------
USE DEF At, GoTo, Fault

LEMMA InitInv == Init => Inv
<1> SUFFICES ASSUME Init
             PROVE  Inv
  OBVIOUS
<1>1. TypeOK
  <2>1. stored \subseteq Videos /\ uploaded = stored
    BY LessonsAssumption DEF Init
  <2>2. <<>> \in Seq(Categories)
    OBVIOUS
  <2>3. parent \in [Categories -> Categories \cup {Root}]
    BY LessonsAssumption DEF Init
  <2>4. video \in [LessonIds -> Videos \cup {None}]
    BY LessonsAssumption DEF Init
  <2>5. folder \in [LessonIds -> Categories \cup {None}]
    BY LessonsAssumption DEF Init
  <2>6. /\ list \in [Requests -> Seq(Categories)] /\ order \in Seq(Categories)
        /\ written \in [Requests -> Nat] /\ sort \in [Categories -> Nat]
        /\ faults \in 0 .. MaxFaults
    BY <2>2, LessonsAssumption DEF Init
  <2>7. /\ category \in [Categories -> {"Absent", "Here", "Deleted"}]
        /\ enabled \in [LessonIds -> BOOLEAN]
        /\ pc \in [Requests -> Labels]
        /\ target \in [Requests -> Categories \cup LessonIds \cup {Root, None}]
        /\ all \in [Requests -> SUBSET Categories]
        /\ level \in [Requests -> SUBSET Categories]
    BY DEF Init, Labels
  <2>8. /\ form \in [Requests -> Videos \cup {None}]
        /\ new \in [Requests -> Videos \cup {None}]
        /\ old \in [Requests -> Videos \cup {None}]
        /\ raced \subseteq Categories /\ stale \subseteq LessonIds /\ disturbed \in BOOLEAN
    BY DEF Init
  <2> QED
    BY <2>1, <2>3, <2>4, <2>5, <2>6, <2>7, <2>8 DEF TypeOK
<1>2. AimsAreRight
  BY DEF Init, AimsAreRight, Aimed
<1>3. TreeInv
  <2>1. Here = DOMAIN Tree
    BY LessonsAssumption DEF Init, Here
  <2>2. \A c \in DOMAIN Tree : parent[c] = Tree[c]
    BY LessonsAssumption DEF Init
  <2> QED
    BY <2>1, <2>2, LessonsAssumption DEF Init, TreeInv, OrphanNeedsRace, Collected
<1>4. SortInv
  <2>1. Sorting = {} /\ order = <<>> /\ Len(order) = 0
    BY DEF Init, Sorting
  <2> QED
    BY <2>1 DEF SortInv, ListsAreKnown, OneSorts, WrittenIsSorted, SortIsWhole
<1>5. FileInv
  <2>1. /\ Lessons = DOMAIN Films
        /\ \A l \in Lessons : video[l] = Films[l]
        /\ \A l \in Lessons : video[l] \in stored
        /\ \A v \in stored : \E l \in Lessons : video[l] = v
        /\ uploaded = stored
    <3>1. Lessons = DOMAIN Films
      BY LessonsAssumption DEF Init, Lessons
    <3>2. \A l \in DOMAIN Films : video[l] = Films[l]
      BY LessonsAssumption DEF Init
    <3>3. stored = {Films[l] : l \in DOMAIN Films} /\ uploaded = stored
      BY DEF Init
    <3> QED
      BY <3>1, <3>2, <3>3
  <2>2. \A r \in Requests : ~ Active(r) /\ pc[r] = "Idle"
    BY DEF Init, Active
  <2> QED
    BY <2>1, <2>2, LessonsAssumption DEF FileInv, VideosAreOwned, Concerns,
       FreshIsUnused,
       OldIsReplaced, OldIsCurrent, MissingVideoNeedsStaleForm, LeftoverNeedsFault
<1> QED
  BY <1>1, <1>2, <1>3, <1>4, <1>5 DEF Inv

USE DEF Labels

LEMMA TypeStep == TypeOK /\ AimsAreRight /\ [Next]_vars => TypeOK'
<1> SUFFICES ASSUME TypeOK, AimsAreRight, [Next]_vars
             PROVE  TypeOK'
  OBVIOUS
<1>1. ASSUME NEW r \in Requests, NEW p \in Categories \cup {Root}, StartCreate(r, p)
      PROVE  TypeOK'
  BY <1>1 DEF TypeOK, StartCreate, treeVars, lessonVars, fileVars, deleteVars,
     sortVars, formVars
<1>2. ASSUME NEW r \in Requests, NEW c \in Categories, NEW s \in Sorts,
             AddCategory(r, c, s)
      PROVE  TypeOK'
  BY <1>2, LessonsAssumption DEF TypeOK, AimsAreRight, Aimed, AddCategory, treeVars,
     lessonVars, fileVars, deleteVars, sortVars, formVars
<1>3. ASSUME NEW r \in Requests, NEW ids \in SUBSET Categories, StartDelete(r, ids)
      PROVE  TypeOK'
  BY <1>3 DEF TypeOK, Here, StartDelete, treeVars, lessonVars, fileVars, deleteVars,
     sortVars, formVars
<1>4. ASSUME NEW r \in Requests, FindByParentIDs(r)
      PROVE  TypeOK'
  <2>1. Children(r) \subseteq Categories
    BY DEF Children, Here
  <2>2. CASE Children(r) = {}
    BY <1>4, <2>2 DEF TypeOK, FindByParentIDs, treeVars, lessonVars, fileVars,
       deleteVars, sortVars, formVars
  <2>3. CASE Children(r) # {}
    <3>1. /\ all' = [all EXCEPT ![r] = @ \cup Children(r)]
          /\ level' = [level EXCEPT ![r] = Children(r)]
      BY <1>4, <2>3 DEF FindByParentIDs
    <3>2. /\ all' \in [Requests -> SUBSET Categories]
          /\ level' \in [Requests -> SUBSET Categories]
      BY <2>1, <3>1 DEF TypeOK
    <3>3. pc' = pc
      BY <1>4, <2>3 DEF FindByParentIDs
    <3> QED
      BY <1>4, <3>2, <3>3 DEF TypeOK, FindByParentIDs, treeVars, lessonVars, fileVars,
         deleteVars, sortVars, formVars
  <2> QED
    BY <2>2, <2>3
<1>5. ASSUME NEW r \in Requests, DeleteCategory(r)
      PROVE  TypeOK'
  BY <1>5 DEF TypeOK, DeleteCategory, treeVars, lessonVars, fileVars, deleteVars,
     sortVars, formVars
<1>6. ASSUME NEW r \in Requests, NEW ids \in Lists, StartSort(r, ids)
      PROVE  TypeOK'
  BY <1>6, LessonsAssumption DEF TypeOK, StartSort, treeVars, lessonVars, fileVars,
     deleteVars, sortVars, formVars
<1>7. ASSUME NEW r \in Requests, UpdateCategorySort(r)
      PROVE  TypeOK'
  <2> DEFINE i == written[r] + 1
             c == list[r][i]
  <2>1. i \in Nat
    BY DEF TypeOK
  <2>2. sort' = [sort EXCEPT ![c] = IF c \in Here THEN i ELSE @]
    BY <1>7 DEF UpdateCategorySort
  <2> HIDE DEF i, c
  <2>3. sort' \in [Categories -> Nat]
    BY <2>1, <2>2 DEF TypeOK
  <2>4. written' = [written EXCEPT ![r] = i]
    BY <1>7 DEF UpdateCategorySort, i
  <2> QED
    BY <1>7, <2>1, <2>3, <2>4, SMTT(30) DEF TypeOK, UpdateCategorySort, treeVars, lessonVars,
       fileVars, deleteVars, sortVars, formVars
<1>8. ASSUME NEW r \in Requests, EndSort(r)
      PROVE  TypeOK'
  BY <1>8 DEF TypeOK, EndSort, treeVars, lessonVars, fileVars, deleteVars, sortVars,
     formVars
<1>9. ASSUME NEW r \in Requests, NEW l \in LessonIds, NEW c \in Categories,
             NEW v \in Videos,
             CreateLesson(r, l, c, v)
      PROVE  TypeOK'
  BY <1>9 DEF TypeOK, CreateLesson, treeVars, lessonVars, fileVars, deleteVars,
     sortVars, formVars
<1>10. ASSUME NEW r \in Requests, NEW c \in Categories, GetCategoryById(r, c)
      PROVE  TypeOK'
  BY <1>10 DEF TypeOK, GetCategoryById, treeVars, lessonVars, fileVars, deleteVars,
     sortVars, formVars
<1>11. ASSUME NEW r \in Requests, NEW S \in SUBSET LessonIds, MoveLesson(r, S)
      PROVE  TypeOK'
  BY <1>11 DEF TypeOK, AimsAreRight, Aimed, MoveLesson, treeVars, lessonVars, fileVars,
     deleteVars, sortVars, formVars
<1>12. ASSUME NEW r \in Requests, NEW l \in LessonIds, UpdateLessonStatus(r, l)
      PROVE  TypeOK'
  BY <1>12 DEF TypeOK, UpdateLessonStatus, treeVars, lessonVars, fileVars, deleteVars,
     sortVars, formVars
<1>13. ASSUME NEW r \in Requests, NEW l \in LessonIds, OpenForm(r, l)
      PROVE  TypeOK'
  BY <1>13 DEF TypeOK, OpenForm, treeVars, lessonVars, fileVars, deleteVars, sortVars,
     formVars
<1>14. ASSUME NEW r \in Requests, NEW v \in Videos, GetLessonById(r, v)
      PROVE  TypeOK'
  BY <1>14 DEF TypeOK, AimsAreRight, Aimed, GetLessonById, treeVars, lessonVars,
     fileVars, deleteVars, sortVars, formVars
<1>15. ASSUME NEW r \in Requests, UpdateLesson(r)
      PROVE  TypeOK'
  BY <1>15 DEF TypeOK, AimsAreRight, Aimed, UpdateLesson, treeVars, lessonVars,
     fileVars, deleteVars, sortVars, formVars
<1>16. ASSUME NEW r \in Requests, DeleteFile(r)
      PROVE  TypeOK'
  BY <1>16 DEF TypeOK, DeleteFile, treeVars, lessonVars, fileVars, deleteVars,
     sortVars, formVars
<1>17. ASSUME NEW r \in Requests, Stop(r)
      PROVE  TypeOK'
  BY <1>17, LessonsAssumption DEF TypeOK, Stop, treeVars, lessonVars, fileVars,
     deleteVars, sortVars, formVars
<1>18. CASE UNCHANGED vars
  BY <1>18 DEF TypeOK, vars, treeVars, lessonVars, fileVars, deleteVars, sortVars,
     formVars
<1> QED
  BY <1>1, <1>2, <1>3, <1>4, <1>5, <1>6, <1>7, <1>8, <1>9, <1>10, <1>11, <1>12, <1>13,
     <1>14, <1>15, <1>16, <1>17, <1>18 DEF Next

-----------------------------------------------------------------------------
(* The tree.                                                               *)
LEMMA TreeElsewhere ==
  ASSUME TreeInv, UNCHANGED <<category, parent, raced, all, level>>,
         \A q \in Requests : pc'[q] \in {"Children", "Delete"} => pc'[q] = pc[q]
  PROVE  TreeInv'
<1>1. Here' = Here
  BY DEF Here
<1>2. OrphanNeedsRace'
  BY <1>1 DEF TreeInv, OrphanNeedsRace
<1>3. ASSUME NEW q \in Requests
      PROVE  Collected(q)'
  BY <1>1 DEF TreeInv, Collected
<1> QED
  BY <1>2, <1>3 DEF TreeInv

LEMMA TreeStep == TypeOK /\ TreeInv /\ [Next]_vars => TreeInv'
<1> SUFFICES ASSUME TypeOK, TreeInv, [Next]_vars
             PROVE  TreeInv'
  OBVIOUS
<1>1. ASSUME NEW r \in Requests, NEW p \in Categories \cup {Root}, StartCreate(r, p)
      PROVE  TreeInv'
  <2>1. UNCHANGED <<category, parent, raced, all, level>>
    BY <1>1 DEF StartCreate, treeVars, lessonVars, fileVars, deleteVars, sortVars,
       formVars
  <2>2. \A q \in Requests : pc'[q] \in {"Children", "Delete"} => pc'[q] = pc[q]
    BY <1>1 DEF TypeOK, At, GoTo, StartCreate, treeVars, lessonVars, fileVars,
       deleteVars, sortVars, formVars
  <2> QED
    BY <2>1, <2>2, TreeElsewhere
<1>2. ASSUME NEW r \in Requests, NEW c \in Categories, NEW s \in Sorts,
             AddCategory(r, c, s)
      PROVE  TreeInv'
  <2>1. c \notin Known
    BY <1>2 DEF AddCategory, FreshId
  <2>2. Here' = Here \cup {c} /\ c \notin Here
    BY <1>2, <2>1 DEF AddCategory, Here, Known, TypeOK
  <2>3. /\ \A d \in Here : parent'[d] = parent[d]
        /\ parent'[c] = target[r]
        /\ raced \subseteq raced'
        /\ c \notin raced' => /\ target[r] \in Here \cup {Root}
                              /\ \A q \in Deleting : target[r] \notin all[q]
    BY <1>2, <2>2 DEF AddCategory, Here, TypeOK
  <2>4. OrphanNeedsRace'
    BY <2>2, <2>3 DEF TreeInv, OrphanNeedsRace
  <2>5. ASSUME NEW q \in Requests
        PROVE  Collected(q)'
    <3>1. /\ all'[q] = all[q] /\ level'[q] = level[q]
          /\ pc'[q] \in {"Children", "Delete"} => pc'[q] = pc[q] /\ q \in Deleting
      BY <1>2 DEF AddCategory, deleteVars, GoTo, Deleting, TypeOK
    <3> QED
      BY <2>2, <2>3, <3>1 DEF TreeInv, Collected
  <2> QED
    BY <2>4, <2>5 DEF TreeInv
<1>3. ASSUME NEW r \in Requests, NEW ids \in SUBSET Categories, StartDelete(r, ids)
      PROVE  TreeInv'
  <2>1. UNCHANGED <<category, parent, raced>>
    BY <1>3 DEF StartDelete, treeVars, lessonVars, fileVars, deleteVars, sortVars,
       formVars
  <2>2. OrphanNeedsRace'
    BY <2>1 DEF TreeInv, OrphanNeedsRace, Here
  <2>3. ASSUME NEW q \in Requests
        PROVE  Collected(q)'
    BY <1>3, <2>1 DEF TreeInv, Collected, Here, TypeOK, GoTo, StartDelete, treeVars,
       lessonVars, fileVars, deleteVars, sortVars, formVars
  <2> QED
    BY <2>2, <2>3 DEF TreeInv
<1>4. ASSUME NEW r \in Requests, FindByParentIDs(r)
      PROVE  TreeInv'
  <2>1. UNCHANGED <<category, parent, raced>>
    BY <1>4 DEF FindByParentIDs, Children, treeVars, lessonVars, fileVars, deleteVars,
       sortVars, formVars
  <2>2. OrphanNeedsRace'
    BY <2>1 DEF TreeInv, OrphanNeedsRace, Here
  <2>3. Here' = Here
    BY <2>1 DEF Here
  <2>4. ASSUME NEW q \in Requests, q # r
        PROVE  Collected(q)'
    <3>1. pc'[q] = pc[q] /\ all'[q] = all[q] /\ level'[q] = level[q]
      BY <1>4, <2>4 DEF FindByParentIDs, GoTo, deleteVars, TypeOK
    <3> QED
      BY <2>1, <2>3, <3>1 DEF TreeInv, Collected
  <2>5. Collected(r)'
    <3>1. CASE Children(r) = {}
      <4>1. pc[r] = "Children" /\ pc'[r] = "Delete" /\ all'[r] = all[r]
        BY <1>4, <3>1 DEF FindByParentIDs, At, GoTo, deleteVars, TypeOK
      <4>2. \A c \in Here : parent[c] \notin level[r]
        BY <3>1 DEF Children
      <4> QED
        BY <2>1, <2>3, <4>1, <4>2 DEF TreeInv, Collected
    <3>2. CASE Children(r) # {}
      <4>1. /\ pc[r] = "Children" /\ pc'[r] = "Children"
            /\ all'[r] = all[r] \cup Children(r) /\ level'[r] = Children(r)
        BY <1>4, <3>2 DEF FindByParentIDs, At, GoTo, TypeOK
      <4>2. \A c \in Here : parent[c] \in level[r] => c \in Children(r)
        BY DEF Children
      <4> QED
        BY <2>1, <2>3, <4>1, <4>2 DEF TreeInv, Collected
    <3> QED
      BY <3>1, <3>2
  <2> QED
    BY <2>2, <2>4, <2>5 DEF TreeInv
<1>5. ASSUME NEW r \in Requests, DeleteCategory(r)
      PROVE  TreeInv'
  <2>1. /\ pc[r] = "Delete" /\ Here' = Here \ all[r]
        /\ UNCHANGED <<parent, raced, all, level>>
    BY <1>5 DEF Here, TypeOK, At, DeleteCategory, treeVars, lessonVars, fileVars,
       deleteVars, sortVars, formVars
  <2>2. OrphanNeedsRace'
    BY <2>1 DEF TreeInv, OrphanNeedsRace, Collected
  <2>3. ASSUME NEW q \in Requests
        PROVE  Collected(q)'
    <3>1. pc'[q] \in {"Children", "Delete"} => pc'[q] = pc[q]
      BY <1>5 DEF DeleteCategory, GoTo, TypeOK
    <3> QED
      BY <2>1, <3>1 DEF TreeInv, Collected
  <2> QED
    BY <2>2, <2>3 DEF TreeInv
<1>6. ASSUME NEW r \in Requests, NEW ids \in Lists, StartSort(r, ids)
      PROVE  TreeInv'
  <2>1. UNCHANGED <<category, parent, raced, all, level>>
    BY <1>6 DEF StartSort, treeVars, lessonVars, fileVars, deleteVars, sortVars,
       formVars
  <2>2. \A q \in Requests : pc'[q] \in {"Children", "Delete"} => pc'[q] = pc[q]
    BY <1>6 DEF TypeOK, At, GoTo, StartSort, treeVars, lessonVars, fileVars,
       deleteVars, sortVars, formVars
  <2> QED
    BY <2>1, <2>2, TreeElsewhere
<1>7. ASSUME NEW r \in Requests, UpdateCategorySort(r)
      PROVE  TreeInv'
  <2>1. UNCHANGED <<category, parent, raced, all, level>>
    BY <1>7 DEF UpdateCategorySort, treeVars, lessonVars, fileVars, deleteVars,
       sortVars, formVars
  <2>2. \A q \in Requests : pc'[q] \in {"Children", "Delete"} => pc'[q] = pc[q]
    BY <1>7 DEF TypeOK, At, GoTo, UpdateCategorySort, treeVars, lessonVars, fileVars,
       deleteVars, sortVars, formVars
  <2> QED
    BY <2>1, <2>2, TreeElsewhere
<1>8. ASSUME NEW r \in Requests, EndSort(r)
      PROVE  TreeInv'
  <2>1. UNCHANGED <<category, parent, raced, all, level>>
    BY <1>8 DEF EndSort, treeVars, lessonVars, fileVars, deleteVars, sortVars, formVars
  <2>2. \A q \in Requests : pc'[q] \in {"Children", "Delete"} => pc'[q] = pc[q]
    BY <1>8 DEF TypeOK, At, GoTo, EndSort, treeVars, lessonVars, fileVars, deleteVars,
       sortVars, formVars
  <2> QED
    BY <2>1, <2>2, TreeElsewhere
<1>9. ASSUME NEW r \in Requests, NEW l \in LessonIds, NEW c \in Categories,
             NEW v \in Videos,
             CreateLesson(r, l, c, v)
      PROVE  TreeInv'
  <2>1. UNCHANGED <<category, parent, raced, all, level>>
    BY <1>9 DEF CreateLesson, treeVars, lessonVars, fileVars, deleteVars, sortVars,
       formVars
  <2>2. \A q \in Requests : pc'[q] \in {"Children", "Delete"} => pc'[q] = pc[q]
    BY <1>9 DEF TypeOK, At, GoTo, CreateLesson, treeVars, lessonVars, fileVars,
       deleteVars, sortVars, formVars
  <2> QED
    BY <2>1, <2>2, TreeElsewhere
<1>10. ASSUME NEW r \in Requests, NEW c \in Categories, GetCategoryById(r, c)
      PROVE  TreeInv'
  <2>1. UNCHANGED <<category, parent, raced, all, level>>
    BY <1>10 DEF GetCategoryById, treeVars, lessonVars, fileVars, deleteVars, sortVars,
       formVars
  <2>2. \A q \in Requests : pc'[q] \in {"Children", "Delete"} => pc'[q] = pc[q]
    BY <1>10 DEF TypeOK, At, GoTo, GetCategoryById, treeVars, lessonVars, fileVars,
       deleteVars, sortVars, formVars
  <2> QED
    BY <2>1, <2>2, TreeElsewhere
<1>11. ASSUME NEW r \in Requests, NEW S \in SUBSET LessonIds, MoveLesson(r, S)
      PROVE  TreeInv'
  <2>1. UNCHANGED <<category, parent, raced, all, level>>
    BY <1>11 DEF MoveLesson, treeVars, lessonVars, fileVars, deleteVars, sortVars,
       formVars
  <2>2. \A q \in Requests : pc'[q] \in {"Children", "Delete"} => pc'[q] = pc[q]
    BY <1>11 DEF TypeOK, At, GoTo, MoveLesson, treeVars, lessonVars, fileVars,
       deleteVars, sortVars, formVars
  <2> QED
    BY <2>1, <2>2, TreeElsewhere
<1>12. ASSUME NEW r \in Requests, NEW l \in LessonIds, UpdateLessonStatus(r, l)
      PROVE  TreeInv'
  <2>1. UNCHANGED <<category, parent, raced, all, level>>
    BY <1>12 DEF UpdateLessonStatus, treeVars, lessonVars, fileVars, deleteVars,
       sortVars, formVars
  <2>2. \A q \in Requests : pc'[q] \in {"Children", "Delete"} => pc'[q] = pc[q]
    BY <1>12 DEF TypeOK, At, GoTo, UpdateLessonStatus, treeVars, lessonVars, fileVars,
       deleteVars, sortVars, formVars
  <2> QED
    BY <2>1, <2>2, TreeElsewhere
<1>13. ASSUME NEW r \in Requests, NEW l \in LessonIds, OpenForm(r, l)
      PROVE  TreeInv'
  <2>1. UNCHANGED <<category, parent, raced, all, level>>
    BY <1>13 DEF OpenForm, treeVars, lessonVars, fileVars, deleteVars, sortVars,
       formVars
  <2>2. \A q \in Requests : pc'[q] \in {"Children", "Delete"} => pc'[q] = pc[q]
    BY <1>13 DEF TypeOK, At, GoTo, OpenForm, treeVars, lessonVars, fileVars,
       deleteVars, sortVars, formVars
  <2> QED
    BY <2>1, <2>2, TreeElsewhere
<1>14. ASSUME NEW r \in Requests, NEW v \in Videos, GetLessonById(r, v)
      PROVE  TreeInv'
  <2>1. UNCHANGED <<category, parent, raced, all, level>>
    BY <1>14 DEF GetLessonById, treeVars, lessonVars, fileVars, deleteVars, sortVars,
       formVars
  <2>2. \A q \in Requests : pc'[q] \in {"Children", "Delete"} => pc'[q] = pc[q]
    BY <1>14 DEF TypeOK, At, GoTo, GetLessonById, treeVars, lessonVars, fileVars,
       deleteVars, sortVars, formVars
  <2> QED
    BY <2>1, <2>2, TreeElsewhere
<1>15. ASSUME NEW r \in Requests, UpdateLesson(r)
      PROVE  TreeInv'
  <2>1. UNCHANGED <<category, parent, raced, all, level>>
    BY <1>15 DEF UpdateLesson, treeVars, lessonVars, fileVars, deleteVars, sortVars,
       formVars
  <2>2. \A q \in Requests : pc'[q] \in {"Children", "Delete"} => pc'[q] = pc[q]
    BY <1>15 DEF TypeOK, At, GoTo, UpdateLesson, treeVars, lessonVars, fileVars,
       deleteVars, sortVars, formVars
  <2> QED
    BY <2>1, <2>2, TreeElsewhere
<1>16. ASSUME NEW r \in Requests, DeleteFile(r)
      PROVE  TreeInv'
  <2>1. UNCHANGED <<category, parent, raced, all, level>>
    BY <1>16 DEF DeleteFile, treeVars, lessonVars, fileVars, deleteVars, sortVars,
       formVars
  <2>2. \A q \in Requests : pc'[q] \in {"Children", "Delete"} => pc'[q] = pc[q]
    BY <1>16 DEF TypeOK, At, GoTo, DeleteFile, treeVars, lessonVars, fileVars,
       deleteVars, sortVars, formVars
  <2> QED
    BY <2>1, <2>2, TreeElsewhere
<1>17. ASSUME NEW r \in Requests, Stop(r)
      PROVE  TreeInv'
  <2>1. UNCHANGED <<category, parent, raced, all, level>>
    BY <1>17 DEF Stop, treeVars, lessonVars, fileVars, deleteVars, sortVars, formVars
  <2>2. \A q \in Requests : pc'[q] \in {"Children", "Delete"} => pc'[q] = pc[q]
    BY <1>17 DEF TypeOK, At, GoTo, Stop, treeVars, lessonVars, fileVars, deleteVars,
       sortVars, formVars
  <2> QED
    BY <2>1, <2>2, TreeElsewhere
<1>18. CASE UNCHANGED vars
  BY <1>18, TreeElsewhere DEF vars, treeVars, lessonVars, fileVars, deleteVars,
     sortVars, formVars
<1> QED
  BY <1>1, <1>2, <1>3, <1>4, <1>5, <1>6, <1>7, <1>8, <1>9, <1>10, <1>11, <1>12, <1>13,
     <1>14, <1>15, <1>16, <1>17, <1>18 DEF Next

-----------------------------------------------------------------------------
(* Sorts.                                                                  *)
LEMMA SortKept ==
  ASSUME SortInv, UNCHANGED <<list, written, order, disturbed>>,
         Known \subseteq Known',
         \A d \in Known : (d \in Here' => d \in Here) /\ sort'[d] = sort[d],
         \A q \in Requests : pc'[q] = "Sort" <=> pc[q] = "Sort",
         TypeOK
  PROVE  SortInv'
<1>1. Sorting' = Sorting
  BY DEF Sorting
<1>2. ListsAreKnown' /\ OneSorts'
  BY <1>1 DEF SortInv, ListsAreKnown, Listed, OneSorts
<1>3. WrittenIsSorted'
  <2> SUFFICES ASSUME ~ disturbed, NEW r \in Sorting, NEW i \in 1 .. written[r],
                      list[r][i] \in Here'
               PROVE  sort'[list[r][i]] = i
    BY <1>1 DEF WrittenIsSorted
  <2>1. i \in 1 .. Len(list[r])
    BY DEF SortInv, ListsAreKnown, Listed, Sorting, TypeOK
  <2>2. list[r][i] \in Known
    BY <2>1 DEF SortInv, ListsAreKnown, Listed
  <2> QED
    BY <2>2 DEF SortInv, WrittenIsSorted
<1>4. SortIsWhole'
  BY <1>1 DEF SortInv, ListsAreKnown, SortIsWhole
<1> QED
  BY <1>2, <1>3, <1>4 DEF SortInv

LEMMA SortElsewhere ==
  ASSUME SortInv, UNCHANGED <<category, sort, list, written, order, disturbed>>,
         \A q \in Requests : pc'[q] = "Sort" <=> pc[q] = "Sort",
         TypeOK
  PROVE  SortInv'
<1>1. Known' = Known /\ Here' = Here
  BY DEF Known, Here
<1> QED
  BY <1>1, SortKept

LEMMA SortStep == TypeOK /\ SortInv /\ [Next]_vars => SortInv'
<1> SUFFICES ASSUME TypeOK, SortInv, [Next]_vars
             PROVE  SortInv'
  OBVIOUS
<1>1. ASSUME NEW r \in Requests, NEW p \in Categories \cup {Root}, StartCreate(r, p)
      PROVE  SortInv'
  <2>1. UNCHANGED <<category, sort, list, written, order, disturbed>>
    BY <1>1 DEF StartCreate, treeVars, lessonVars, fileVars, deleteVars, sortVars,
       formVars
  <2>2. \A q \in Requests : pc'[q] = "Sort" <=> pc[q] = "Sort"
    BY <1>1 DEF TypeOK, At, GoTo, StartCreate, treeVars, lessonVars, fileVars,
       deleteVars, sortVars, formVars
  <2> QED
    BY <2>1, <2>2, SortElsewhere
<1>2. ASSUME NEW r \in Requests, NEW c \in Categories, NEW s \in Sorts,
             AddCategory(r, c, s)
      PROVE  SortInv'
  <2>1. c \notin Known
    BY <1>2 DEF AddCategory, FreshId
  <2>2. /\ UNCHANGED <<list, written, order, disturbed>>
        /\ Known \subseteq Known'
        /\ \A d \in Known : (d \in Here' <=> d \in Here) /\ sort'[d] = sort[d]
    BY <1>2, <2>1 DEF AddCategory, Known, Here, TypeOK, sortVars
  <2>3. \A q \in Requests : pc'[q] = "Sort" <=> pc[q] = "Sort"
    BY <1>2 DEF TypeOK, At, GoTo, AddCategory
  <2> QED
    BY <2>2, <2>3, SortKept
<1>3. ASSUME NEW r \in Requests, NEW ids \in SUBSET Categories, StartDelete(r, ids)
      PROVE  SortInv'
  <2>1. UNCHANGED <<category, sort, list, written, order, disturbed>>
    BY <1>3 DEF StartDelete, treeVars, lessonVars, fileVars, deleteVars, sortVars,
       formVars
  <2>2. \A q \in Requests : pc'[q] = "Sort" <=> pc[q] = "Sort"
    BY <1>3 DEF TypeOK, At, GoTo, StartDelete, treeVars, lessonVars, fileVars,
       deleteVars, sortVars, formVars
  <2> QED
    BY <2>1, <2>2, SortElsewhere
<1>4. ASSUME NEW r \in Requests, FindByParentIDs(r)
      PROVE  SortInv'
  <2>1. UNCHANGED <<category, sort, list, written, order, disturbed>>
    BY <1>4 DEF FindByParentIDs, Children, treeVars, lessonVars, fileVars, deleteVars,
       sortVars, formVars
  <2>2. \A q \in Requests : pc'[q] = "Sort" <=> pc[q] = "Sort"
    BY <1>4 DEF TypeOK, At, GoTo, FindByParentIDs, Children, treeVars, lessonVars,
       fileVars, deleteVars, sortVars, formVars
  <2> QED
    BY <2>1, <2>2, SortElsewhere
<1>5. ASSUME NEW r \in Requests, DeleteCategory(r)
      PROVE  SortInv'
  <2>1. UNCHANGED <<sort, list, written, order, disturbed>>
    BY <1>5 DEF DeleteCategory, treeVars, lessonVars, fileVars, deleteVars, sortVars,
       formVars
  <2>2. Known' = Known /\ Here' \subseteq Here
    BY <1>5 DEF DeleteCategory, Known, Here, TypeOK
  <2>3. \A q \in Requests : pc'[q] = "Sort" <=> pc[q] = "Sort"
    BY <1>5 DEF TypeOK, At, GoTo, DeleteCategory
  <2> QED
    BY <2>1, <2>2, <2>3, SortKept
<1>6. ASSUME NEW r \in Requests, NEW ids \in Lists, StartSort(r, ids)
      PROVE  SortInv'
  <2>1. /\ UNCHANGED <<category, sort, order>>
        /\ disturbed' = (disturbed \/ Sorting # {})
        /\ \A i \in 1 .. Len(ids) : ids[i] \in Known
        /\ list'[r] = ids /\ written'[r] = 0 /\ pc'[r] = "Sort"
        /\ \A q \in Requests \ {r} :
             pc'[q] = pc[q] /\ list'[q] = list[q] /\ written'[q] = written[q]
    BY <1>6 DEF StartSort, GoTo, TypeOK, treeVars
  <2>2. Known' = Known /\ Here' = Here
    BY <2>1 DEF Known, Here
  <2>3. Sorting' = Sorting \cup {r}
    BY <2>1 DEF Sorting
  <2>4. ListsAreKnown'
    <3>1. ASSUME NEW q \in Sorting'
          PROVE  Listed(q)'
      <4>1. CASE q = r
        BY <2>1, <2>2, <4>1, LessonsAssumption DEF Listed, SortInv, ListsAreKnown
      <4>2. CASE q # r
        BY <2>1, <2>2, <2>3, <4>2 DEF Listed, SortInv, ListsAreKnown, Sorting
      <4> QED
        BY <4>1, <4>2
    <3> QED
      BY <2>1, <2>2, <3>1 DEF SortInv, ListsAreKnown
  <2>5. ~ disturbed' => Sorting' = {r}
    BY <2>1, <2>3
  <2>6. OneSorts' /\ SortIsWhole'
    BY <2>3, <2>5 DEF OneSorts, SortIsWhole
  <2>7. WrittenIsSorted'
    BY <2>1, <2>5 DEF WrittenIsSorted
  <2> QED
    BY <2>4, <2>6, <2>7 DEF SortInv
<1>7. ASSUME NEW r \in Requests, UpdateCategorySort(r)
      PROVE  SortInv'
  <2> DEFINE i == written[r] + 1
             c == list[r][i]
  <2>1. /\ UNCHANGED <<category, pc, list, order, disturbed>>
        /\ pc[r] = "Sort" /\ written[r] < Len(list[r])
        /\ sort' = [sort EXCEPT ![c] = IF c \in Here THEN i ELSE @]
        /\ written'[r] = i
        /\ \A q \in Requests \ {r} : written'[q] = written[q]
    BY <1>7 DEF At, TypeOK, UpdateCategorySort, treeVars, lessonVars, fileVars,
       deleteVars, sortVars, formVars
  <2>2. Known' = Known /\ Here' = Here /\ Sorting' = Sorting /\ r \in Sorting
    BY <2>1 DEF Known, Here, Sorting
  <2>3. Listed(r)
    BY <2>2 DEF SortInv, ListsAreKnown
  <2>4. list[r] \in Seq(Categories) /\ Len(list[r]) \in Nat /\ written[r] \in Nat
    BY DEF TypeOK
  <2>5. i \in 1 .. Len(list[r]) /\ c \in Categories
    BY <2>1, <2>4
  <2>6. ListsAreKnown'
    <3>1. ASSUME NEW q \in Sorting'
          PROVE  Listed(q)'
      <4>1. CASE q = r
        BY <2>1, <2>2, <2>3, <2>5, <4>1 DEF Listed
      <4>2. CASE q # r
        BY <2>1, <2>2, <4>2 DEF Listed, SortInv, ListsAreKnown, Sorting
      <4> QED
        BY <4>1, <4>2
    <3> QED
      BY <2>1, <2>2, <3>1 DEF SortInv, ListsAreKnown
  <2>7. OneSorts' /\ SortIsWhole'
    BY <2>1, <2>2 DEF SortInv, OneSorts, SortIsWhole
  <2>8. WrittenIsSorted'
    <3> SUFFICES ASSUME ~ disturbed, NEW q \in Sorting, NEW j \in 1 .. written'[q],
                        list[q][j] \in Here
                 PROVE  sort'[list[q][j]] = j
      BY <2>1, <2>2 DEF WrittenIsSorted
    <3>1. q = r
      BY <2>2 DEF SortInv, OneSorts
    <3>2. CASE j = i
      BY <2>1, <2>5, <3>1, <3>2 DEF TypeOK
    <3>3. CASE j # i
      <4>1. j \in 1 .. written[r] /\ j \in 1 .. Len(list[r])
        BY <2>1, <2>4, <2>5, <3>1, <3>3
      <4>2. list[r][j] # c
        BY <2>3, <2>5, <3>3, <4>1 DEF Listed
      <4>3. sort[list[r][j]] = j
        BY <2>2, <3>1, <4>1 DEF SortInv, WrittenIsSorted
      <4>4. list[r][j] \in Categories
        BY <2>4, <4>1
      <4> QED
        BY <2>1, <3>1, <4>2, <4>3, <4>4 DEF TypeOK
    <3> QED
      BY <3>2, <3>3
  <2> QED
    BY <2>6, <2>7, <2>8 DEF SortInv
<1>8. ASSUME NEW r \in Requests, EndSort(r)
      PROVE  SortInv'
  <2>1. /\ UNCHANGED <<category, sort, list, written, disturbed>>
        /\ pc[r] = "Sort"
        /\ pc'[r] = "Done"
        /\ written[r] = Len(list[r])
        /\ order' = list[r]
        /\ \A q \in Requests \ {r} : pc'[q] = pc[q]
    BY <1>8 DEF At, GoTo, TypeOK, EndSort, treeVars
  <2>2. Known' = Known /\ Here' = Here /\ Sorting' = Sorting \ {r} /\ r \in Sorting
    BY <2>1 DEF Known, Here, Sorting
  <2>3. ListsAreKnown' /\ OneSorts' /\ WrittenIsSorted'
    BY <2>1, <2>2 DEF SortInv, ListsAreKnown, Listed, OneSorts, WrittenIsSorted
  <2>4. SortIsWhole'
    BY <2>1, <2>2 DEF SortInv, OneSorts, WrittenIsSorted, SortIsWhole
  <2> QED
    BY <2>3, <2>4 DEF SortInv
<1>9. ASSUME NEW r \in Requests, NEW l \in LessonIds, NEW c \in Categories,
             NEW v \in Videos,
             CreateLesson(r, l, c, v)
      PROVE  SortInv'
  <2>1. UNCHANGED <<category, sort, list, written, order, disturbed>>
    BY <1>9 DEF CreateLesson, treeVars, lessonVars, fileVars, deleteVars, sortVars,
       formVars
  <2>2. \A q \in Requests : pc'[q] = "Sort" <=> pc[q] = "Sort"
    BY <1>9 DEF TypeOK, At, GoTo, CreateLesson, treeVars, lessonVars, fileVars,
       deleteVars, sortVars, formVars
  <2> QED
    BY <2>1, <2>2, SortElsewhere
<1>10. ASSUME NEW r \in Requests, NEW c \in Categories, GetCategoryById(r, c)
      PROVE  SortInv'
  <2>1. UNCHANGED <<category, sort, list, written, order, disturbed>>
    BY <1>10 DEF GetCategoryById, treeVars, lessonVars, fileVars, deleteVars, sortVars,
       formVars
  <2>2. \A q \in Requests : pc'[q] = "Sort" <=> pc[q] = "Sort"
    BY <1>10 DEF TypeOK, At, GoTo, GetCategoryById, treeVars, lessonVars, fileVars,
       deleteVars, sortVars, formVars
  <2> QED
    BY <2>1, <2>2, SortElsewhere
<1>11. ASSUME NEW r \in Requests, NEW S \in SUBSET LessonIds, MoveLesson(r, S)
      PROVE  SortInv'
  <2>1. UNCHANGED <<category, sort, list, written, order, disturbed>>
    BY <1>11 DEF MoveLesson, treeVars, lessonVars, fileVars, deleteVars, sortVars,
       formVars
  <2>2. \A q \in Requests : pc'[q] = "Sort" <=> pc[q] = "Sort"
    BY <1>11 DEF TypeOK, At, GoTo, MoveLesson, treeVars, lessonVars, fileVars,
       deleteVars, sortVars, formVars
  <2> QED
    BY <2>1, <2>2, SortElsewhere
<1>12. ASSUME NEW r \in Requests, NEW l \in LessonIds, UpdateLessonStatus(r, l)
      PROVE  SortInv'
  <2>1. UNCHANGED <<category, sort, list, written, order, disturbed>>
    BY <1>12 DEF UpdateLessonStatus, treeVars, lessonVars, fileVars, deleteVars,
       sortVars, formVars
  <2>2. \A q \in Requests : pc'[q] = "Sort" <=> pc[q] = "Sort"
    BY <1>12 DEF TypeOK, At, GoTo, UpdateLessonStatus, treeVars, lessonVars, fileVars,
       deleteVars, sortVars, formVars
  <2> QED
    BY <2>1, <2>2, SortElsewhere
<1>13. ASSUME NEW r \in Requests, NEW l \in LessonIds, OpenForm(r, l)
      PROVE  SortInv'
  <2>1. UNCHANGED <<category, sort, list, written, order, disturbed>>
    BY <1>13 DEF OpenForm, treeVars, lessonVars, fileVars, deleteVars, sortVars,
       formVars
  <2>2. \A q \in Requests : pc'[q] = "Sort" <=> pc[q] = "Sort"
    BY <1>13 DEF TypeOK, At, GoTo, OpenForm, treeVars, lessonVars, fileVars,
       deleteVars, sortVars, formVars
  <2> QED
    BY <2>1, <2>2, SortElsewhere
<1>14. ASSUME NEW r \in Requests, NEW v \in Videos, GetLessonById(r, v)
      PROVE  SortInv'
  <2>1. UNCHANGED <<category, sort, list, written, order, disturbed>>
    BY <1>14 DEF GetLessonById, treeVars, lessonVars, fileVars, deleteVars, sortVars,
       formVars
  <2>2. \A q \in Requests : pc'[q] = "Sort" <=> pc[q] = "Sort"
    BY <1>14 DEF TypeOK, At, GoTo, GetLessonById, treeVars, lessonVars, fileVars,
       deleteVars, sortVars, formVars
  <2> QED
    BY <2>1, <2>2, SortElsewhere
<1>15. ASSUME NEW r \in Requests, UpdateLesson(r)
      PROVE  SortInv'
  <2>1. UNCHANGED <<category, sort, list, written, order, disturbed>>
    BY <1>15 DEF UpdateLesson, treeVars, lessonVars, fileVars, deleteVars, sortVars,
       formVars
  <2>2. \A q \in Requests : pc'[q] = "Sort" <=> pc[q] = "Sort"
    BY <1>15 DEF TypeOK, At, GoTo, UpdateLesson, treeVars, lessonVars, fileVars,
       deleteVars, sortVars, formVars
  <2> QED
    BY <2>1, <2>2, SortElsewhere
<1>16. ASSUME NEW r \in Requests, DeleteFile(r)
      PROVE  SortInv'
  <2>1. UNCHANGED <<category, sort, list, written, order, disturbed>>
    BY <1>16 DEF DeleteFile, treeVars, lessonVars, fileVars, deleteVars, sortVars,
       formVars
  <2>2. \A q \in Requests : pc'[q] = "Sort" <=> pc[q] = "Sort"
    BY <1>16 DEF TypeOK, At, GoTo, DeleteFile, treeVars, lessonVars, fileVars,
       deleteVars, sortVars, formVars
  <2> QED
    BY <2>1, <2>2, SortElsewhere
<1>17. ASSUME NEW r \in Requests, Stop(r)
      PROVE  SortInv'
  <2>1. /\ UNCHANGED <<category, sort, list, written, order>>
        /\ disturbed' = (disturbed \/ At(r, "Sort"))
        /\ pc'[r] = "Done"
        /\ \A q \in Requests \ {r} : pc'[q] = pc[q]
    BY <1>17 DEF GoTo, TypeOK, Stop, treeVars
  <2>2. Known' = Known /\ Here' = Here /\ Sorting' = Sorting \ {r}
    BY <2>1 DEF Known, Here, Sorting
  <2>3. ~ disturbed' => r \notin Sorting
    BY <2>1 DEF Sorting, At
  <2> QED
    BY <2>1, <2>2, <2>3, ZenonT(40) DEF SortInv, ListsAreKnown, Listed, OneSorts, WrittenIsSorted,
       SortIsWhole
<1>18. CASE UNCHANGED vars
  BY <1>18, SortElsewhere DEF vars, treeVars, lessonVars, fileVars, deleteVars,
     sortVars, formVars
<1> QED
  BY <1>1, <1>2, <1>3, <1>4, <1>5, <1>6, <1>7, <1>8, <1>9, <1>10, <1>11, <1>12, <1>13,
     <1>14, <1>15, <1>16, <1>17, <1>18 DEF Next

-----------------------------------------------------------------------------
(* Videos.                                                                 *)
LEMMA HeldIsUploaded ==
  ASSUME TypeOK, VideosAreOwned
  PROVE  /\ \A l \in Lessons : video[l] \in uploaded
         /\ \A r \in Requests : Active(r) =>
              /\ form[r] \in uploaded
              /\ pc[r] # "Form" => new[r] \in uploaded /\ old[r] \in uploaded
<1>1. ASSUME NEW l \in Lessons
      PROVE  video[l] \in uploaded
  <2>1. l \in LessonIds /\ video[l] \in Videos \cup {None} /\ Concerns(l, video[l])
    BY DEF Lessons, TypeOK, Concerns
  <2> QED
    BY <2>1 DEF VideosAreOwned
<1>2. ASSUME NEW r \in Requests, Active(r)
      PROVE  /\ form[r] \in uploaded
             /\ pc[r] # "Form" => new[r] \in uploaded /\ old[r] \in uploaded
  <2>1. target[r] \in LessonIds
    BY <1>2 DEF VideosAreOwned, Lessons
  <2>2. /\ form[r] \in Videos \cup {None}
        /\ new[r] \in Videos \cup {None}
        /\ old[r] \in Videos \cup {None}
    BY DEF TypeOK
  <2>3. /\ Concerns(target[r], form[r])
        /\ pc[r] # "Form" => Concerns(target[r], new[r]) /\ Concerns(target[r], old[r])
    BY <1>2 DEF Concerns
  <2> QED
    BY <2>1, <2>2, <2>3 DEF VideosAreOwned
<1> QED
  BY <1>1, <1>2

LEMMA OwnedKept ==
  ASSUME VideosAreOwned, uploaded' = uploaded,
         \A l \in LessonIds, v \in Videos \cup {None} : Concerns(l, v)' => Concerns(l, v),
         \A r \in Requests : Active(r)' => target'[r] \in Lessons'
  PROVE  VideosAreOwned'
BY DEF VideosAreOwned

LEMMA OwnedFresh ==
  ASSUME VideosAreOwned, NEW k \in LessonIds, NEW x \in Videos, x \notin uploaded,
         uploaded' = uploaded \cup {x},
         \A l \in LessonIds, v \in Videos \cup {None} :
           Concerns(l, v)' => Concerns(l, v) \/ (l = k /\ v = x),
         \A r \in Requests : Active(r)' => target'[r] \in Lessons'
  PROVE  VideosAreOwned'
<1>1. ASSUME NEW l \in LessonIds, NEW v \in Videos \cup {None}, Concerns(l, v)'
      PROVE  v \in uploaded'
  BY <1>1 DEF VideosAreOwned
<1>2. ASSUME NEW l \in LessonIds, NEW j \in LessonIds, NEW v \in Videos,
             Concerns(l, v)', Concerns(j, v)'
      PROVE  l = j
  <2>1. CASE v = x
    BY <1>2, <2>1 DEF VideosAreOwned
  <2>2. CASE v # x
    BY <1>2, <2>2 DEF VideosAreOwned
  <2> QED
    BY <2>1, <2>2
<1> QED
  BY <1>1, <1>2 DEF VideosAreOwned

LEMMA FilesKept ==
  ASSUME FileInv, UNCHANGED <<video, stored, uploaded, form, new, old, stale>>,
         Lessons' = Lessons,
         \A q \in Requests : Active(q)' => pc'[q] = pc[q] /\ target'[q] = target[q]
  PROVE  /\ VideosAreOwned' /\ FreshIsUnused' /\ OldIsReplaced'
         /\ OldIsCurrent' /\ MissingVideoNeedsStaleForm'
<1>1. \A q \in Requests : Active(q)' => Active(q)
  BY DEF Active
<1>2. VideosAreOwned'
  <2>1. \A l \in LessonIds, v \in Videos \cup {None} : Concerns(l, v)' => Concerns(l, v)
    BY <1>1 DEF Concerns
  <2>2. \A r \in Requests : Active(r)' => target'[r] \in Lessons'
    BY <1>1 DEF FileInv, VideosAreOwned
  <2> QED
    BY <2>1, <2>2, OwnedKept DEF FileInv
<1>3. FreshIsUnused'
  <2> SUFFICES ASSUME NEW r \in Requests, pc'[r] = "Write", new[r] # form[r]
               PROVE  Unused(r)'
    BY DEF FreshIsUnused
  <2>1. pc[r] = "Write"
    BY DEF Active
  <2>2. Unused(r)
    BY <2>1 DEF FileInv, FreshIsUnused
  <2> QED
    BY <1>1, <2>2 DEF Unused
<1>4. OldIsReplaced' /\ OldIsCurrent'
  BY DEF FileInv, OldIsReplaced, OldIsCurrent, Active
<1>5. MissingVideoNeedsStaleForm'
  BY DEF FileInv, MissingVideoNeedsStaleForm
<1> QED
  BY <1>2, <1>3, <1>4, <1>5

LEMMA FilesElsewhere ==
  ASSUME FileInv, UNCHANGED <<video, stored, uploaded, form, new, old, faults, stale>>,
         Lessons' = Lessons,
         \A q \in Requests : Active(q)' => pc'[q] = pc[q] /\ target'[q] = target[q],
         \A q \in Requests : Active(q) => pc'[q] = pc[q]
  PROVE  FileInv'
<1>1. LeftoverNeedsFault'
  BY DEF FileInv, LeftoverNeedsFault, Active
<1> QED
  BY <1>1, FilesKept DEF FileInv

LEMMA FileStep == TypeOK /\ TypeOK' /\ AimsAreRight /\ FileInv /\ [Next]_vars => FileInv'
<1> SUFFICES ASSUME TypeOK, TypeOK', AimsAreRight, FileInv, [Next]_vars
             PROVE  FileInv'
  OBVIOUS
<1>1. ASSUME NEW r \in Requests, NEW p \in Categories \cup {Root}, StartCreate(r, p)
      PROVE  FileInv'
  <2>1. /\ UNCHANGED <<video, stored, uploaded, form, new, old, faults, stale>>
        /\ Lessons' = Lessons
    BY <1>1 DEF Lessons, TypeOK, StartCreate, treeVars, lessonVars, fileVars,
       deleteVars, sortVars, formVars
  <2>2. \A q \in Requests : Active(q)' => pc'[q] = pc[q] /\ target'[q] = target[q]
    BY <1>1 DEF Active, TypeOK, At, GoTo, StartCreate, treeVars, lessonVars, fileVars,
       deleteVars, sortVars, formVars
  <2>3. \A q \in Requests : Active(q) => pc'[q] = pc[q]
    BY <1>1 DEF Active, TypeOK, At, GoTo, StartCreate, treeVars, lessonVars, fileVars,
       deleteVars, sortVars, formVars
  <2> QED
    BY <2>1, <2>2, <2>3, FilesElsewhere
<1>2. ASSUME NEW r \in Requests, NEW c \in Categories, NEW s \in Sorts,
             AddCategory(r, c, s)
      PROVE  FileInv'
  <2>1. /\ UNCHANGED <<video, stored, uploaded, form, new, old, faults, stale>>
        /\ Lessons' = Lessons
    BY <1>2 DEF Lessons, TypeOK, AddCategory, treeVars, lessonVars, fileVars,
       deleteVars, sortVars, formVars
  <2>2. \A q \in Requests : Active(q)' => pc'[q] = pc[q] /\ target'[q] = target[q]
    BY <1>2 DEF Active, TypeOK, At, GoTo, AddCategory, treeVars, lessonVars, fileVars,
       deleteVars, sortVars, formVars
  <2>3. \A q \in Requests : Active(q) => pc'[q] = pc[q]
    BY <1>2 DEF Active, TypeOK, At, GoTo, AddCategory, treeVars, lessonVars, fileVars,
       deleteVars, sortVars, formVars
  <2> QED
    BY <2>1, <2>2, <2>3, FilesElsewhere
<1>3. ASSUME NEW r \in Requests, NEW ids \in SUBSET Categories, StartDelete(r, ids)
      PROVE  FileInv'
  <2>1. /\ UNCHANGED <<video, stored, uploaded, form, new, old, faults, stale>>
        /\ Lessons' = Lessons
    BY <1>3 DEF Lessons, TypeOK, StartDelete, treeVars, lessonVars, fileVars,
       deleteVars, sortVars, formVars
  <2>2. \A q \in Requests : Active(q)' => pc'[q] = pc[q] /\ target'[q] = target[q]
    BY <1>3 DEF Active, TypeOK, At, GoTo, StartDelete, treeVars, lessonVars, fileVars,
       deleteVars, sortVars, formVars
  <2>3. \A q \in Requests : Active(q) => pc'[q] = pc[q]
    BY <1>3 DEF Active, TypeOK, At, GoTo, StartDelete, treeVars, lessonVars, fileVars,
       deleteVars, sortVars, formVars
  <2> QED
    BY <2>1, <2>2, <2>3, FilesElsewhere
<1>4. ASSUME NEW r \in Requests, FindByParentIDs(r)
      PROVE  FileInv'
  <2>1. /\ UNCHANGED <<video, stored, uploaded, form, new, old, faults, stale>>
        /\ Lessons' = Lessons
    BY <1>4 DEF Lessons, TypeOK, FindByParentIDs, Children, treeVars, lessonVars,
       fileVars, deleteVars, sortVars, formVars
  <2>2. \A q \in Requests : Active(q)' => pc'[q] = pc[q] /\ target'[q] = target[q]
    BY <1>4 DEF Active, TypeOK, At, GoTo, FindByParentIDs, Children, treeVars,
       lessonVars, fileVars, deleteVars, sortVars, formVars
  <2>3. \A q \in Requests : Active(q) => pc'[q] = pc[q]
    BY <1>4 DEF Active, TypeOK, At, GoTo, FindByParentIDs, Children, treeVars,
       lessonVars, fileVars, deleteVars, sortVars, formVars
  <2> QED
    BY <2>1, <2>2, <2>3, FilesElsewhere
<1>5. ASSUME NEW r \in Requests, DeleteCategory(r)
      PROVE  FileInv'
  <2>1. /\ UNCHANGED <<video, stored, uploaded, form, new, old, faults, stale>>
        /\ Lessons' = Lessons
    BY <1>5 DEF Lessons, TypeOK, DeleteCategory, treeVars, lessonVars, fileVars,
       deleteVars, sortVars, formVars
  <2>2. \A q \in Requests : Active(q)' => pc'[q] = pc[q] /\ target'[q] = target[q]
    BY <1>5 DEF Active, TypeOK, At, GoTo, DeleteCategory, treeVars, lessonVars,
       fileVars, deleteVars, sortVars, formVars
  <2>3. \A q \in Requests : Active(q) => pc'[q] = pc[q]
    BY <1>5 DEF Active, TypeOK, At, GoTo, DeleteCategory, treeVars, lessonVars,
       fileVars, deleteVars, sortVars, formVars
  <2> QED
    BY <2>1, <2>2, <2>3, FilesElsewhere
<1>6. ASSUME NEW r \in Requests, NEW ids \in Lists, StartSort(r, ids)
      PROVE  FileInv'
  <2>1. /\ UNCHANGED <<video, stored, uploaded, form, new, old, faults, stale>>
        /\ Lessons' = Lessons
    BY <1>6 DEF Lessons, TypeOK, StartSort, treeVars, lessonVars, fileVars, deleteVars,
       sortVars, formVars
  <2>2. \A q \in Requests : Active(q)' => pc'[q] = pc[q] /\ target'[q] = target[q]
    BY <1>6 DEF Active, TypeOK, At, GoTo, StartSort, treeVars, lessonVars, fileVars,
       deleteVars, sortVars, formVars
  <2>3. \A q \in Requests : Active(q) => pc'[q] = pc[q]
    BY <1>6 DEF Active, TypeOK, At, GoTo, StartSort, treeVars, lessonVars, fileVars,
       deleteVars, sortVars, formVars
  <2> QED
    BY <2>1, <2>2, <2>3, FilesElsewhere
<1>7. ASSUME NEW r \in Requests, UpdateCategorySort(r)
      PROVE  FileInv'
  <2>1. /\ UNCHANGED <<video, stored, uploaded, form, new, old, faults, stale>>
        /\ Lessons' = Lessons
    BY <1>7 DEF Lessons, TypeOK, UpdateCategorySort, treeVars, lessonVars, fileVars,
       deleteVars, sortVars, formVars
  <2>2. \A q \in Requests : Active(q)' => pc'[q] = pc[q] /\ target'[q] = target[q]
    BY <1>7 DEF Active, TypeOK, At, GoTo, UpdateCategorySort, treeVars, lessonVars,
       fileVars, deleteVars, sortVars, formVars
  <2>3. \A q \in Requests : Active(q) => pc'[q] = pc[q]
    BY <1>7 DEF Active, TypeOK, At, GoTo, UpdateCategorySort, treeVars, lessonVars,
       fileVars, deleteVars, sortVars, formVars
  <2> QED
    BY <2>1, <2>2, <2>3, FilesElsewhere
<1>8. ASSUME NEW r \in Requests, EndSort(r)
      PROVE  FileInv'
  <2>1. /\ UNCHANGED <<video, stored, uploaded, form, new, old, faults, stale>>
        /\ Lessons' = Lessons
    BY <1>8 DEF Lessons, TypeOK, EndSort, treeVars, lessonVars, fileVars, deleteVars,
       sortVars, formVars
  <2>2. \A q \in Requests : Active(q)' => pc'[q] = pc[q] /\ target'[q] = target[q]
    BY <1>8 DEF Active, TypeOK, At, GoTo, EndSort, treeVars, lessonVars, fileVars,
       deleteVars, sortVars, formVars
  <2>3. \A q \in Requests : Active(q) => pc'[q] = pc[q]
    BY <1>8 DEF Active, TypeOK, At, GoTo, EndSort, treeVars, lessonVars, fileVars,
       deleteVars, sortVars, formVars
  <2> QED
    BY <2>1, <2>2, <2>3, FilesElsewhere
<1>9. ASSUME NEW r \in Requests, NEW l \in LessonIds, NEW c \in Categories,
             NEW v \in Videos,
             CreateLesson(r, l, c, v)
      PROVE  FileInv'
  <2>1. /\ l \notin Lessons /\ v \notin uploaded
        /\ pc[r] = "Idle" /\ pc' = [pc EXCEPT ![r] = "Done"]
        /\ video' = [video EXCEPT ![l] = v]
        /\ stored' = stored \cup {v} /\ uploaded' = uploaded \cup {v}
        /\ UNCHANGED <<target, form, new, old, faults, stale>>
    BY <1>9 DEF CreateLesson, FreshId, formVars
  <2>2. c # None
    BY <1>9, LessonsAssumption
  <2>3. Lessons' = Lessons \cup {l}
    BY <1>9, <2>2 DEF CreateLesson, Lessons, TypeOK
  <2>4. \A q \in Requests :
          /\ Active(q)' <=> Active(q)
          /\ Active(q) => pc'[q] = pc[q] /\ target[q] \in Lessons /\ q # r
    BY <2>1 DEF Active, TypeOK, FileInv, VideosAreOwned
  <2>5. video'[l] = v /\ \A k \in Lessons : video'[k] = video[k] /\ k # l
    BY <2>1 DEF TypeOK, Lessons
  <2>6. VideosAreOwned'
    <3>1. \A k \in LessonIds, x \in Videos \cup {None} :
            Concerns(k, x)' => Concerns(k, x) \/ (k = l /\ x = v)
      BY <2>1, <2>3, <2>4, <2>5 DEF Concerns
    <3>2. \A q \in Requests : Active(q)' => target'[q] \in Lessons'
      BY <2>1, <2>3, <2>4
    <3> QED
      BY <2>1, <3>1, <3>2, OwnedFresh DEF FileInv
  <2>7. FreshIsUnused'
    <3> SUFFICES ASSUME NEW q \in Requests, pc'[q] = "Write", new[q] # form[q]
                 PROVE  Unused(q)'
      BY <2>1 DEF FreshIsUnused
    <3>1. Active(q) /\ pc[q] = "Write"
      BY <2>4 DEF Active
    <3>2. Unused(q)
      BY <3>1 DEF FileInv, FreshIsUnused
    <3>3. new[q] \in uploaded
      BY <3>1, HeldIsUploaded DEF FileInv
    <3> QED
      BY <2>1, <2>3, <2>4, <2>5, <3>2, <3>3 DEF Unused
  <2>8. OldIsReplaced' /\ OldIsCurrent'
    BY <2>1, <2>4, <2>5 DEF FileInv, OldIsReplaced, OldIsCurrent, Active
  <2>9. MissingVideoNeedsStaleForm'
    BY <2>1, <2>3, <2>5 DEF FileInv, MissingVideoNeedsStaleForm
  <2>10. LeftoverNeedsFault'
    BY <2>1, <2>3, <2>4, <2>5 DEF FileInv, LeftoverNeedsFault, Active
  <2> QED
    BY <2>6, <2>7, <2>8, <2>9, <2>10 DEF FileInv
<1>10. ASSUME NEW r \in Requests, NEW c \in Categories, GetCategoryById(r, c)
      PROVE  FileInv'
  <2>1. /\ UNCHANGED <<video, stored, uploaded, form, new, old, faults, stale>>
        /\ Lessons' = Lessons
    BY <1>10 DEF Lessons, TypeOK, GetCategoryById, treeVars, lessonVars, fileVars,
       deleteVars, sortVars, formVars
  <2>2. \A q \in Requests : Active(q)' => pc'[q] = pc[q] /\ target'[q] = target[q]
    BY <1>10 DEF Active, TypeOK, At, GoTo, GetCategoryById, treeVars, lessonVars,
       fileVars, deleteVars, sortVars, formVars
  <2>3. \A q \in Requests : Active(q) => pc'[q] = pc[q]
    BY <1>10 DEF Active, TypeOK, At, GoTo, GetCategoryById, treeVars, lessonVars,
       fileVars, deleteVars, sortVars, formVars
  <2> QED
    BY <2>1, <2>2, <2>3, FilesElsewhere
<1>11. ASSUME NEW r \in Requests, NEW S \in SUBSET LessonIds, MoveLesson(r, S)
      PROVE  FileInv'
  <2>1. /\ UNCHANGED <<video, stored, uploaded, form, new, old, faults, stale>>
        /\ Lessons' = Lessons
    <3>1. /\ S \subseteq Lessons
          /\ folder' = [l \in LessonIds |-> IF l \in S THEN target[r] ELSE folder[l]]
          /\ target[r] # None
      BY <1>11, LessonsAssumption DEF MoveLesson, AimsAreRight, Aimed, At
    <3> QED
      BY <1>11, <3>1 DEF Lessons, TypeOK, MoveLesson, fileVars, formVars
  <2>2. \A q \in Requests : Active(q)' => pc'[q] = pc[q] /\ target'[q] = target[q]
    BY <1>11 DEF Active, TypeOK, At, GoTo, MoveLesson, treeVars, lessonVars, fileVars,
       deleteVars, sortVars, formVars
  <2>3. \A q \in Requests : Active(q) => pc'[q] = pc[q]
    BY <1>11 DEF Active, TypeOK, At, GoTo, MoveLesson, treeVars, lessonVars, fileVars,
       deleteVars, sortVars, formVars
  <2> QED
    BY <2>1, <2>2, <2>3, FilesElsewhere
<1>12. ASSUME NEW r \in Requests, NEW l \in LessonIds, UpdateLessonStatus(r, l)
      PROVE  FileInv'
  <2>1. /\ UNCHANGED <<video, stored, uploaded, form, new, old, faults, stale>>
        /\ Lessons' = Lessons
    BY <1>12 DEF Lessons, TypeOK, UpdateLessonStatus, treeVars, lessonVars, fileVars,
       deleteVars, sortVars, formVars
  <2>2. \A q \in Requests : Active(q)' => pc'[q] = pc[q] /\ target'[q] = target[q]
    BY <1>12 DEF Active, TypeOK, At, GoTo, UpdateLessonStatus, treeVars, lessonVars,
       fileVars, deleteVars, sortVars, formVars
  <2>3. \A q \in Requests : Active(q) => pc'[q] = pc[q]
    BY <1>12 DEF Active, TypeOK, At, GoTo, UpdateLessonStatus, treeVars, lessonVars,
       fileVars, deleteVars, sortVars, formVars
  <2> QED
    BY <2>1, <2>2, <2>3, FilesElsewhere
<1>13. ASSUME NEW r \in Requests, NEW l \in LessonIds, OpenForm(r, l)
      PROVE  FileInv'
  <2>1. /\ l \in Lessons /\ pc[r] = "Idle"
        /\ pc' = [pc EXCEPT ![r] = "Form"]
        /\ target'[r] = l /\ form'[r] = video[l]
        /\ \A q \in Requests \ {r} : target'[q] = target[q] /\ form'[q] = form[q]
        /\ UNCHANGED <<video, stored, uploaded, new, old, faults, stale>>
    BY <1>13 DEF OpenForm, TypeOK, lessonVars, fileVars
  <2>2. Lessons' = Lessons
    BY <1>13 DEF OpenForm, Lessons, lessonVars
  <2>3. /\ pc'[r] = "Form" /\ Active(r)' /\ ~ Active(r)
        /\ \A q \in Requests \ {r} : pc'[q] = pc[q] /\ (Active(q)' <=> Active(q))
    BY <2>1 DEF Active, TypeOK
  <2>4. VideosAreOwned'
    <3>1. ASSUME NEW k \in LessonIds, NEW x \in Videos \cup {None}, Concerns(k, x)'
          PROVE  Concerns(k, x)
      <4>1. CASE k \in Lessons' /\ video'[k] = x
        BY <2>1, <2>2, <4>1 DEF Concerns
      <4>2. ASSUME NEW q \in Requests, Active(q)', target'[q] = k,
                   x = form'[q] \/ (pc'[q] # "Form" /\ x \in {new'[q], old'[q]})
            PROVE  Concerns(k, x)
        <5>1. CASE q = r
          BY <2>1, <2>3, <4>2, <5>1 DEF Concerns
        <5>2. CASE q # r
          BY <2>1, <2>3, <4>2, <5>2 DEF Concerns
        <5> QED
          BY <5>1, <5>2
      <4> QED
        BY <3>1, <4>1, <4>2 DEF Concerns
    <3>2. \A q \in Requests : Active(q)' => target'[q] \in Lessons'
      BY <2>1, <2>2, <2>3 DEF FileInv, VideosAreOwned
    <3> QED
      BY <2>1, <3>1, <3>2, OwnedKept DEF FileInv
  <2>5. FreshIsUnused'
    <3> SUFFICES ASSUME NEW q \in Requests, pc'[q] = "Write", new'[q] # form'[q]
                 PROVE  Unused(q)'
      BY DEF FreshIsUnused
    <3>1. q # r /\ pc[q] = "Write" /\ new[q] # form[q]
      BY <2>1, <2>3
    <3>2. Unused(q)
      BY <3>1 DEF FileInv, FreshIsUnused
    <3> QED
      BY <2>1, <2>2, <2>3, <3>2 DEF Unused
  <2>6. OldIsReplaced' /\ OldIsCurrent'
    BY <2>1, <2>3 DEF FileInv, OldIsReplaced, OldIsCurrent
  <2>7. MissingVideoNeedsStaleForm'
    BY <2>1, <2>2 DEF FileInv, MissingVideoNeedsStaleForm
  <2>8. LeftoverNeedsFault'
    BY <2>1, <2>2, <2>3 DEF FileInv, LeftoverNeedsFault
  <2> QED
    BY <2>4, <2>5, <2>6, <2>7, <2>8 DEF FileInv
<1>14. ASSUME NEW r \in Requests, NEW v \in Videos, GetLessonById(r, v)
      PROVE  FileInv'
  <2> DEFINE l == target[r]
  <2>1. /\ pc[r] = "Form" /\ pc' = [pc EXCEPT ![r] = "Write"]
        /\ new'[r] = v /\ old'[r] = video[l]
        /\ \A q \in Requests \ {r} : new'[q] = new[q] /\ old'[q] = old[q]
        /\ UNCHANGED <<video, target, form, faults, stale>>
    BY <1>14 DEF GetLessonById, TypeOK, lessonVars
  <2>2. \/ v = form[r] /\ stored' = stored /\ uploaded' = uploaded
        \/ /\ v # form[r] /\ v \notin uploaded
           /\ stored' = stored \cup {v} /\ uploaded' = uploaded \cup {v}
    BY <1>14 DEF GetLessonById, fileVars
  <2>3. Lessons' = Lessons
    BY <1>14 DEF GetLessonById, Lessons, lessonVars
  <2>4. /\ pc'[r] = "Write" /\ Active(r)' /\ Active(r)
        /\ \A q \in Requests \ {r} : pc'[q] = pc[q] /\ (Active(q)' <=> Active(q))
    BY <2>1 DEF Active, TypeOK
  <2>5. l \in Lessons /\ l \in LessonIds
    BY <2>4 DEF FileInv, VideosAreOwned, Lessons
  <2>6. /\ \A k \in Lessons : video[k] \in uploaded
        /\ \A q \in Requests : Active(q) =>
             /\ form[q] \in uploaded
             /\ pc[q] # "Form" => new[q] \in uploaded /\ old[q] \in uploaded
    BY HeldIsUploaded DEF FileInv
  <2>7. VideosAreOwned'
    <3>1. ASSUME NEW k \in LessonIds, NEW x \in Videos \cup {None}, Concerns(k, x)'
          PROVE  Concerns(k, x) \/ (k = l /\ x = v /\ v # form[r])
      <4>1. CASE k \in Lessons' /\ video'[k] = x
        BY <2>1, <2>3, <4>1 DEF Concerns
      <4>2. ASSUME NEW q \in Requests, Active(q)', target'[q] = k,
                   x = form'[q] \/ (pc'[q] # "Form" /\ x \in {new'[q], old'[q]})
            PROVE  Concerns(k, x) \/ (k = l /\ x = v /\ v # form[r])
        <5>1. CASE q = r
          BY <2>1, <2>4, <2>5, <4>2, <5>1 DEF Concerns
        <5>2. CASE q # r
          BY <2>1, <2>4, <4>2, <5>2 DEF Concerns
        <5> QED
          BY <5>1, <5>2
      <4> QED
        BY <3>1, <4>1, <4>2 DEF Concerns
    <3>2. \A q \in Requests : Active(q)' => target'[q] \in Lessons'
      BY <2>1, <2>3, <2>4 DEF FileInv, VideosAreOwned
    <3>3. CASE v = form[r]
      BY <2>2, <3>1, <3>2, <3>3, OwnedKept DEF FileInv
    <3>4. CASE v # form[r]
      BY <2>2, <2>5, <3>1, <3>2, <3>4, OwnedFresh DEF FileInv
    <3> QED
      BY <3>3, <3>4
  <2>8. FreshIsUnused'
    <3> SUFFICES ASSUME NEW q \in Requests, pc'[q] = "Write", new'[q] # form'[q]
                 PROVE  Unused(q)'
      BY DEF FreshIsUnused
    <3>1. CASE q = r
      <4>1. v # form[r] /\ v \notin uploaded /\ v \in stored'
        BY <2>1, <2>2, <3>1
      <4>2. \A k \in Lessons' : video'[k] # v
        BY <2>1, <2>3, <2>6, <4>1
      <4>3. ASSUME NEW p \in Requests \ {r}, Active(p)'
            PROVE  form'[p] # v /\ (pc'[p] # "Form" => new'[p] # v /\ old'[p] # v)
        BY <2>1, <2>4, <2>6, <4>1, <4>3
      <4>4. old'[r] # v
        BY <2>1, <2>5, <2>6, <4>1
      <4> QED
        BY <2>1, <3>1, <4>1, <4>2, <4>3, <4>4 DEF Unused
    <3>2. CASE q # r
      <4>1. /\ pc[q] = "Write"
            /\ new[q] # form[q]
            /\ Active(q)
            /\ new'[q] = new[q]
            /\ old'[q] = old[q]
        BY <2>1, <2>4, <3>2 DEF Active
      <4>2. Unused(q) /\ new[q] \in uploaded
        BY <2>6, <4>1 DEF FileInv, FreshIsUnused
      <4>3. form[r] # new[q] /\ v # new[q] /\ video[l] # new[q]
        BY <2>2, <2>4, <2>5, <3>2, <4>2 DEF Unused
      <4>4. ASSUME NEW p \in Requests \ {q}, Active(p)'
            PROVE  /\ form'[p] # new[q]
                   /\ pc'[p] # "Form" => new'[p] # new[q] /\ old'[p] # new[q]
        <5>1. CASE p = r
          BY <2>1, <4>3, <5>1
        <5>2. CASE p # r
          BY <2>1, <2>4, <4>2, <4>4, <5>2 DEF Unused
        <5> QED
          BY <5>1, <5>2
      <4>5. new[q] \in stored' /\ new[q] # old[q] /\ \A k \in Lessons' : video'[k] # new[q]
        BY <2>1, <2>2, <2>3, <4>2 DEF Unused
      <4> QED
        BY <4>1, <4>4, <4>5 DEF Unused
    <3> QED
      BY <3>1, <3>2
  <2>9. OldIsReplaced' /\ OldIsCurrent'
    BY <2>1, <2>4 DEF FileInv, OldIsReplaced, OldIsCurrent
  <2>10. MissingVideoNeedsStaleForm'
    BY <2>1, <2>2, <2>3 DEF FileInv, MissingVideoNeedsStaleForm
  <2>11. LeftoverNeedsFault'
    BY <2>1, <2>2, <2>3, <2>4 DEF FileInv, LeftoverNeedsFault
  <2> QED
    BY <2>7, <2>8, <2>9, <2>10, <2>11 DEF FileInv
<1>15. ASSUME NEW r \in Requests, UpdateLesson(r)
      PROVE  FileInv'
  <2> DEFINE l == target[r]
  <2>1. /\ pc[r] = "Write"
        /\ pc' = [pc EXCEPT ![r] = IF old[r] # new[r] THEN "DeleteFile" ELSE "Done"]
        /\ video' = [video EXCEPT ![l] = new[r]]
        /\ stale' = IF video[l] = form[r] THEN stale ELSE stale \cup {l}
        /\ UNCHANGED <<target, form, new, old, faults, stored, uploaded>>
    BY <1>15 DEF UpdateLesson, formVars, fileVars
  <2>2. Lessons' = Lessons
    BY <1>15 DEF UpdateLesson, Lessons
  <2>3. /\ Active(r) /\ (Active(r)' => pc'[r] = "DeleteFile" /\ old[r] # new[r])
        /\ old[r] # new[r] => pc'[r] = "DeleteFile"
        /\ \A q \in Requests \ {r} : pc'[q] = pc[q] /\ (Active(q)' <=> Active(q))
    BY <2>1 DEF Active, TypeOK
  <2>4. l \in Lessons /\ l \in LessonIds
    BY <2>3 DEF FileInv, VideosAreOwned, Lessons
  <2>5. /\ video'[l] = new[r]
        /\ \A k \in LessonIds \ {l} : video'[k] = video[k]
        /\ stale \subseteq stale' /\ (video[l] # form[r] => l \in stale')
    BY <2>1, <2>4 DEF TypeOK
  <2>6. new[r] # form[r] => Unused(r)
    BY <2>1 DEF FileInv, FreshIsUnused
  <2>7. l \in stale' \/ video'[l] = video[l] \/ (new[r] # form[r] /\ Unused(r))
    BY <2>1, <2>4, <2>5, <2>6
  <2>8. VideosAreOwned'
    <3>1. Concerns(l, new[r])
      BY <2>1, <2>3 DEF Concerns
    <3>2. ASSUME NEW k \in LessonIds, NEW x \in Videos \cup {None}, Concerns(k, x)'
          PROVE  Concerns(k, x)
      <4>1. CASE k \in Lessons' /\ video'[k] = x
        BY <2>2, <2>5, <3>1, <4>1 DEF Concerns
      <4>2. ASSUME NEW q \in Requests, Active(q)', target'[q] = k,
                   x = form'[q] \/ (pc'[q] # "Form" /\ x \in {new'[q], old'[q]})
            PROVE  Concerns(k, x)
        <5>1. CASE q = r
          BY <2>1, <2>3, <4>2, <5>1 DEF Concerns
        <5>2. CASE q # r
          BY <2>1, <2>3, <4>2, <5>2 DEF Concerns
        <5> QED
          BY <5>1, <5>2
      <4> QED
        BY <3>2, <4>1, <4>2 DEF Concerns
    <3>3. \A q \in Requests : Active(q)' => target'[q] \in Lessons'
      BY <2>1, <2>2, <2>3 DEF FileInv, VideosAreOwned
    <3> QED
      BY <2>1, <3>2, <3>3, OwnedKept DEF FileInv
  <2>9. FreshIsUnused'
    <3> SUFFICES ASSUME NEW q \in Requests, pc'[q] = "Write", new[q] # form[q]
                 PROVE  Unused(q)'
      BY <2>1 DEF FreshIsUnused
    <3>1. q # r /\ pc[q] = "Write"
      BY <2>1, <2>3 DEF TypeOK
    <3>2. Unused(q)
      BY <3>1 DEF FileInv, FreshIsUnused
    <3>3. new[r] # new[q]
      BY <2>1, <2>3, <3>1, <3>2 DEF Unused
    <3>4. \A k \in Lessons' : video'[k] # new[q]
      BY <2>2, <2>5, <3>2, <3>3 DEF Unused, Lessons
    <3>5. \A p \in Requests : Active(p)' => Active(p) /\ (pc'[p] # "Form" => pc[p] # "Form")
      BY <2>1, <2>3
    <3> QED
      BY <2>1, <3>2, <3>4, <3>5 DEF Unused
  <2>10. OldIsReplaced'
    <3> SUFFICES ASSUME NEW q \in Requests, pc'[q] = "DeleteFile", target[q] \notin stale'
                 PROVE  video'[target[q]] # old[q]
      BY <2>1 DEF OldIsReplaced
    <3>1. CASE q = r
      BY <2>3, <2>5, <3>1 DEF Active
    <3>2. CASE q # r
      <4>1. pc[q] = "DeleteFile" /\ Active(q) /\ target[q] \in LessonIds
        BY <2>3, <3>2 DEF Active, FileInv, VideosAreOwned, Lessons
      <4>2. video[target[q]] # old[q]
        BY <2>5, <4>1 DEF FileInv, OldIsReplaced
      <4>3. Unused(r) => old[q] # new[r]
        BY <3>2, <4>1 DEF Unused
      <4>4. CASE target[q] = l
        BY <2>5, <2>7, <4>2, <4>3, <4>4
      <4>5. CASE target[q] # l
        BY <2>5, <4>1, <4>2, <4>5
      <4> QED
        BY <4>4, <4>5
    <3> QED
      BY <3>1, <3>2
  <2>11. OldIsCurrent'
    <3> SUFFICES ASSUME NEW q \in Requests, pc'[q] = "Write", target[q] \notin stale',
                        video'[target[q]] = form[q]
                 PROVE  old[q] = form[q]
      BY <2>1 DEF OldIsCurrent
    <3>1. q # r /\ pc[q] = "Write" /\ Active(q) /\ target[q] \in LessonIds
      BY <2>1, <2>3 DEF Active, TypeOK, FileInv, VideosAreOwned, Lessons
    <3>2. Unused(r) => form[q] # new[r]
      BY <3>1 DEF Unused
    <3>3. video[target[q]] = form[q]
      <4>1. CASE target[q] = l
        BY <2>5, <2>7, <3>2, <4>1
      <4>2. CASE target[q] # l
        BY <2>5, <3>1, <4>2
      <4> QED
        BY <4>1, <4>2
    <3> QED
      BY <2>5, <3>1, <3>3 DEF FileInv, OldIsCurrent
  <2>12. MissingVideoNeedsStaleForm'
    <3> SUFFICES ASSUME NEW k \in Lessons, k \notin stale'
                 PROVE  video'[k] \in stored
      BY <2>1, <2>2 DEF MissingVideoNeedsStaleForm
    <3>1. video[k] \in stored
      BY <2>5 DEF FileInv, MissingVideoNeedsStaleForm
    <3>2. CASE k = l
      BY <2>5, <2>7, <3>1, <3>2 DEF Unused
    <3>3. CASE k # l
      BY <2>5, <3>1, <3>3 DEF Lessons
    <3> QED
      BY <3>2, <3>3
  <2>13. LeftoverNeedsFault'
    <3> SUFFICES ASSUME NEW v \in stored, ~ (faults > 0), stale' = {}
                 PROVE  \/ \E k \in Lessons : video'[k] = v
                        \/ \E q \in Requests : pc'[q] = "Write" /\ new[q] = v
                        \/ \E q \in Requests : pc'[q] = "DeleteFile" /\ old[q] = v
      BY <2>1, <2>2 DEF LeftoverNeedsFault
    <3>1. stale = {} /\ video[l] = form[r]
      BY <2>5
    <3>2. old[r] = video[l]
      BY <2>1, <3>1 DEF FileInv, OldIsCurrent
    <3>3. ASSUME NEW k \in Lessons, video[k] = v
          PROVE  \/ \E j \in Lessons : video'[j] = v
                 \/ \E q \in Requests : pc'[q] = "DeleteFile" /\ old[q] = v
      <4>1. CASE k # l
        BY <2>5, <3>3, <4>1 DEF Lessons
      <4>2. CASE k = l /\ old[r] = new[r]
        BY <2>4, <2>5, <3>2, <3>3, <4>2
      <4>3. CASE k = l /\ old[r] # new[r]
        BY <2>3, <3>2, <3>3, <4>3
      <4> QED
        BY <4>1, <4>2, <4>3
    <3>4. ASSUME NEW q \in Requests, pc[q] = "Write", new[q] = v
          PROVE  \/ \E k \in Lessons : video'[k] = v
                 \/ \E p \in Requests : pc'[p] = "Write" /\ new[p] = v
      <4>1. CASE q = r
        BY <2>4, <2>5, <3>4, <4>1
      <4>2. CASE q # r
        BY <2>3, <3>4, <4>2
      <4> QED
        BY <4>1, <4>2
    <3>5. ASSUME NEW q \in Requests, pc[q] = "DeleteFile", old[q] = v
          PROVE  \E p \in Requests : pc'[p] = "DeleteFile" /\ old[p] = v
      BY <2>1, <2>3, <3>5
    <3> QED
      BY <3>1, <3>3, <3>4, <3>5 DEF FileInv, LeftoverNeedsFault
  <2> QED
    BY <2>8, <2>9, <2>10, <2>11, <2>12, <2>13 DEF FileInv
<1>16. ASSUME NEW r \in Requests, DeleteFile(r)
      PROVE  FileInv'
  <2>1. /\ pc[r] = "DeleteFile" /\ pc' = [pc EXCEPT ![r] = "Done"]
        /\ stored' = stored \ {old[r]}
        /\ UNCHANGED <<video, uploaded, target, form, new, old, faults, stale>>
    BY <1>16 DEF DeleteFile, formVars, lessonVars
  <2>2. Lessons' = Lessons
    BY <1>16 DEF DeleteFile, Lessons, lessonVars
  <2>3. /\ Active(r) /\ ~ Active(r)'
        /\ \A q \in Requests \ {r} : pc'[q] = pc[q] /\ (Active(q)' <=> Active(q))
    BY <2>1 DEF Active, TypeOK
  <2>4. VideosAreOwned'
    <3>1. \A k \in LessonIds, x \in Videos \cup {None} : Concerns(k, x)' => Concerns(k, x)
      BY <2>1, <2>2, <2>3 DEF Concerns
    <3>2. \A q \in Requests : Active(q)' => target'[q] \in Lessons'
      BY <2>1, <2>2, <2>3 DEF FileInv, VideosAreOwned
    <3> QED
      BY <2>1, <3>1, <3>2, OwnedKept DEF FileInv
  <2>5. FreshIsUnused'
    <3> SUFFICES ASSUME NEW q \in Requests, pc'[q] = "Write", new[q] # form[q]
                 PROVE  Unused(q)'
      BY <2>1 DEF FreshIsUnused
    <3>1. q # r /\ pc[q] = "Write"
      BY <2>1, <2>3 DEF TypeOK
    <3>2. Unused(q)
      BY <3>1 DEF FileInv, FreshIsUnused
    <3>3. old[r] # new[q]
      BY <2>1, <2>3, <3>1, <3>2 DEF Unused
    <3> QED
      BY <2>1, <2>2, <2>3, <3>2, <3>3 DEF Unused
  <2>6. OldIsReplaced' /\ OldIsCurrent'
    BY <2>1, <2>3 DEF FileInv, OldIsReplaced, OldIsCurrent, Active
  <2>7. MissingVideoNeedsStaleForm'
    <3> SUFFICES ASSUME NEW l \in Lessons, l \notin stale
                 PROVE  video[l] \in stored'
      BY <2>1, <2>2 DEF MissingVideoNeedsStaleForm
    <3>1. video[l] \in stored
      BY DEF FileInv, MissingVideoNeedsStaleForm
    <3>2. video[l] # old[r]
      <4> SUFFICES ASSUME video[l] = old[r]
                   PROVE  FALSE
        OBVIOUS
      <4>1. l \in LessonIds /\ target[r] \in LessonIds /\ old[r] \in Videos
        BY <2>3, <3>1 DEF FileInv, VideosAreOwned, Lessons, TypeOK
      <4>2. Concerns(l, old[r]) /\ Concerns(target[r], old[r])
        BY <2>1, <2>3 DEF Concerns
      <4>3. l = target[r]
        BY <4>1, <4>2 DEF FileInv, VideosAreOwned
      <4> QED
        BY <2>1, <4>3 DEF FileInv, OldIsReplaced
    <3> QED
      BY <2>1, <3>1, <3>2
  <2>8. LeftoverNeedsFault'
    BY <2>1, <2>2, <2>3 DEF FileInv, LeftoverNeedsFault
  <2> QED
    BY <2>4, <2>5, <2>6, <2>7, <2>8 DEF FileInv
<1>17. ASSUME NEW r \in Requests, Stop(r)
      PROVE  FileInv'
  <2>1. UNCHANGED <<video, stored, uploaded, form, new, old, stale>> /\ faults' = faults + 1
    BY <1>17 DEF Stop, treeVars, lessonVars, fileVars, deleteVars, sortVars, formVars
  <2>2. Lessons' = Lessons
    BY <1>17 DEF Lessons, Stop, treeVars, lessonVars, fileVars, deleteVars, sortVars,
       formVars
  <2>3. \A q \in Requests : Active(q)' => pc'[q] = pc[q] /\ target'[q] = target[q]
    BY <1>17 DEF Active, TypeOK, Stop, treeVars, lessonVars, fileVars, deleteVars,
       sortVars, formVars
  <2>4. LeftoverNeedsFault'
    <3>1. faults \in Nat
      BY LessonsAssumption DEF TypeOK
    <3> QED
      BY <2>1, <3>1 DEF LeftoverNeedsFault
  <2> QED
    BY <2>1, <2>2, <2>3, <2>4, FilesKept DEF FileInv
<1>18. CASE UNCHANGED vars
  BY <1>18, FilesElsewhere DEF vars, Lessons, Active, treeVars, lessonVars, fileVars,
     deleteVars, sortVars, formVars
<1> QED
  BY <1>1, <1>2, <1>3, <1>4, <1>5, <1>6, <1>7, <1>8, <1>9, <1>10, <1>11, <1>12, <1>13,
     <1>14, <1>15, <1>16, <1>17, <1>18 DEF Next

-----------------------------------------------------------------------------
LEMMA AimStep == TypeOK /\ AimsAreRight /\ [Next]_vars => AimsAreRight'
<1> SUFFICES ASSUME TypeOK, AimsAreRight, [Next]_vars
             PROVE  AimsAreRight'
  OBVIOUS
<1>1. ASSUME NEW r \in Requests, NEW p \in Categories \cup {Root}, StartCreate(r, p)
      PROVE  AimsAreRight'
  <2>1. \A q \in Requests \ {r} : pc'[q] = pc[q] /\ target'[q] = target[q]
    BY <1>1 DEF TypeOK, StartCreate, treeVars, lessonVars, fileVars, deleteVars,
       sortVars, formVars
  <2>2. Aimed(r)'
    BY <1>1 DEF TypeOK, AimsAreRight, Aimed, Here, StartCreate, treeVars, lessonVars,
       fileVars, deleteVars, sortVars, formVars
  <2> QED
    BY <2>1, <2>2 DEF AimsAreRight, Aimed
<1>2. ASSUME NEW r \in Requests, NEW c \in Categories, NEW s \in Sorts,
             AddCategory(r, c, s)
      PROVE  AimsAreRight'
  <2>1. \A q \in Requests \ {r} : pc'[q] = pc[q] /\ target'[q] = target[q]
    BY <1>2 DEF TypeOK, AddCategory, treeVars, lessonVars, fileVars, deleteVars,
       sortVars, formVars
  <2>2. Aimed(r)'
    BY <1>2 DEF TypeOK, AimsAreRight, Aimed, AddCategory, treeVars, lessonVars,
       fileVars, deleteVars, sortVars, formVars
  <2> QED
    BY <2>1, <2>2 DEF AimsAreRight, Aimed
<1>3. ASSUME NEW r \in Requests, NEW ids \in SUBSET Categories, StartDelete(r, ids)
      PROVE  AimsAreRight'
  <2>1. \A q \in Requests \ {r} : pc'[q] = pc[q] /\ target'[q] = target[q]
    BY <1>3 DEF TypeOK, StartDelete, treeVars, lessonVars, fileVars, deleteVars,
       sortVars, formVars
  <2>2. Aimed(r)'
    BY <1>3 DEF TypeOK, AimsAreRight, Aimed, StartDelete, treeVars, lessonVars,
       fileVars, deleteVars, sortVars, formVars
  <2> QED
    BY <2>1, <2>2 DEF AimsAreRight, Aimed
<1>4. ASSUME NEW r \in Requests, FindByParentIDs(r)
      PROVE  AimsAreRight'
  <2>1. \A q \in Requests \ {r} : pc'[q] = pc[q] /\ target'[q] = target[q]
    BY <1>4 DEF TypeOK, FindByParentIDs, Children, treeVars, lessonVars, fileVars,
       deleteVars, sortVars, formVars
  <2>2. Aimed(r)'
    BY <1>4 DEF TypeOK, AimsAreRight, Aimed, FindByParentIDs, Children, treeVars,
       lessonVars, fileVars, deleteVars, sortVars, formVars
  <2> QED
    BY <2>1, <2>2 DEF AimsAreRight, Aimed
<1>5. ASSUME NEW r \in Requests, DeleteCategory(r)
      PROVE  AimsAreRight'
  <2>1. \A q \in Requests \ {r} : pc'[q] = pc[q] /\ target'[q] = target[q]
    BY <1>5 DEF TypeOK, DeleteCategory, treeVars, lessonVars, fileVars, deleteVars,
       sortVars, formVars
  <2>2. Aimed(r)'
    BY <1>5 DEF TypeOK, AimsAreRight, Aimed, DeleteCategory, treeVars, lessonVars,
       fileVars, deleteVars, sortVars, formVars
  <2> QED
    BY <2>1, <2>2 DEF AimsAreRight, Aimed
<1>6. ASSUME NEW r \in Requests, NEW ids \in Lists, StartSort(r, ids)
      PROVE  AimsAreRight'
  <2>1. \A q \in Requests \ {r} : pc'[q] = pc[q] /\ target'[q] = target[q]
    BY <1>6 DEF TypeOK, StartSort, treeVars, lessonVars, fileVars, deleteVars,
       sortVars, formVars
  <2>2. Aimed(r)'
    BY <1>6 DEF TypeOK, AimsAreRight, Aimed, StartSort, treeVars, lessonVars, fileVars,
       deleteVars, sortVars, formVars
  <2> QED
    BY <2>1, <2>2 DEF AimsAreRight, Aimed
<1>7. ASSUME NEW r \in Requests, UpdateCategorySort(r)
      PROVE  AimsAreRight'
  <2>1. \A q \in Requests \ {r} : pc'[q] = pc[q] /\ target'[q] = target[q]
    BY <1>7 DEF TypeOK, UpdateCategorySort, treeVars, lessonVars, fileVars, deleteVars,
       sortVars, formVars
  <2>2. Aimed(r)'
    BY <1>7 DEF TypeOK, AimsAreRight, Aimed, UpdateCategorySort, treeVars, lessonVars,
       fileVars, deleteVars, sortVars, formVars
  <2> QED
    BY <2>1, <2>2 DEF AimsAreRight, Aimed
<1>8. ASSUME NEW r \in Requests, EndSort(r)
      PROVE  AimsAreRight'
  <2>1. \A q \in Requests \ {r} : pc'[q] = pc[q] /\ target'[q] = target[q]
    BY <1>8 DEF TypeOK, EndSort, treeVars, lessonVars, fileVars, deleteVars, sortVars,
       formVars
  <2>2. Aimed(r)'
    BY <1>8 DEF TypeOK, AimsAreRight, Aimed, EndSort, treeVars, lessonVars, fileVars,
       deleteVars, sortVars, formVars
  <2> QED
    BY <2>1, <2>2 DEF AimsAreRight, Aimed
<1>9. ASSUME NEW r \in Requests, NEW l \in LessonIds, NEW c \in Categories,
             NEW v \in Videos,
             CreateLesson(r, l, c, v)
      PROVE  AimsAreRight'
  <2>1. \A q \in Requests \ {r} : pc'[q] = pc[q] /\ target'[q] = target[q]
    BY <1>9 DEF TypeOK, CreateLesson, treeVars, lessonVars, fileVars, deleteVars,
       sortVars, formVars
  <2>2. Aimed(r)'
    BY <1>9 DEF TypeOK, AimsAreRight, Aimed, CreateLesson, treeVars, lessonVars,
       fileVars, deleteVars, sortVars, formVars
  <2> QED
    BY <2>1, <2>2 DEF AimsAreRight, Aimed
<1>10. ASSUME NEW r \in Requests, NEW c \in Categories, GetCategoryById(r, c)
      PROVE  AimsAreRight'
  <2>1. \A q \in Requests \ {r} : pc'[q] = pc[q] /\ target'[q] = target[q]
    BY <1>10 DEF TypeOK, GetCategoryById, treeVars, lessonVars, fileVars, deleteVars,
       sortVars, formVars
  <2>2. Aimed(r)'
    BY <1>10 DEF TypeOK, AimsAreRight, Aimed, Here, GetCategoryById, treeVars,
       lessonVars, fileVars, deleteVars, sortVars, formVars
  <2> QED
    BY <2>1, <2>2 DEF AimsAreRight, Aimed
<1>11. ASSUME NEW r \in Requests, NEW S \in SUBSET LessonIds, MoveLesson(r, S)
      PROVE  AimsAreRight'
  <2>1. \A q \in Requests \ {r} : pc'[q] = pc[q] /\ target'[q] = target[q]
    BY <1>11 DEF TypeOK, MoveLesson, treeVars, lessonVars, fileVars, deleteVars,
       sortVars, formVars
  <2>2. Aimed(r)'
    BY <1>11 DEF TypeOK, AimsAreRight, Aimed, MoveLesson, treeVars, lessonVars,
       fileVars, deleteVars, sortVars, formVars
  <2> QED
    BY <2>1, <2>2 DEF AimsAreRight, Aimed
<1>12. ASSUME NEW r \in Requests, NEW l \in LessonIds, UpdateLessonStatus(r, l)
      PROVE  AimsAreRight'
  <2>1. \A q \in Requests \ {r} : pc'[q] = pc[q] /\ target'[q] = target[q]
    BY <1>12 DEF TypeOK, UpdateLessonStatus, treeVars, lessonVars, fileVars,
       deleteVars, sortVars, formVars
  <2>2. Aimed(r)'
    BY <1>12 DEF TypeOK, AimsAreRight, Aimed, UpdateLessonStatus, treeVars, lessonVars,
       fileVars, deleteVars, sortVars, formVars
  <2> QED
    BY <2>1, <2>2 DEF AimsAreRight, Aimed
<1>13. ASSUME NEW r \in Requests, NEW l \in LessonIds, OpenForm(r, l)
      PROVE  AimsAreRight'
  <2>1. \A q \in Requests \ {r} : pc'[q] = pc[q] /\ target'[q] = target[q]
    BY <1>13 DEF TypeOK, OpenForm, treeVars, lessonVars, fileVars, deleteVars,
       sortVars, formVars
  <2>2. Aimed(r)'
    BY <1>13 DEF TypeOK, AimsAreRight, Aimed, Lessons, OpenForm, treeVars, lessonVars,
       fileVars, deleteVars, sortVars, formVars
  <2> QED
    BY <2>1, <2>2 DEF AimsAreRight, Aimed
<1>14. ASSUME NEW r \in Requests, NEW v \in Videos, GetLessonById(r, v)
      PROVE  AimsAreRight'
  <2>1. \A q \in Requests \ {r} : pc'[q] = pc[q] /\ target'[q] = target[q]
    BY <1>14 DEF TypeOK, GetLessonById, treeVars, lessonVars, fileVars, deleteVars,
       sortVars, formVars
  <2>2. Aimed(r)'
    BY <1>14 DEF TypeOK, AimsAreRight, Aimed, GetLessonById, treeVars, lessonVars,
       fileVars, deleteVars, sortVars, formVars
  <2> QED
    BY <2>1, <2>2 DEF AimsAreRight, Aimed
<1>15. ASSUME NEW r \in Requests, UpdateLesson(r)
      PROVE  AimsAreRight'
  <2>1. \A q \in Requests \ {r} : pc'[q] = pc[q] /\ target'[q] = target[q]
    BY <1>15 DEF TypeOK, UpdateLesson, treeVars, lessonVars, fileVars, deleteVars,
       sortVars, formVars
  <2>2. Aimed(r)'
    BY <1>15 DEF TypeOK, AimsAreRight, Aimed, UpdateLesson, treeVars, lessonVars,
       fileVars, deleteVars, sortVars, formVars
  <2> QED
    BY <2>1, <2>2 DEF AimsAreRight, Aimed
<1>16. ASSUME NEW r \in Requests, DeleteFile(r)
      PROVE  AimsAreRight'
  <2>1. \A q \in Requests \ {r} : pc'[q] = pc[q] /\ target'[q] = target[q]
    BY <1>16 DEF TypeOK, DeleteFile, treeVars, lessonVars, fileVars, deleteVars,
       sortVars, formVars
  <2>2. Aimed(r)'
    BY <1>16 DEF TypeOK, AimsAreRight, Aimed, DeleteFile, treeVars, lessonVars,
       fileVars, deleteVars, sortVars, formVars
  <2> QED
    BY <2>1, <2>2 DEF AimsAreRight, Aimed
<1>17. ASSUME NEW r \in Requests, Stop(r)
      PROVE  AimsAreRight'
  <2>1. \A q \in Requests \ {r} : pc'[q] = pc[q] /\ target'[q] = target[q]
    BY <1>17 DEF TypeOK, Stop, treeVars, lessonVars, fileVars, deleteVars, sortVars,
       formVars
  <2>2. Aimed(r)'
    BY <1>17 DEF TypeOK, AimsAreRight, Aimed, Stop, treeVars, lessonVars, fileVars,
       deleteVars, sortVars, formVars
  <2> QED
    BY <2>1, <2>2 DEF AimsAreRight, Aimed
<1>18. CASE UNCHANGED vars
  BY <1>18 DEF AimsAreRight, Aimed, vars, treeVars, lessonVars, fileVars, deleteVars,
     sortVars, formVars
<1> QED
  BY <1>1, <1>2, <1>3, <1>4, <1>5, <1>6, <1>7, <1>8, <1>9, <1>10, <1>11, <1>12, <1>13,
     <1>14, <1>15, <1>16, <1>17, <1>18 DEF Next

LEMMA InvStep == Inv /\ [Next]_vars => Inv'
BY TypeStep, AimStep, TreeStep, SortStep, FileStep DEF Inv

(* Every variable keeps its type, and what is stored was uploaded.         *)
THEOREM TypeCorrect == Spec => []TypeOK
<1>1. Inv => TypeOK
  BY DEF Inv
<1> QED
  BY InitInv, InvStep, <1>1, PTL DEF Spec

(* A category is left without its parent only by a race with deletions,   *)
(* and a sort that nothing disturbs is complete (CategoryDelete,           *)
(* CategorySort).                                                          *)
THEOREM TreeIsAlwaysWhole == Spec => []TreeIsWhole
<1>1. Inv => TreeIsWhole
  BY DEF Inv, TreeInv, SortInv, TreeIsWhole
<1> QED
  BY InitInv, InvStep, <1>1, PTL DEF Spec

(* UpdateLesson removes the videos that no lesson shows, and no others,    *)
(* unless a lesson is saved from a form older than its row, or a request   *)
(* fails.                                                                  *)
THEOREM VideosAlwaysMatch == Spec => []VideosMatch
<1>1. Inv => VideosMatch
  BY DEF Inv, FileInv, VideosMatch
<1> QED
  BY InitInv, InvStep, <1>1, PTL DEF Spec
=============================================================================
