------------------------------ MODULE LessonsMC ------------------------------
(* Lessons for TLC: a category with two below it, of which one has another *)
(* one below, and a lesson.                                                *)
EXTENDS Lessons, TLC

CONSTANT v1

MCTree  == <<0, 1, 1, 2>>
MCLists == {<<2, 3>>, <<3, 2>>}

MCFilms == <<v1>>

RequestSymmetry == Permutations(Requests)

=============================================================================
