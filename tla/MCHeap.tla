------------------------------- MODULE MCHeap -------------------------------
(* Instances of Heap for TLC: a heap with room for seven empty blocks or four of two bytes. *)
EXTENDS Heap

\* Zero elements, a product that needs rounding, and one too large.
SmallArrays == {<<3, 0>>, <<1, 3>>, <<4, 7>>}

=============================================================================
