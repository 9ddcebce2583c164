--------------------------- MODULE MCDefragThread ---------------------------
EXTENDS DefragThread

Content(t, r, i, d) == [total |-> t, removed |-> r, index |-> i, data |-> d]
New == Content(2, 0, FALSE, FALSE)
Small == Content(1, 0, FALSE, FALSE)
Half == Content(2, 1, TRUE, TRUE)
Kept == Content(2, 0, TRUE, TRUE)
Empty == Content(2, 2, TRUE, FALSE)

With(c, timed, auto, bases) ==
    [config |-> [threads |-> c, timed |-> timed, auto |-> auto], bases |-> bases]

(* Groups bounded by records and by size; bases to remove and to skip; an  *)
(* almost empty store; no permanent threads.                               *)
SmallSetups ==
    {With(TRUE, TRUE, "none", <<Small, Small, Small, New>>),
     With(TRUE, FALSE, "index", <<Half, Half, Small, New>>),
     With(TRUE, FALSE, "data", <<New, Empty, Kept, Small>>),
     With(TRUE, FALSE, "data", <<New>>),
     With(TRUE, FALSE, "none", <<>>),
     With(FALSE, FALSE, "none", <<Half, Empty, Small>>)}
=============================================================================
