--------------------------- MODULE MCHistoryView ---------------------------
(* A small instance of HistoryView for TLC. *)
EXTENDS HistoryView

MCClip(id, ty, matches, cut, pinned) ==
    [id |-> id, type |-> ty, matches |-> matches, cut |-> cut, last |-> id,
     pinned |-> pinned]

\* A pinned image, and two texts, one of which the filter finds.
MCFirst ==
    {MCClip(1, "image", FALSE, FALSE, TRUE),
     MCClip(2, "text", TRUE, TRUE, FALSE),
     MCClip(3, "text", FALSE, TRUE, FALSE)}

MCSegments == <<"all", "text">>

MCTwo == {c \in MCFirst : c.id < 3}
=============================================================================
