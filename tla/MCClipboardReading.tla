------------------------- MODULE MCClipboardReading -------------------------
(* A small instance of ClipboardReading for TLC. *)
EXTENDS ClipboardReading

Kind(ole, flushes, delayed, private, big, formats) ==
    [ole |-> ole, flushes |-> flushes, delayed |-> delayed, private |-> private,
     big |-> big, formats |-> formats]

MCKinds ==
    {Kind(TRUE, TRUE, TRUE, "no", FALSE, <<"custom", "text">>),
     Kind(TRUE, FALSE, TRUE, "blocked", FALSE, <<"text">>),
     Kind(TRUE, TRUE, TRUE, "flagged", FALSE, <<"text">>),
     Kind(FALSE, FALSE, TRUE, "no", FALSE, <<"image">>),
     Kind(FALSE, FALSE, FALSE, "no", TRUE, <<"files">>),
     Kind(FALSE, FALSE, FALSE, "no", FALSE, <<"other">>)}
=============================================================================
