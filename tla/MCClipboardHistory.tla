-------------------------- MODULE MCClipboardHistory --------------------------
(* TLC instances of ClipboardHistory.                                       *)
EXTENDS ClipboardHistory

\* A roomy and a tight history.
MCLimits == {[items |-> 2, pins |-> 1, keep |-> 1],
             [items |-> 1, pins |-> 1, keep |-> 0]}

MCOneLimit == {[items |-> 1, pins |-> 1, keep |-> 1]}

=============================================================================
