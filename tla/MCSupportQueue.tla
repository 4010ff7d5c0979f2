--------------------------- MODULE MCSupportQueue ---------------------------
(* Small instances of SupportQueue for TLC. *)
EXTENDS SupportQueue, TLC

\* Processes and tickets are interchangeable.
Symmetric == Permutations(Job) \cup Permutations(Ticket)
=============================================================================
