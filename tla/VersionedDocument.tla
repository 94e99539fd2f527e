------------------------- MODULE VersionedDocument -------------------------
(***************************************************************************)
(* What the store promises about one document, with no processes, versions *)
(* to compare or registrations: its history only grows, one body at a time *)
(* and each at the end; only the last body can be released, only when it   *)
(* compiles, and the next edit withdraws the release; a removed document   *)
(* never comes back.  Publishing implements this specification.            *)
(***************************************************************************)
EXTENDS Sequences, Naturals

CONSTANTS
    Bodies,          \* what a version can hold
    Sound            \* the bodies that compile

VARIABLES
    history,         \* the bodies of versions 1, 2, ...
    released,        \* whether the last of them is the one to run
    removed

vars == <<history, released, removed>>

Init == history = <<>> /\ released = FALSE /\ removed = FALSE

Edit ==
    /\ ~removed
    /\ \E body \in Bodies : history' = Append(history, body)
    /\ released' = FALSE
    /\ UNCHANGED removed

Release ==
    /\ ~removed
    /\ history # <<>>
    /\ history[Len(history)] \in Sound
    /\ released' = TRUE
    /\ UNCHANGED <<history, removed>>

Withdraw == released' = FALSE /\ UNCHANGED <<history, removed>>

Remove == history' = <<>> /\ released' = FALSE /\ removed' = TRUE

Next == Edit \/ Release \/ Withdraw \/ Remove

Spec == Init /\ [][Next]_vars
=============================================================================
