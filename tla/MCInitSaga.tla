----------------------------- MODULE MCInitSaga -----------------------------
(* The TLC instance of the initialization saga.                               *)
EXTENDS InitSaga

(* The seed leaves the genre and the story open; only the genre has a choice. *)
TwoAsked == [s \in Session |-> {"genre", "story"}]
GenreOpen == [q \in Question |-> IF q = "genre" THEN {"a", "b"} ELSE {"a"}]
=============================================================================
