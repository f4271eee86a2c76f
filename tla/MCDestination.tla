--------------------------- MODULE MCDestination ---------------------------
(* Destination for TLC, with interchangeable uploads. *)
EXTENDS Destination, TLC

UploadSymmetry == Permutations(Uploads)

MCSourceFolder == <<"d">>

(* A file in the source folder and one in a subdirectory. *)
MCFiles == {<<"a">>, <<"s", "b">>}

(* A subdirectory with a directory that is named like the source folder. *)
RecurringFiles == {<<"s", "b">>, <<"s", "d", "b">>}
=============================================================================
