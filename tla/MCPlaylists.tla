---------------------------- MODULE MCPlaylists ----------------------------
(***************************************************************************)
(* Playlists on a small instance: a user with two requests at a time, an   *)
(* imported file that repeats a track, and a shelf of two lists that names *)
(* the same tracks in the other order.                                     *)
(***************************************************************************)
EXTENDS Playlists

CONSTANTS u1, u2, r1, r2, a, b

RequestOf == [r \in Requests |-> IF r = r1 THEN u1 ELSE u2]
AsksOf == [r \in Requests |-> IF r = r1 THEN {"add", "reorder", "drop", "create", "file"}
                                      ELSE {"add", "remove", "rename", "shelf"}]
OneFile == {<<a, b, a>>}
OneShelf == {<<<<b, a>>, <<a>>>>}
NothingKnown == {{}}
=============================================================================
