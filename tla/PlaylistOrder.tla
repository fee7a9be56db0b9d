---------------------------- MODULE PlaylistOrder ----------------------------
(***************************************************************************)
(* What playlists promise: each one is a sequence of entries, and every    *)
(* request that changes playlists does so in one step.  An entry is an     *)
(* item and the track it stands for; a track may be in a playlist twice.   *)
(***************************************************************************)
EXTENDS Naturals, Sequences, SequencesExt, TLC

CONSTANTS PlaylistIds, ItemIds, Tracks

VARIABLE lists   \* the playlists there are, each with its sequence

Entry == [id : ItemIds, track : Tracks]

Listed(e) == \E p \in DOMAIN lists : e.id \in {f.id : f \in ToSet(lists[p])}

Init == lists = <<>>

Add(p, e) == ~Listed(e) /\ lists' = [lists EXCEPT ![p] = Append(@, e)]

\* The others keep their order.
Take(p, k) == lists' = [lists EXCEPT ![p] = RemoveAt(@, k)]

\* The same entries in another order.
Permute(p) ==
  /\ DOMAIN lists' = DOMAIN lists
  /\ \A q \in DOMAIN lists \ {p} : lists'[q] = lists[q]
  /\ Len(lists'[p]) = Len(lists[p]) /\ ToSet(lists'[p]) = ToSet(lists[p])

\* One playlist is deleted, or all playlists of a user.
Drop(gone) ==
  /\ gone \subseteq DOMAIN lists
  /\ lists' = [p \in DOMAIN lists \ gone |-> lists[p]]

\* One or several playlists appear at once, complete, and no entry of theirs
\* repeats a track; a playlist that is created is empty.
Appear ==
  LET new == DOMAIN lists' \ DOMAIN lists IN
  /\ DOMAIN lists \subseteq DOMAIN lists' /\ new \subseteq PlaylistIds
  /\ \A p \in DOMAIN lists : lists'[p] = lists[p]
  /\ \A p \in new : /\ IsInjective([k \in DOMAIN lists'[p] |-> lists'[p][k].track])
                    /\ \A e \in ToSet(lists'[p]) : e \in Entry /\ ~Listed(e)

\* A request that changes nothing, or changes no playlist.
Nothing == UNCHANGED lists

Next ==
  \/ Nothing
  \/ \E p \in DOMAIN lists :
       \/ \E e \in Entry : Add(p, e)
       \/ \E k \in DOMAIN lists[p] : Take(p, k)
       \/ Permute(p)
  \/ \E gone \in SUBSET DOMAIN lists : Drop(gone)
  \/ Appear

Spec == Init /\ [][Next]_lists
=============================================================================
