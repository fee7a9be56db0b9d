--------------------------- MODULE MCAuthSessions ---------------------------
(***************************************************************************)
(* AuthSessions on small instances.                                        *)
(***************************************************************************)
EXTENDS AuthSessions

CONSTANT u1

\* All credentials belong to one user: locks of different users never meet.
OneOwner == [c \in Creds |-> u1]
=============================================================================
