-------------------------- MODULE MCFilaConcurrent --------------------------
(* FilaConcurrent with a few consultants and requests. *)
EXTENDS FilaConcurrent

Everybody  == {Consultants}
AnyOneLeft == Everybody \cup {Consultants \ {c} : c \in Consultants}
=============================================================================
