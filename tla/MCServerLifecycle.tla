-------------------------- MODULE MCServerLifecycle --------------------------
(* ServerLifecycle with a variable that is unset, wrong, positive or zero. *)
EXTENDS ServerLifecycle

MCValues == {Unset, Junk, Number(2), Number(0)}

=============================================================================
