-------------------------- MODULE MCButtonHandler --------------------------
(* UP and DOWN; the times are those of AppConfig in ticks of 10 ms. *)
EXTENDS ButtonHandler

=============================================================================
