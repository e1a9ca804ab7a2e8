---------------------------- MODULE MCSymccSweep ----------------------------
(* One policy, one subcommand and a --timeout longer than the constant. *)
EXTENDS SymccSweep

OneSubcommand == <<"never-errors">>
=============================================================================
