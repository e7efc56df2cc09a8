--------------------------- MODULE MCRollupIngest ---------------------------
(* RollupIngest for TLC: the configuration bounds connections, changes and  *)
(* faults; the guard keeps the constants of safety.go.                      *)
EXTENDS RollupIngest

\* Two wrong roll-ups, or one and a restart.
Either == { << 0, 1 >>, << 1, 0 >> }
=============================================================================
