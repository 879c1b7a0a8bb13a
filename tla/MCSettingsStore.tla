-------------------------- MODULE MCSettingsStore --------------------------
(***************************************************************************)
(* Small instances of SettingsStore for TLC: the parameters of a page take *)
(* one of two values.                                                      *)
(***************************************************************************)
EXTENDS SettingsStore

CONSTANTS a, b

\* All the parameters have their default values
MCDefault == [p \in 1 .. Pages |-> a]

MCSettings == {MCDefault} \cup {[p \in 1 .. Pages |-> b]}

=============================================================================
