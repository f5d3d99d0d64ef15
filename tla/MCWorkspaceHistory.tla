-------------------------- MODULE MCWorkspaceHistory --------------------------
(***************************************************************************)
(* Small instances of WorkspaceHistory for TLC: one file in the scope, one *)
(* out of it, two contents.                                                *)
(***************************************************************************)
EXTENDS WorkspaceHistory, TLC

CONSTANTS server, cli, inside, outside, red, blue

OneServer == {server}
WithCli   == {server, cli}
TwoPaths  == {inside, outside}
TheScope  == {inside}
Colours   == {red, blue}
OneColour == {red}

All       == {"timeout", "overrun", "abort", "raise"}
AllInTime == {"timeout", "abort", "raise"}
None      == {}
Aborts    == {"abort"}
Overruns  == {"overrun"}

\* Contents are compared and copied, nothing else.
ColourSymmetry == Permutations(Colours)
=============================================================================
