---------------------------- MODULE MCLiveMinutes ----------------------------
(* Small instances of LiveMinutes for TLC. *)
EXTENDS LiveMinutes, TLC

\* With neither switch an exception of a task changes nothing: the runs of
\* <<FALSE, TRUE>> in which none raises are its runs.
SwitchModes == (BOOLEAN \X BOOLEAN) \ {<<FALSE, FALSE>>}
StrictModes == {<<TRUE, TRUE>>}
Symmetry    == Permutations(Orders)
=============================================================================
