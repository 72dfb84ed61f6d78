---------------------------- MODULE MCMainWindow ----------------------------
(* MainWindow for TLC.                                                     *)
EXTENDS MainWindow

CONSTANTS lo, lan, other, p1, p2

\* One remote endpoint; the seeds name it, and this machine by one of its names.
MCRemote    == {<<other, p1>>}
MCSeedLists == {{<<lo, p1>>, <<other, p1>>}}

=============================================================================
