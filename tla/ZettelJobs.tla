----------------------------- MODULE ZettelJobs -----------------------------
(***************************************************************************)
(* A vault with the jobs that use it: one metadata run at a time, builds   *)
(* of the index, the user who writes notes, and the process, which dies.   *)
(***************************************************************************)
EXTENDS MetadataRun, ZettelIndex

zettelVars == <<scenario, note, metadataVars, indexVars>>

ZettelInit == VaultInit /\ MetadataInit /\ IndexInit

Crash == Spend("crashes") /\ RunDies /\ BuildsDie /\ UNCHANGED note

Jobs == (MetadataStep /\ UNCHANGED indexVars) \/ (IndexStep /\ UNCHANGED metadataVars)
Others ==
  \/ ((Generate \/ CancelRun) /\ UNCHANGED indexVars)
  \/ ((\E b \in Build : BeginBuild(b) \/ CancelBuild(b)) /\ UNCHANGED metadataVars)
  \/ ((\E n \in Note : Edit(n)) /\ UNCHANGED <<metadataVars, indexVars>>)
ZettelNext == Jobs \/ Others \/ Crash

\* A job that can take a step is scheduled and takes it: calls return (or
\* fail at their timeout), workers and the loops that collect run on.
ZettelSpec == ZettelInit /\ [][ZettelNext]_zettelVars /\ WF_zettelVars(Jobs)
-----------------------------------------------------------------------------
\* Every run and every build ends, with an answer, whatever fails or is
\* stopped: no worker waits for a lock that nobody will release.
JobsEnd ==
  /\ run.pc = "work" ~> run.pc = "off"
  /\ \A b \in Build : build[b].pc # "off" ~> build[b].pc = "off"
=============================================================================
