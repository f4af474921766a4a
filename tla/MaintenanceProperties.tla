----------------------- MODULE MaintenanceProperties -----------------------
(***************************************************************************)
(* What backup, restore and update promise, and where the restore departs  *)
(* from its documentation.                                                 *)
(***************************************************************************)
EXTENDS Maintenance

\* Types; the number of archives kept is the configured one, and one that a restore of the
\* operator reads.
TypeOK ==
  /\ {marker, held, up} \subseteq BOOLEAN /\ lock \in Shells \cup {NoOne}
  /\ env \in {"none", "live", "chosen"}
  /\ data \in [from : {"empty", "partial", "fresh", "live", "chosen"}, v : 0..MaxVersion]
  /\ Len(archives) <= Keep + 1
  /\ \A p \in Shells : script[p].run \in {"none", "backup", "restore", "update"}

\* An installation that is incomplete, or whose keys do not belong to its data, is hidden,
\* whatever failed and however a backup interleaves; the one exception is a backup that
\* overlapped the beginning of the restore and took its marker away (restore.sh, backup.sh).
BrokenIsHidden == Sound \/ Blank \/ marker \/ exposed

\* The encryption keys in .env never stand beside data of another installation
\* (restore_archive removes .env with the data and writes it last).
KeysMatchData == env # "none" /\ Whole(data) => env = data.from

\* "They never disable a maintenance mode that was already active when they started."
HeldMarkerStays == held => marker

\* Nothing is deleted before a backup at least as new as the restore's start is kept.
SavedFirst ==
  \A p \in Shells : (script[p].at = "delete" /\ data' = Partial /\ Whole(script[p].base)) =>
    \E a \in ToSet(archives) : /\ a.env = env /\ a.data.from = script[p].base.from
                               /\ a.data.v >= script[p].base.v
SafetyBackupFirst == [][SavedFirst]_vars

-----------------------------------------------------------------------------
(* A statement of the documentation that the code breaks. *)

\* OPERATIONS.md: an interrupted replacement is corrected "by running the selected restore
\* again", so a restore must accept the installation it left.
CanRunAgain ==
  ~Sound /\ ~Blank /\ archives # <<>> /\ (\A p \in Shells : script[p] = Idle) =>
    \E replace \in BOOLEAN : MayRestore(replace) /\ (~replace => Blank)
=============================================================================
