---------------------------- MODULE Maintenance ----------------------------
(***************************************************************************)
(* The operator's scripts: the encrypted backup that cron and the operator *)
(* run, the restore that replaces configuration and data file by file, the *)
(* update, and the marker file that hides the site while they work.  Any   *)
(* command may fail and the host may stop between two of them.             *)
(*                                                                         *)
(* Data is where it came from and a version that the running services      *)
(* advance.  web and scheduler are started and stopped together.  An       *)
(* operator Mut... is a faulty variant of the definition after it.         *)
(***************************************************************************)
EXTENDS Naturals, SequencesExt

CONSTANTS
  Cron, Operator,  \* the shells; cron runs backups only
  Keep,            \* KEEP_BACKUPS
  MaxRuns, MaxFaults, MaxVersion, MaxByHand,   \* bounds
  NoOne

Shells == {Cron, Operator}

ASSUME MaintenanceAssumption ==
  /\ Cron # Operator /\ NoOne \notin Shells
  /\ Keep \in Nat \ {0} /\ {MaxRuns, MaxFaults, MaxVersion, MaxByHand} \subseteq Nat

VARIABLES
  marker,    \* .runtime/maintenance.enabled exists
  held,      \* history: the operator has set the marker by hand
  env,       \* .env: "none", or which installation it belongs to
  data,      \* the volume
  up,        \* web and scheduler run
  lock,      \* .silentrelay-backup.lock
  archives,  \* completed backups, the newest first
  script,    \* what each shell executes
  exposed,   \* history: a backup that overlapped a restore has removed the restore's marker,
             \* and no restore since has set one that stays
  runs, faults, byHand

bounds == <<runs, faults, byHand>>
vars == <<marker, held, env, data, up, lock, archives, script, exposed, bounds>>

Empty   == [from |-> "empty", v |-> 0]
Partial == [from |-> "partial", v |-> 0]
\* An archive from elsewhere
Chosen  == [data |-> [from |-> "chosen", v |-> 0], env |-> "chosen", no |-> 0]
Damaged == [data |-> Empty, env |-> "none", no |-> 0]
Fresh   == [from |-> "fresh", v |-> 0]   \* what a migration makes of missing data
Whole(d) == d \notin {Empty, Partial, Fresh}
Sound == Whole(data) /\ env = data.from
Blank == data = Empty /\ env = "none"

\* replace, source: arguments of restore.sh; was, found: the marker as the script and its
\* backup saw it; restart: services the backup has to start again; base: history; no: identity
Idle == [at |-> "idle", run |-> "none", replace |-> FALSE, source |-> Damaged, was |-> FALSE,
         found |-> FALSE, restart |-> FALSE, base |-> Empty, no |-> 0]

Init ==
  /\ marker = FALSE /\ held = FALSE
  /\ \/ Blank /\ up = FALSE
     \/ data = [from |-> "live", v |-> 0] /\ env = "live" /\ up = TRUE
  /\ lock = NoOne /\ archives = <<>> /\ script = [p \in Shells |-> Idle]
  /\ exposed = FALSE /\ runs = 0 /\ faults = 0 /\ byHand = 0

At(p, step) == script[p].at = step
Goto(p, step) == script' = [script EXCEPT ![p].at = step]

-----------------------------------------------------------------------------
(* Starting a script: its checks, the marker it finds, the confirmation. *)

Start(p, run, replace, source) ==
  /\ script[p] = Idle /\ runs < MaxRuns
  /\ runs' = runs + 1
  /\ script' = [script EXCEPT ![p] = [Idle EXCEPT
       !.at = IF run = "restore" THEN "hide" ELSE "lock", !.run = run, !.replace = replace,
       !.source = source, !.was = marker, !.base = data, !.no = runs']]
  /\ UNCHANGED <<marker, held, env, data, up, lock, archives, exposed, faults, byHand>>

\* The operator does not choose an archive of a broken installation.
MayRestore(replace) == (env # "none") = replace
StartBackup(p) == env # "none" /\ Start(p, "backup", FALSE, Damaged)
StartUpdate == env # "none" /\ Start(Operator, "update", FALSE, Damaged)
StartRestore ==
  \E replace \in BOOLEAN,
     source \in {Chosen, Damaged} \cup {a \in ToSet(archives) : Whole(a.data)} :
    MayRestore(replace) /\ Start(Operator, "restore", replace, source)

\* A backup under way that removes the marker when it ends
WillShow(p) ==
  /\ script[p].at \in {"backup on", "backup stop", "archive", "backup start", "backup off"}
  /\ ~script[p].found

\* maintenance.sh on, after the confirmation
Hide(p) ==
  /\ At(p, "hide") /\ marker' = TRUE
  /\ Goto(p, IF script[p].run = "update" THEN "start"
             ELSE IF script[p].replace THEN "lock" ELSE "inspect")
  /\ exposed' = (exposed /\ (script[p].run = "update" \/ \E q \in Shells \ {p} : WillShow(q)))
  /\ UNCHANGED <<held, env, data, up, lock, archives, bounds>>

-----------------------------------------------------------------------------
(* backup.sh, by itself or within a restore or an update. *)

Free(p) == lock = NoOne

TakeLock(p) ==
  /\ At(p, "lock") /\ env # "none" /\ Free(p)
  /\ lock' = p
  /\ script' = [script EXCEPT ![p].at = "status", ![p].restart = up]
  /\ UNCHANGED <<marker, held, env, data, up, archives, exposed, bounds>>

BackupStatus(p) ==
  /\ At(p, "status")
  /\ script' = [script EXCEPT ![p].at = "backup on", ![p].found = marker]
  /\ UNCHANGED <<marker, held, env, data, up, lock, archives, exposed, bounds>>

BackupHide(p) ==
  /\ At(p, "backup on") /\ marker' = TRUE /\ Goto(p, "backup stop")
  /\ UNCHANGED <<held, env, data, up, lock, archives, exposed, bounds>>

BackupStop(p) ==
  /\ At(p, "backup stop") /\ Goto(p, "archive")
  /\ up' = (up /\ ~script[p].restart)
  /\ UNCHANGED <<marker, held, env, data, lock, archives, exposed, bounds>>

\* The oldest archives go, except the one a restore is about to read.
MutUntrimmed(p, all) == all
MutOldest(p, all) == SubSeq(all, IF Len(all) < Keep THEN 1 ELSE Len(all) - Keep + 1, Len(all))
Retained(p, all) ==
  IF Len(all) <= Keep THEN all
  ELSE SubSeq(all, 1, Keep)
       \o (IF \E i \in (Keep + 1)..Len(all) : all[i] = script[p].source
           THEN <<script[p].source>> ELSE <<>>)

Archive(p) ==
  /\ At(p, "archive") /\ env # "none"
  /\ archives' = Retained(p, <<[data |-> data, env |-> env, no |-> script[p].no]>> \o archives)
  /\ Goto(p, "backup start")
  /\ UNCHANGED <<marker, held, env, data, up, lock, exposed, bounds>>

\* docker compose up migrates first; data that is missing is made anew if there is a .env.
Starts ==
  /\ env # "none" /\ up' = TRUE
  /\ data' = IF Whole(data) THEN data ELSE Fresh

BackupStart(p) ==
  /\ At(p, "backup start")
  /\ IF script[p].restart THEN Starts ELSE UNCHANGED <<up, data>>
  /\ script' = [script EXCEPT ![p].at = "backup off", ![p].restart = FALSE]
  /\ UNCHANGED <<marker, held, env, lock, archives, exposed, bounds>>

Restores(q) == script[q].run = "restore" /\ ~At(q, "hide")

\* The lock goes with the end of backup.sh.
BackupEnd(p) ==
  /\ At(p, "backup off")
  /\ marker' = (marker /\ script[p].found)
  /\ exposed' = (exposed \/ (~script[p].found /\ \E q \in Shells \ {p} : Restores(q)))
  /\ lock' = NoOne
  /\ CASE script[p].run = "backup"  -> script' = [script EXCEPT ![p] = Idle]
       [] script[p].run = "restore" -> Goto(p, "stop")
       [] script[p].run = "update"  -> Goto(p, "hide")
  /\ UNCHANGED <<held, env, data, up, archives, bounds>>

-----------------------------------------------------------------------------
(* restore.sh and backup_restore.restore_archive *)

StopServices(p) ==
  /\ At(p, "stop") /\ up' = FALSE /\ Goto(p, "inspect")
  /\ UNCHANGED <<marker, held, env, data, lock, archives, exposed, bounds>>

Readable(source) == source = Chosen \/ source \in ToSet(archives)

Inspect(p) ==
  /\ At(p, "inspect") /\ Readable(script[p].source) /\ Goto(p, "validate")
  /\ UNCHANGED <<marker, held, env, data, up, lock, archives, exposed, bounds>>

\* The whole archive is validated again, then the target is looked at.
Validate(p) ==
  /\ At(p, "validate") /\ Readable(script[p].source)
  /\ ~script[p].replace => Blank
  /\ Goto(p, IF script[p].replace THEN "delete" ELSE "copy")
  /\ UNCHANGED <<marker, held, env, data, up, lock, archives, exposed, bounds>>

Delete(p) ==
  /\ At(p, "delete") /\ data' = Partial /\ Goto(p, "unlink")
  /\ UNCHANGED <<marker, held, env, up, lock, archives, exposed, bounds>>

MutEnvAfterDelete == env
EnvAfterDelete == "none"

Unlink(p) ==
  /\ At(p, "unlink") /\ data' = Empty /\ env' = EnvAfterDelete /\ Goto(p, "copy")
  /\ UNCHANGED <<marker, held, up, lock, archives, exposed, bounds>>

Copy(p) ==
  /\ At(p, "copy") /\ data' = Partial /\ Goto(p, "copy all")
  /\ UNCHANGED <<marker, held, env, up, lock, archives, exposed, bounds>>

CopyAll(p) ==
  /\ At(p, "copy all") /\ data' = script[p].source.data /\ Goto(p, "copy env")
  /\ UNCHANGED <<marker, held, env, up, lock, archives, exposed, bounds>>

CopyEnv(p) ==
  /\ At(p, "copy env") /\ env' = script[p].source.env /\ Goto(p, "start")
  /\ UNCHANGED <<marker, held, data, up, lock, archives, exposed, bounds>>

-----------------------------------------------------------------------------
(* The end of a restore and of an update. *)

\* Migration and docker compose up
StartServices(p) ==
  /\ At(p, "start") /\ Starts /\ Goto(p, "ready")
  /\ UNCHANGED <<marker, held, env, lock, archives, exposed, bounds>>

Ready(p) ==
  /\ At(p, "ready") /\ up /\ Goto(p, "show")
  /\ UNCHANGED <<marker, held, env, data, up, lock, archives, exposed, bounds>>

MutLeavesMarker(p) == FALSE
LeavesMarker(p) == script[p].was

Show(p) ==
  /\ At(p, "show")
  /\ marker' = (marker /\ LeavesMarker(p))
  /\ script' = [script EXCEPT ![p] = Idle]
  /\ UNCHANGED <<held, env, data, up, lock, archives, exposed, bounds>>

MutShownAfterFailure(p) == marker /\ script[p].was
ShownAfterFailure(p) == marker

Refused(p) ==
  \/ At(p, "lock") /\ (env = "none" \/ ~Free(p))
  \/ script[p].at \in {"inspect", "validate"} /\ ~Readable(script[p].source)
  \/ At(p, "validate") /\ ~script[p].replace /\ ~Blank
  \/ At(p, "archive") /\ env = "none"
  \/ script[p].at \in {"start", "backup start"} /\ ~Sound
  \/ At(p, "ready") /\ ~(up /\ Sound)

\* The trap of backup.sh releases the lock and starts what was stopped, if it can be started;
\* it is set after the marker.
Trapped(p) == script[p].at \notin {"status", "backup on"}

\* A command fails, or a check refuses.
Fail(p) ==
  /\ script[p] # Idle
  /\ IF Refused(p) THEN UNCHANGED faults ELSE faults < MaxFaults /\ faults' = faults + 1
  /\ marker' = ShownAfterFailure(p)
  /\ lock' = IF lock = p /\ Trapped(p) THEN NoOne ELSE lock
  /\ \/ script[p].restart /\ Trapped(p) /\ Starts
     \/ UNCHANGED <<up, data>>
  /\ script' = [script EXCEPT ![p] = Idle]
  /\ UNCHANGED <<held, env, archives, exposed, runs, byHand>>

\* The host stops: the scripts are gone, the lock directory stays, and Docker starts again
\* what had not been stopped.
HostFails ==
  /\ faults < MaxFaults /\ faults' = faults + 1
  /\ script' = [p \in Shells |-> Idle]
  /\ UNCHANGED <<marker, held, env, data, up, lock, archives, exposed, runs, byHand>>

-----------------------------------------------------------------------------
(* The surroundings. *)

\* Web and scheduler write to the database.
Work ==
  /\ up /\ Whole(data) /\ data.v < MaxVersion
  /\ data' = [data EXCEPT !.v = @ + 1]
  /\ UNCHANGED <<marker, held, env, up, lock, archives, script, exposed, bounds>>

\* Between two scripts the operator hides the site, shows it again once it is sound, or
\* removes a lock that was left.
ByHand ==
  /\ \A p \in Shells : script[p] = Idle
  /\ byHand < MaxByHand /\ byHand' = byHand + 1
  /\ \/ marker' = TRUE /\ held' = TRUE /\ UNCHANGED lock
     \/ Sound /\ marker' = FALSE /\ held' = FALSE /\ UNCHANGED lock
     \/ lock' = NoOne /\ UNCHANGED <<marker, held>>
  /\ exposed' = (exposed /\ ~marker')
  /\ UNCHANGED <<env, data, up, archives, script, runs, faults>>

Backup(p) ==
  \/ TakeLock(p) \/ BackupStatus(p) \/ BackupHide(p) \/ BackupStop(p) \/ Archive(p)
  \/ BackupStart(p) \/ BackupEnd(p)
RestoreOrUpdate(p) ==
  \/ Hide(p) \/ StopServices(p) \/ Inspect(p) \/ Validate(p) \/ Delete(p) \/ Unlink(p)
  \/ Copy(p) \/ CopyAll(p) \/ CopyEnv(p) \/ StartServices(p) \/ Ready(p) \/ Show(p)

Next ==
  \/ \E p \in Shells : StartBackup(p) \/ Backup(p) \/ RestoreOrUpdate(p) \/ Fail(p)
  \/ StartUpdate \/ StartRestore \/ HostFails \/ Work \/ ByHand

Spec == Init /\ [][Next]_vars
=============================================================================
