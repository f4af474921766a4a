------------------------- MODULE MaintenanceProofs -------------------------
(***************************************************************************)
(* Proofs about backup, restore and update, for every instance of          *)
(* Maintenance: any number of runs, failures and archives.                 *)
(***************************************************************************)
EXTENDS MaintenanceProperties, SequenceTheorems, TLAPS

(***************************************************************************)
(* The inductive invariant.                                                *)
(***************************************************************************)

Found    == {"backup on", "backup stop", "archive", "backup start", "backup off"}
InBackup == {"status"} \cup Found
Replaces == {"stop", "inspect", "validate", "delete", "unlink", "copy", "copy all", "copy env",
             "start", "ready", "show"}
Steps    == {"idle", "hide", "lock"} \cup InBackup \cup Replaces

Installations == {"live", "chosen"}
DataRows == [from : {"empty", "partial", "fresh"} \cup Installations, v : 0..MaxVersion]
Archives == {a \in [data : DataRows, env : {"none"} \cup Installations, no : Nat] :
               Whole(a.data) => a.env = a.data.from}
Scripts  == [at : Steps, run : {"none", "backup", "restore", "update"}, replace : BOOLEAN,
             source : Archives, was : BOOLEAN, found : BOOLEAN, restart : BOOLEAN,
             base : DataRows, no : Nat]

\* Data without an installation carries no version.
RowOK(d) == d \in DataRows /\ (Whole(d) <=> d.from \in Installations)

Typed ==
  /\ {marker, held, up, exposed} \subseteq BOOLEAN /\ lock \in Shells \cup {NoOne}
  /\ env \in {"none"} \cup Installations /\ RowOK(data)
  /\ archives \in Seq({a \in Archives : a.env # "none"}) /\ Len(archives) <= Keep + 1
  /\ script \in [Shells -> Scripts] /\ runs \in Nat
  /\ \A p \in Shells : RowOK(script[p].base) /\ RowOK(script[p].source.data)

\* Which steps belong to which script; cron only runs backups; the lock is exclusive.
CourseOf(p) ==
  /\ script[p].at \in {"lock"} \cup InBackup => script[p].run \in {"backup", "restore", "update"}
  /\ script[p].at \in {"hide"} \cup Replaces => script[p].run \in {"restore", "update"}
  /\ script[p].at \in Replaces \ {"start", "ready", "show"} => script[p].run = "restore"
  /\ script[p].at \in InBackup => lock = p
  /\ script[p].at \in {"stop", "delete", "unlink"} => script[p].replace
  /\ script[p].run = "restore" /\ script[p].at \in {"lock"} \cup InBackup => script[p].replace
  /\ p = Cron => script[p].at \in {"idle", "lock"} \cup InBackup
  /\ p = Cron => script[p].run \in {"none", "backup"}
Course == \A p \in Shells : CourseOf(p)

\* While data and .env are replaced there is no .env, and afterwards both are of the source.
ReplaceOf(p) ==
  /\ script[p].source = Damaged \/ Whole(script[p].source.data)
  /\ script[p].run = "restore" /\ ~script[p].replace /\ script[p].at \in {"hide", "inspect", "validate"}
       => env = "none"
  /\ script[p].at \in {"copy", "copy all", "copy env"} => env = "none"
  /\ script[p].at \in {"validate", "delete", "unlink", "copy", "copy all", "copy env"}
       => Whole(script[p].source.data)
  /\ script[p].at = "copy env" => Whole(data) /\ data.from = script[p].source.data.from
  /\ script[p].run = "restore" /\ script[p].at \in {"start", "ready", "show"} => Sound
ReplaceInv == \A p \in Shells : ReplaceOf(p)

\* A marker set by hand was there when a script looked.
HeldOf(p) == held => /\ script[p].at # "idle" => script[p].was
                     /\ script[p].at \in Found => script[p].found
HeldInv == HeldMarkerStays /\ \A p \in Shells : HeldOf(p)

\* Who may take the marker away, and what is true then
HiddenOf(p) ==
  /\ script[p].at \in InBackup => Sound \/ marker \/ exposed
  /\ WillShow(p) => Sound \/ exposed
  /\ Restores(p) => marker \/ exposed
  /\ Restores(p) /\ WillShow(p) => exposed
  /\ script[p].run = "update" /\ script[p].at # "idle" => script[p].was \/ Sound \/ exposed
Overlap ==
  script[Operator].run = "restore" /\ script[Operator].at \in Replaces /\ WillShow(Cron) => exposed
HiddenInv == BrokenIsHidden /\ Overlap /\ \A p \in Shells : HiddenOf(p)

\* The safety backup of a restore, and what became of the data since its start
Kept(base) ==
  \E i \in 1..Len(archives) : /\ archives[i].env = env /\ archives[i].data.from = base.from
                              /\ archives[i].data.v >= base.v
Later(base) == Whole(data) /\ data.from = base.from /\ data.v >= base.v
BackupOf(p) ==
  /\ script[p].run \in {"restore", "update"} /\ Whole(script[p].base)
     /\ script[p].at \in {"hide", "lock", "stop", "inspect", "validate", "delete"} \cup InBackup
       => Later(script[p].base)
  /\ script[p].run = "restore" /\ Whole(script[p].base)
     /\ (\/ script[p].at \in {"backup start", "backup off"}
         \/ script[p].replace /\ script[p].at \in {"stop", "inspect", "validate", "delete"})
       => Kept(script[p].base)
BackupInv == \A p \in Shells : BackupOf(p)

MaintenanceInv ==
  Typed /\ Course /\ ReplaceInv /\ KeysMatchData /\ HeldInv /\ HiddenInv /\ BackupInv

-----------------------------------------------------------------------------
(***************************************************************************)
(* The operators of the model.                                             *)
(***************************************************************************)

LEMMA Names ==
  /\ Cron # Operator /\ NoOne \notin Shells /\ Shells = {Cron, Operator}
  /\ Keep \in Nat \ {0} /\ MaxVersion \in Nat
BY MaintenanceAssumption DEF MaintenanceAssumption, Shells

LEMMA RowsTyped ==
  /\ RowOK(Empty) /\ RowOK(Partial) /\ RowOK(Fresh) /\ RowOK(Chosen.data)
  /\ ~Whole(Empty) /\ ~Whole(Partial) /\ ~Whole(Fresh) /\ Whole(Chosen.data)
  /\ Chosen \in Archives /\ Damaged \in Archives /\ RowOK(Damaged.data) /\ ~Whole(Damaged.data)
  /\ Chosen.env = "chosen" /\ Damaged.env = "none"
BY Names DEF RowOK, Empty, Partial, Fresh, Chosen, Damaged, Archives, DataRows, Installations, Whole

LEMMA IdleTyped == Idle \in Scripts /\ RowOK(Idle.base) /\ RowOK(Idle.source.data) /\ Idle.at = "idle"
BY RowsTyped DEF Idle, Scripts, Steps, RowOK

\* The archives that a backup leaves: the newest, and one that a restore reads.
LEMMA RetainedTyped ==
  ASSUME NEW S, NEW p, NEW all \in Seq(S), Len(all) <= Keep + 2
  PROVE  /\ Retained(p, all) \in Seq(S) /\ Len(Retained(p, all)) <= Keep + 1
         /\ all # <<>> => Retained(p, all) # <<>> /\ Retained(p, all)[1] = all[1]
<1>1. CASE Len(all) <= Keep
  BY <1>1, Names DEF Retained
<1>2. CASE Len(all) > Keep
  <2> DEFINE tail == IF \E i \in (Keep + 1)..Len(all) : all[i] = script[p].source
                     THEN <<script[p].source>> ELSE <<>>
             head == SubSeq(all, 1, Keep)
  <2>1. head \in Seq(S) /\ Len(head) = Keep /\ head[1] = all[1]
    BY <1>2, Names, SubSeqProperties
  <2>2. tail \in Seq(S) /\ Len(tail) <= 1
    BY <1>2, Names
  <2> HIDE DEF head, tail
  <2>3. head \o tail \in Seq(S) /\ Len(head \o tail) <= Keep + 1 /\ (head \o tail)[1] = head[1]
    BY <2>1, <2>2, Names, ConcatProperties
  <2>4. Retained(p, all) = head \o tail
    BY <1>2, Names DEF Retained, head, tail
  <2> QED
    BY <2>1, <2>3, <2>4, Names
<1> QED
  BY <1>1, <1>2, Names

\* A script goes on to a step; it ends.
Others(p) == script' \in [Shells -> Scripts] /\ \A q \in Shells \ {p} : script'[q] = script[q]
Advance(p, step, found) ==
  /\ Others(p) /\ script'[p].at = step /\ script'[p].found = found
  /\ script'[p].run = script[p].run /\ script'[p].replace = script[p].replace
  /\ script'[p].source = script[p].source /\ script'[p].base = script[p].base
  /\ script'[p].was = script[p].was
Ends(p) == Others(p) /\ script'[p] = Idle

LEMMA Advances ==
  ASSUME Typed, NEW p \in Shells, NEW step \in Steps, NEW found \in BOOLEAN, NEW restart \in BOOLEAN
  PROVE  /\ script' = [script EXCEPT ![p].at = step] => Advance(p, step, script[p].found)
         /\ script' = [script EXCEPT ![p].at = step, ![p].found = found] => Advance(p, step, found)
         /\ script' = [script EXCEPT ![p].at = step, ![p].restart = restart]
              => Advance(p, step, script[p].found)
         /\ script' = [script EXCEPT ![p] = Idle] => Ends(p)
<1>1. script \in [Shells -> Scripts]
  BY DEF Typed
<1>2. ASSUME script' = [script EXCEPT ![p].at = step] PROVE Advance(p, step, script[p].found)
  BY <1>1, <1>2 DEF Advance, Others, Scripts
<1>3. ASSUME script' = [script EXCEPT ![p].at = step, ![p].found = found]
      PROVE  Advance(p, step, found)
  BY <1>1, <1>3 DEF Advance, Others, Scripts
<1>4. ASSUME script' = [script EXCEPT ![p].at = step, ![p].restart = restart]
      PROVE  Advance(p, step, script[p].found)
  BY <1>1, <1>4 DEF Advance, Others, Scripts
<1>5. ASSUME script' = [script EXCEPT ![p] = Idle] PROVE Ends(p)
  BY <1>1, <1>5, IdleTyped DEF Ends, Others
<1> QED
  BY <1>2, <1>3, <1>4, <1>5

LEMMA Ended ==
  ASSUME NEW p \in Shells, Ends(p)
  PROVE  /\ script'[p].at = "idle" /\ script'[p].run = "none" /\ ~script'[p].found
         /\ ~script'[p].replace /\ script'[p].source = Damaged /\ script'[p].base = Empty
BY DEF Ends, Idle

-----------------------------------------------------------------------------
(***************************************************************************)
(* What a step of one shell leaves of the invariant for the other one.     *)
(***************************************************************************)

LEMMA CourseKept ==
  ASSUME Course, NEW p \in Shells, Others(p), CourseOf(p)',
         \A q \in Shells \ {p} : lock = q => lock' = q
  PROVE  Course'
<1> SUFFICES ASSUME NEW q \in Shells, q # p PROVE CourseOf(q)'
  BY DEF Course
<1>1. script'[q] = script[q] /\ CourseOf(q) /\ (lock = q => lock' = q)
  BY DEF Course, Others
<1> QED
  BY <1>1 DEF CourseOf

LEMMA ReplaceKept ==
  ASSUME ReplaceInv, Course, NEW p \in Shells, Others(p), ReplaceOf(p)', p = Operator
         \/ (UNCHANGED env /\ (Sound => Sound') /\ (Whole(data) => Whole(data)' /\ data'.from = data.from))
  PROVE  ReplaceInv'
<1> SUFFICES ASSUME NEW q \in Shells, q # p PROVE ReplaceOf(q)'
  BY DEF ReplaceInv
<1>1. script'[q] = script[q] /\ ReplaceOf(q) /\ CourseOf(q)
  BY DEF ReplaceInv, Others, Course
<1>2. CASE p = Operator
  <2>1. q = Cron
    BY <1>2, Names
  <2> QED
    BY <1>1, <2>1 DEF ReplaceOf, CourseOf, InBackup, Found
<1>3. CASE p # Operator
  BY <1>1, <1>3 DEF ReplaceOf
<1> QED
  BY <1>2, <1>3

LEMMA HeldKept ==
  ASSUME HeldInv, NEW p \in Shells, Others(p), HeldOf(p)', UNCHANGED held, held => marker'
  PROVE  HeldInv'
<1> SUFFICES ASSUME NEW q \in Shells, q # p PROVE HeldOf(q)'
  BY DEF HeldInv, HeldMarkerStays
<1>1. script'[q] = script[q] /\ HeldOf(q)
  BY DEF HeldInv, Others
<1> QED
  BY <1>1 DEF HeldOf

LEMMA HiddenKept ==
  ASSUME HiddenInv, NEW p \in Shells, Others(p), HiddenOf(p)', Overlap', Sound => Sound',
         Blank => Blank' \/ Sound', marker => marker', exposed => exposed'
  PROVE  HiddenInv'
<1>1. BrokenIsHidden'
  BY DEF HiddenInv, BrokenIsHidden
<1> SUFFICES ASSUME NEW q \in Shells, q # p PROVE HiddenOf(q)'
  BY <1>1 DEF HiddenInv
<1>2. script'[q] = script[q] /\ HiddenOf(q)
  BY DEF HiddenInv, Others
<1>3. (WillShow(q)' <=> WillShow(q)) /\ (Restores(q)' <=> Restores(q))
  BY <1>2 DEF WillShow, Restores, At
<1> QED
  BY <1>2, <1>3 DEF HiddenOf

\* The restore takes the installation apart: it has hidden it, or a backup has shown it.
LEMMA HiddenReplaced ==
  ASSUME HiddenInv, Course, NEW p \in Shells, Others(p), script[p].run = "restore",
         script[p].at \in Replaces, script'[p].run = "restore", script'[p].at \in Replaces,
         UNCHANGED <<marker, exposed>>
  PROVE  HiddenInv'
<1>1. p = Operator /\ (marker \/ exposed)
  BY Names DEF HiddenInv, HiddenOf, Course, CourseOf, Restores, At, Replaces, InBackup, Found
<1>2. BrokenIsHidden' /\ HiddenOf(p)'
  BY <1>1 DEF BrokenIsHidden, HiddenOf, WillShow, Restores, At, Replaces, InBackup, Found
<1>3. script'[Cron] = script[Cron] /\ HiddenOf(Cron) /\ CourseOf(Cron)
      /\ (WillShow(Cron) => exposed)
  BY <1>1, Names DEF HiddenInv, Overlap, Others, Course
<1>4. (WillShow(Cron)' <=> WillShow(Cron)) /\ (Restores(Cron)' <=> Restores(Cron))
  BY <1>3 DEF WillShow, Restores, At
<1>5. HiddenOf(Cron)' /\ Overlap'
  BY <1>1, <1>3, <1>4, Names DEF HiddenOf, Overlap, CourseOf
<1> QED
  BY <1>1, <1>2, <1>5, Names DEF HiddenInv

\* What a restore goes by is not spoilt by a backup of cron.
LEMMA BackupKept ==
  ASSUME BackupInv, Course, NEW p \in Shells, Others(p), BackupOf(p)',
         p = Operator \/ (\A base \in DataRows : (Later(base) => Later(base)') /\ (Later(base) /\ Kept(base) => Kept(base)')),
         Typed
  PROVE  BackupInv'
<1> SUFFICES ASSUME NEW q \in Shells, q # p PROVE BackupOf(q)'
  BY DEF BackupInv
<1>1. script'[q] = script[q] /\ BackupOf(q) /\ CourseOf(q) /\ script[q].base \in DataRows
  BY DEF BackupInv, Others, Course, Typed, RowOK
<1>2. CASE p = Operator
  <2>1. q = Cron
    BY <1>2, Names
  <2>2. script[q].run \notin {"restore", "update"}
    BY <1>1, <2>1 DEF CourseOf
  <2> QED
    BY <1>1, <2>2 DEF BackupOf
<1>3. CASE p # Operator
  <2>1. /\ Later(script[q].base) => Later(script[q].base)'
        /\ Later(script[q].base) /\ Kept(script[q].base) => Kept(script[q].base)'
    BY <1>1, <1>3 DEF Later, Kept
  <2>2. ASSUME script[q].run \in {"restore", "update"}, Whole(script[q].base),
               script[q].at \in {"hide", "lock", "stop", "inspect", "validate", "delete"} \cup InBackup
        PROVE  Later(script[q].base)'
    BY <1>1, <2>1, <2>2 DEF BackupOf
  <2>3. ASSUME script[q].run = "restore", Whole(script[q].base),
               \/ script[q].at \in {"backup start", "backup off"}
               \/ script[q].replace /\ script[q].at \in {"stop", "inspect", "validate", "delete"}
        PROVE  Kept(script[q].base)'
    BY <1>1, <2>1, <2>3 DEF BackupOf, InBackup, Found
  <2> QED
    BY <1>1, <2>2, <2>3 DEF BackupOf
<1> QED
  BY <1>2, <1>3

LEMMA TypedKept ==
  ASSUME Typed, NEW p \in Shells, Others(p), RowOK(script[p].base)', RowOK(script[p].source.data)',
         {marker', held', up', exposed'} \subseteq BOOLEAN, lock' \in Shells \cup {NoOne},
         env' \in {"none"} \cup Installations, RowOK(data)', runs' \in Nat,
         archives' \in Seq({a \in Archives : a.env # "none"}), Len(archives') <= Keep + 1
  PROVE  Typed'
<1>1. \A q \in Shells : RowOK(script[q].base)' /\ RowOK(script[q].source.data)'
  <2> SUFFICES ASSUME NEW q \in Shells, q # p
      PROVE  RowOK(script[q].base)' /\ RowOK(script[q].source.data)'
    OBVIOUS
  <2>1. script'[q] = script[q] /\ RowOK(script[q].base) /\ RowOK(script[q].source.data)
    BY DEF Typed, Others
  <2> QED
    BY <2>1 DEF RowOK
<1> QED
  BY <1>1 DEF Typed, Others

LEMMA TakeLockStep == ASSUME MaintenanceInv, NEW p \in Shells, TakeLock(p) PROVE MaintenanceInv'
<1>0. /\ Typed /\ Course /\ ReplaceInv /\ KeysMatchData /\ HeldInv /\ HiddenInv /\ BackupInv
      /\ CourseOf(p) /\ ReplaceOf(p) /\ HeldOf(p) /\ HiddenOf(p) /\ BackupOf(p)
  BY DEF MaintenanceInv, Course, ReplaceInv, HeldInv, HiddenInv, BackupInv
<1>1. script[p].at = "lock" /\ Others(p) /\ Advance(p, "status", script[p].found)
  BY <1>0, Advances DEF TakeLock, At, Goto, Typed, Steps, InBackup, Found, Replaces, Advance
<1>2. /\ env # "none" /\ lock = NoOne /\ lock' = p
      /\ UNCHANGED <<marker, held, env, data, up, archives, exposed, runs>>
  BY DEF TakeLock, bounds, Free
<1>3. Typed'
  BY <1>0, <1>1, <1>2, TypedKept, RowsTyped DEF Typed, Advance, RowOK
<1>4. Course'
  <2>1. CourseOf(p)'
    BY <1>0, <1>1, <1>2 DEF Advance, CourseOf, InBackup, Found, Replaces
  <2> QED
    BY <1>0, <1>1, <1>2, <2>1, Names, CourseKept
<1>5. ReplaceInv'
  <2>1. ReplaceOf(p)'
    BY <1>0, <1>1, <1>2, <1>3, Names, RowsTyped DEF Advance, ReplaceOf, CourseOf, Replaces, Sound
  <2> QED
    BY <1>0, <1>1, <1>2, <2>1, Names, ReplaceKept DEF CourseOf, InBackup, Found, Sound, Whole
<1>6. KeysMatchData'
  BY <1>0, <1>1, <1>2, RowsTyped DEF KeysMatchData, ReplaceOf, Whole
<1>7. HeldInv'
  <2>1. HeldOf(p)'
    BY <1>0, <1>1, <1>2 DEF HeldOf, HeldInv, HeldMarkerStays, Advance, Found
  <2> QED
    BY <1>0, <1>1, <1>2, <2>1, HeldKept DEF HeldInv, HeldMarkerStays
<1>8. HiddenInv'
  <2>1. HiddenOf(p)'
    BY <1>0, <1>1, <1>2 DEF HiddenOf, HiddenInv, BrokenIsHidden, Advance, WillShow, Restores, At,
       InBackup, Found, Sound, Blank, Whole
  <2>2. Overlap'
    BY <1>0, <1>1, <1>2, Names DEF Overlap, HiddenInv, HiddenOf, Others, Advance, WillShow,
       Restores, At, Replaces, CourseOf, InBackup, Found
  <2> QED
    BY <1>0, <1>1, <1>2, <2>1, <2>2, HiddenKept DEF Sound, Blank, Whole
<1>9. BackupInv'
  <2>1. BackupOf(p)'
    BY <1>0, <1>1, <1>2 DEF BackupOf, Advance, CourseOf, InBackup, Found, Later, Kept, Whole
  <2> QED
    BY <1>0, <1>1, <1>2, <2>1, Names, BackupKept DEF CourseOf, InBackup, Found, Later, Kept, Whole
<1> QED
  BY <1>3, <1>4, <1>5, <1>6, <1>7, <1>8, <1>9 DEF MaintenanceInv

LEMMA BackupStatusStep == ASSUME MaintenanceInv, NEW p \in Shells, BackupStatus(p)
                          PROVE  MaintenanceInv'
<1>0. /\ Typed /\ Course /\ ReplaceInv /\ KeysMatchData /\ HeldInv /\ HiddenInv /\ BackupInv
      /\ CourseOf(p) /\ ReplaceOf(p) /\ HeldOf(p) /\ HiddenOf(p) /\ BackupOf(p)
  BY DEF MaintenanceInv, Course, ReplaceInv, HeldInv, HiddenInv, BackupInv
<1>1. script[p].at = "status" /\ Others(p) /\ Advance(p, "backup on", marker)
  BY <1>0, Advances DEF BackupStatus, At, Goto, Typed, Steps, InBackup, Found, Replaces, Advance
<1>2. /\ TRUE
      /\ UNCHANGED <<marker, held, env, data, up, lock, archives, exposed, runs>>
  BY DEF BackupStatus, bounds
<1>3. Typed'
  BY <1>0, <1>1, <1>2, TypedKept, RowsTyped DEF Typed, Advance, RowOK
<1>4. Course'
  <2>1. CourseOf(p)'
    BY <1>0, <1>1, <1>2 DEF Advance, CourseOf, InBackup, Found, Replaces
  <2> QED
    BY <1>0, <1>1, <1>2, <2>1, Names, CourseKept
<1>5. ReplaceInv'
  <2>1. ReplaceOf(p)'
    BY <1>0, <1>1, <1>2, <1>3, Names, RowsTyped DEF Advance, ReplaceOf, CourseOf, Replaces, Sound
  <2> QED
    BY <1>0, <1>1, <1>2, <2>1, Names, ReplaceKept DEF CourseOf, InBackup, Found, Sound, Whole
<1>6. KeysMatchData'
  BY <1>0, <1>1, <1>2, RowsTyped DEF KeysMatchData, ReplaceOf, Whole
<1>7. HeldInv'
  <2>1. HeldOf(p)'
    BY <1>0, <1>1, <1>2 DEF HeldOf, HeldInv, HeldMarkerStays, Advance, Found
  <2> QED
    BY <1>0, <1>1, <1>2, <2>1, HeldKept DEF HeldInv, HeldMarkerStays
<1>8. HiddenInv'
  <2>1. HiddenOf(p)'
    BY <1>0, <1>1, <1>2 DEF HiddenOf, HiddenInv, BrokenIsHidden, Advance, WillShow, Restores, At,
       InBackup, Found, Sound, Blank, Whole
  <2>2. Overlap'
    <3>1. CASE p = Cron
      <4>1. script'[Operator] = script[Operator] /\ HiddenOf(Operator)
        BY <1>0, <1>1, <3>1, Names DEF Others, HiddenInv
      <4> QED
        BY <1>1, <1>2, <3>1, <4>1 DEF Overlap, Advance, WillShow, HiddenOf, Restores, At, Replaces
    <3>2. CASE p = Operator
      BY <1>1, <3>2 DEF Overlap, Advance, Replaces
    <3> QED
      BY <3>1, <3>2, Names
  <2> QED
    BY <1>0, <1>1, <1>2, <2>1, <2>2, HiddenKept DEF Sound, Blank, Whole
<1>9. BackupInv'
  <2>1. BackupOf(p)'
    BY <1>0, <1>1, <1>2 DEF BackupOf, Advance, CourseOf, InBackup, Found, Later, Kept, Whole
  <2> QED
    BY <1>0, <1>1, <1>2, <2>1, Names, BackupKept DEF CourseOf, InBackup, Found, Later, Kept, Whole
<1> QED
  BY <1>3, <1>4, <1>5, <1>6, <1>7, <1>8, <1>9 DEF MaintenanceInv

LEMMA BackupHideStep == ASSUME MaintenanceInv, NEW p \in Shells, BackupHide(p) PROVE MaintenanceInv'
<1>0. /\ Typed /\ Course /\ ReplaceInv /\ KeysMatchData /\ HeldInv /\ HiddenInv /\ BackupInv
      /\ CourseOf(p) /\ ReplaceOf(p) /\ HeldOf(p) /\ HiddenOf(p) /\ BackupOf(p)
  BY DEF MaintenanceInv, Course, ReplaceInv, HeldInv, HiddenInv, BackupInv
<1>1. script[p].at = "backup on" /\ Others(p) /\ Advance(p, "backup stop", script[p].found)
  BY <1>0, Advances DEF BackupHide, At, Goto, Typed, Steps, InBackup, Found, Replaces, Advance
<1>2. /\ marker' = TRUE
      /\ UNCHANGED <<held, env, data, up, lock, archives, exposed, runs>>
  BY DEF BackupHide, bounds
<1>3. Typed'
  BY <1>0, <1>1, <1>2, TypedKept, RowsTyped DEF Typed, Advance, RowOK
<1>4. Course'
  <2>1. CourseOf(p)'
    BY <1>0, <1>1, <1>2 DEF Advance, CourseOf, InBackup, Found, Replaces
  <2> QED
    BY <1>0, <1>1, <1>2, <2>1, Names, CourseKept
<1>5. ReplaceInv'
  <2>1. ReplaceOf(p)'
    BY <1>0, <1>1, <1>2, <1>3, Names, RowsTyped DEF Advance, ReplaceOf, CourseOf, Replaces, Sound
  <2> QED
    BY <1>0, <1>1, <1>2, <2>1, Names, ReplaceKept DEF CourseOf, InBackup, Found, Sound, Whole
<1>6. KeysMatchData'
  BY <1>0, <1>1, <1>2, RowsTyped DEF KeysMatchData, ReplaceOf, Whole
<1>7. HeldInv'
  <2>1. HeldOf(p)'
    BY <1>0, <1>1, <1>2 DEF HeldOf, HeldInv, HeldMarkerStays, Advance, Found
  <2> QED
    BY <1>0, <1>1, <1>2, <2>1, HeldKept DEF HeldInv, HeldMarkerStays
<1>8. HiddenInv'
  <2>1. HiddenOf(p)'
    BY <1>0, <1>1, <1>2 DEF HiddenOf, HiddenInv, BrokenIsHidden, Advance, WillShow, Restores, At,
       InBackup, Found, Sound, Blank, Whole
  <2>2. Overlap'
    BY <1>0, <1>1, <1>2, Names DEF Overlap, HiddenInv, HiddenOf, Others, Advance, WillShow,
       Restores, At, Replaces, CourseOf, InBackup, Found
  <2> QED
    BY <1>0, <1>1, <1>2, <2>1, <2>2, HiddenKept DEF Sound, Blank, Whole
<1>9. BackupInv'
  <2>1. BackupOf(p)'
    BY <1>0, <1>1, <1>2 DEF BackupOf, Advance, CourseOf, InBackup, Found, Later, Kept, Whole
  <2> QED
    BY <1>0, <1>1, <1>2, <2>1, Names, BackupKept DEF CourseOf, InBackup, Found, Later, Kept, Whole
<1> QED
  BY <1>3, <1>4, <1>5, <1>6, <1>7, <1>8, <1>9 DEF MaintenanceInv

LEMMA BackupStopStep == ASSUME MaintenanceInv, NEW p \in Shells, BackupStop(p) PROVE MaintenanceInv'
<1>0. /\ Typed /\ Course /\ ReplaceInv /\ KeysMatchData /\ HeldInv /\ HiddenInv /\ BackupInv
      /\ CourseOf(p) /\ ReplaceOf(p) /\ HeldOf(p) /\ HiddenOf(p) /\ BackupOf(p)
  BY DEF MaintenanceInv, Course, ReplaceInv, HeldInv, HiddenInv, BackupInv
<1>1. script[p].at = "backup stop" /\ Others(p) /\ Advance(p, "archive", script[p].found)
  BY <1>0, Advances DEF BackupStop, At, Goto, Typed, Steps, InBackup, Found, Replaces, Advance
<1>2. /\ up' \in BOOLEAN
      /\ UNCHANGED <<marker, held, env, data, lock, archives, exposed, runs>>
  BY DEF BackupStop, bounds
<1>3. Typed'
  BY <1>0, <1>1, <1>2, TypedKept, RowsTyped DEF Typed, Advance, RowOK
<1>4. Course'
  <2>1. CourseOf(p)'
    BY <1>0, <1>1, <1>2 DEF Advance, CourseOf, InBackup, Found, Replaces
  <2> QED
    BY <1>0, <1>1, <1>2, <2>1, Names, CourseKept
<1>5. ReplaceInv'
  <2>1. ReplaceOf(p)'
    BY <1>0, <1>1, <1>2, <1>3, Names, RowsTyped DEF Advance, ReplaceOf, CourseOf, Replaces, Sound
  <2> QED
    BY <1>0, <1>1, <1>2, <2>1, Names, ReplaceKept DEF CourseOf, InBackup, Found, Sound, Whole
<1>6. KeysMatchData'
  BY <1>0, <1>1, <1>2, RowsTyped DEF KeysMatchData, ReplaceOf, Whole
<1>7. HeldInv'
  <2>1. HeldOf(p)'
    BY <1>0, <1>1, <1>2 DEF HeldOf, HeldInv, HeldMarkerStays, Advance, Found
  <2> QED
    BY <1>0, <1>1, <1>2, <2>1, HeldKept DEF HeldInv, HeldMarkerStays
<1>8. HiddenInv'
  <2>1. HiddenOf(p)'
    BY <1>0, <1>1, <1>2 DEF HiddenOf, HiddenInv, BrokenIsHidden, Advance, WillShow, Restores, At,
       InBackup, Found, Sound, Blank, Whole
  <2>2. Overlap'
    BY <1>0, <1>1, <1>2, Names DEF Overlap, HiddenInv, HiddenOf, Others, Advance, WillShow,
       Restores, At, Replaces, CourseOf, InBackup, Found
  <2> QED
    BY <1>0, <1>1, <1>2, <2>1, <2>2, HiddenKept DEF Sound, Blank, Whole
<1>9. BackupInv'
  <2>1. BackupOf(p)'
    BY <1>0, <1>1, <1>2 DEF BackupOf, Advance, CourseOf, InBackup, Found, Later, Kept, Whole
  <2> QED
    BY <1>0, <1>1, <1>2, <2>1, Names, BackupKept DEF CourseOf, InBackup, Found, Later, Kept, Whole
<1> QED
  BY <1>3, <1>4, <1>5, <1>6, <1>7, <1>8, <1>9 DEF MaintenanceInv

LEMMA StopServicesStep == ASSUME MaintenanceInv, NEW p \in Shells, StopServices(p)
                          PROVE  MaintenanceInv'
<1>0. /\ Typed /\ Course /\ ReplaceInv /\ KeysMatchData /\ HeldInv /\ HiddenInv /\ BackupInv
      /\ CourseOf(p) /\ ReplaceOf(p) /\ HeldOf(p) /\ HiddenOf(p) /\ BackupOf(p)
  BY DEF MaintenanceInv, Course, ReplaceInv, HeldInv, HiddenInv, BackupInv
<1>1. script[p].at = "stop" /\ Others(p) /\ Advance(p, "inspect", script[p].found)
  BY <1>0, Advances DEF StopServices, At, Goto, Typed, Steps, InBackup, Found, Replaces, Advance
<1>2. /\ up' = FALSE
      /\ UNCHANGED <<marker, held, env, data, lock, archives, exposed, runs>>
  BY DEF StopServices, bounds
<1>3. Typed'
  BY <1>0, <1>1, <1>2, TypedKept, RowsTyped DEF Typed, Advance, RowOK
<1>4. Course'
  <2>1. CourseOf(p)'
    BY <1>0, <1>1, <1>2 DEF Advance, CourseOf, InBackup, Found, Replaces
  <2> QED
    BY <1>0, <1>1, <1>2, <2>1, Names, CourseKept
<1>5. ReplaceInv'
  <2>1. ReplaceOf(p)'
    BY <1>0, <1>1, <1>2, <1>3, Names, RowsTyped DEF Advance, ReplaceOf, CourseOf, Replaces, Sound
  <2> QED
    BY <1>0, <1>1, <1>2, <2>1, Names, ReplaceKept DEF CourseOf, InBackup, Found, Sound, Whole
<1>6. KeysMatchData'
  BY <1>0, <1>1, <1>2, RowsTyped DEF KeysMatchData, ReplaceOf, Whole
<1>7. HeldInv'
  <2>1. HeldOf(p)'
    BY <1>0, <1>1, <1>2 DEF HeldOf, HeldInv, HeldMarkerStays, Advance, Found
  <2> QED
    BY <1>0, <1>1, <1>2, <2>1, HeldKept DEF HeldInv, HeldMarkerStays
<1>8. HiddenInv'
  <2>1. HiddenOf(p)'
    BY <1>0, <1>1, <1>2 DEF HiddenOf, HiddenInv, BrokenIsHidden, Advance, WillShow, Restores, At,
       InBackup, Found, Sound, Blank, Whole
  <2>2. Overlap'
    BY <1>0, <1>1, <1>2, Names DEF Overlap, HiddenInv, HiddenOf, Others, Advance, WillShow,
       Restores, At, Replaces, CourseOf, InBackup, Found
  <2> QED
    BY <1>0, <1>1, <1>2, <2>1, <2>2, HiddenKept DEF Sound, Blank, Whole
<1>9. BackupInv'
  <2>1. BackupOf(p)'
    BY <1>0, <1>1, <1>2 DEF BackupOf, Advance, CourseOf, InBackup, Found, Later, Kept, Whole
  <2> QED
    BY <1>0, <1>1, <1>2, <2>1, Names, BackupKept DEF CourseOf, InBackup, Found, Later, Kept, Whole
<1> QED
  BY <1>3, <1>4, <1>5, <1>6, <1>7, <1>8, <1>9 DEF MaintenanceInv

LEMMA InspectStep == ASSUME MaintenanceInv, NEW p \in Shells, Inspect(p) PROVE MaintenanceInv'
<1>0. /\ Typed /\ Course /\ ReplaceInv /\ KeysMatchData /\ HeldInv /\ HiddenInv /\ BackupInv
      /\ CourseOf(p) /\ ReplaceOf(p) /\ HeldOf(p) /\ HiddenOf(p) /\ BackupOf(p)
  BY DEF MaintenanceInv, Course, ReplaceInv, HeldInv, HiddenInv, BackupInv
<1>1. script[p].at = "inspect" /\ Others(p) /\ Advance(p, "validate", script[p].found)
  BY <1>0, Advances DEF Inspect, At, Goto, Typed, Steps, InBackup, Found, Replaces, Advance
<1>2. /\ Readable(script[p].source)
      /\ UNCHANGED <<marker, held, env, data, up, lock, archives, exposed, runs>>
  BY DEF Inspect, bounds
<1>a. script[p].source \in Archives /\ script[p].source # Damaged
  BY <1>0, <1>2, RowsTyped DEF Typed, Scripts, Readable, ToSet
<1>3. Typed'
  BY <1>0, <1>1, <1>2, TypedKept, RowsTyped DEF Typed, Advance, RowOK
<1>4. Course'
  <2>1. CourseOf(p)'
    BY <1>0, <1>1, <1>2 DEF Advance, CourseOf, InBackup, Found, Replaces
  <2> QED
    BY <1>0, <1>1, <1>2, <2>1, Names, CourseKept
<1>5. ReplaceInv'
  <2>1. ReplaceOf(p)'
    BY <1>0, <1>1, <1>2, <1>a DEF Advance, ReplaceOf, CourseOf, Replaces, Sound, Readable
  <2> QED
    BY <1>0, <1>1, <1>2, <2>1, Names, ReplaceKept DEF CourseOf, InBackup, Found, Sound, Whole
<1>6. KeysMatchData'
  BY <1>0, <1>1, <1>2, RowsTyped DEF KeysMatchData, ReplaceOf, Whole
<1>7. HeldInv'
  <2>1. HeldOf(p)'
    BY <1>0, <1>1, <1>2 DEF HeldOf, HeldInv, HeldMarkerStays, Advance, Found
  <2> QED
    BY <1>0, <1>1, <1>2, <2>1, HeldKept DEF HeldInv, HeldMarkerStays
<1>8. HiddenInv'
  <2>1. HiddenOf(p)'
    BY <1>0, <1>1, <1>2 DEF HiddenOf, HiddenInv, BrokenIsHidden, Advance, WillShow, Restores, At,
       InBackup, Found, Sound, Blank, Whole
  <2>2. Overlap'
    BY <1>0, <1>1, <1>2, Names DEF Overlap, HiddenInv, HiddenOf, Others, Advance, WillShow,
       Restores, At, Replaces, CourseOf, InBackup, Found
  <2> QED
    BY <1>0, <1>1, <1>2, <2>1, <2>2, HiddenKept DEF Sound, Blank, Whole
<1>9. BackupInv'
  <2>1. BackupOf(p)'
    BY <1>0, <1>1, <1>2 DEF BackupOf, Advance, CourseOf, InBackup, Found, Later, Kept, Whole
  <2> QED
    BY <1>0, <1>1, <1>2, <2>1, Names, BackupKept DEF CourseOf, InBackup, Found, Later, Kept, Whole
<1> QED
  BY <1>3, <1>4, <1>5, <1>6, <1>7, <1>8, <1>9 DEF MaintenanceInv

LEMMA DeleteStep == ASSUME MaintenanceInv, NEW p \in Shells, Delete(p) PROVE MaintenanceInv'
<1>0. /\ Typed /\ Course /\ ReplaceInv /\ KeysMatchData /\ HeldInv /\ HiddenInv /\ BackupInv
      /\ CourseOf(p) /\ ReplaceOf(p) /\ HeldOf(p) /\ HiddenOf(p) /\ BackupOf(p)
  BY DEF MaintenanceInv, Course, ReplaceInv, HeldInv, HiddenInv, BackupInv
<1>1. script[p].at = "delete" /\ Others(p) /\ Advance(p, "unlink", script[p].found)
  BY <1>0, Advances DEF Delete, At, Goto, Typed, Steps, InBackup, Found, Replaces, Advance
<1>2. /\ data' = Partial
      /\ UNCHANGED <<marker, held, env, up, lock, archives, exposed, runs>>
  BY DEF Delete, bounds
<1>3. Typed'
  BY <1>0, <1>1, <1>2, TypedKept, RowsTyped DEF Typed, Advance, RowOK
<1>4. Course'
  <2>1. CourseOf(p)'
    BY <1>0, <1>1, <1>2 DEF Advance, CourseOf, InBackup, Found, Replaces
  <2> QED
    BY <1>0, <1>1, <1>2, <2>1, Names, CourseKept
<1>5. ReplaceInv'
  <2>1. ReplaceOf(p)'
    BY <1>0, <1>1, <1>2, <1>3, Names, RowsTyped DEF Advance, ReplaceOf, CourseOf, Replaces, Sound
  <2> QED
    BY <1>0, <1>1, <1>2, <2>1, Names, ReplaceKept DEF CourseOf, InBackup, Found, Sound, Whole
<1>6. KeysMatchData'
  BY <1>0, <1>1, <1>2, RowsTyped DEF KeysMatchData, ReplaceOf, Whole
<1>7. HeldInv'
  <2>1. HeldOf(p)'
    BY <1>0, <1>1, <1>2 DEF HeldOf, HeldInv, HeldMarkerStays, Advance, Found
  <2> QED
    BY <1>0, <1>1, <1>2, <2>1, HeldKept DEF HeldInv, HeldMarkerStays
<1>8. HiddenInv'
  BY <1>0, <1>1, <1>2, HiddenReplaced DEF Advance, CourseOf, Replaces
<1>9. BackupInv'
  <2>1. BackupOf(p)'
    BY <1>0, <1>1, <1>2 DEF BackupOf, Advance, CourseOf, InBackup, Found, Later, Kept, Whole
  <2> QED
    BY <1>0, <1>1, <1>2, <2>1, Names, BackupKept DEF CourseOf, InBackup, Found, Later, Kept, Whole
<1> QED
  BY <1>3, <1>4, <1>5, <1>6, <1>7, <1>8, <1>9 DEF MaintenanceInv

LEMMA UnlinkStep == ASSUME MaintenanceInv, NEW p \in Shells, Unlink(p) PROVE MaintenanceInv'
<1>0. /\ Typed /\ Course /\ ReplaceInv /\ KeysMatchData /\ HeldInv /\ HiddenInv /\ BackupInv
      /\ CourseOf(p) /\ ReplaceOf(p) /\ HeldOf(p) /\ HiddenOf(p) /\ BackupOf(p)
  BY DEF MaintenanceInv, Course, ReplaceInv, HeldInv, HiddenInv, BackupInv
<1>1. script[p].at = "unlink" /\ Others(p) /\ Advance(p, "copy", script[p].found)
  BY <1>0, Advances DEF Unlink, At, Goto, Typed, Steps, InBackup, Found, Replaces, Advance
<1>2. /\ data' = Empty /\ env' = "none"
      /\ UNCHANGED <<marker, held, up, lock, archives, exposed, runs>>
  BY DEF Unlink, bounds, EnvAfterDelete
<1>3. Typed'
  BY <1>0, <1>1, <1>2, TypedKept, RowsTyped DEF Typed, Advance, RowOK
<1>4. Course'
  <2>1. CourseOf(p)'
    BY <1>0, <1>1, <1>2 DEF Advance, CourseOf, InBackup, Found, Replaces
  <2> QED
    BY <1>0, <1>1, <1>2, <2>1, Names, CourseKept
<1>5. ReplaceInv'
  <2>1. ReplaceOf(p)'
    BY <1>0, <1>1, <1>2, <1>3, Names, RowsTyped DEF Advance, ReplaceOf, CourseOf, Replaces, Sound
  <2> QED
    BY <1>0, <1>1, <1>2, <2>1, Names, ReplaceKept DEF CourseOf, InBackup, Found, Sound, Whole
<1>6. KeysMatchData'
  BY <1>0, <1>1, <1>2, RowsTyped DEF KeysMatchData, ReplaceOf, Whole
<1>7. HeldInv'
  <2>1. HeldOf(p)'
    BY <1>0, <1>1, <1>2 DEF HeldOf, HeldInv, HeldMarkerStays, Advance, Found
  <2> QED
    BY <1>0, <1>1, <1>2, <2>1, HeldKept DEF HeldInv, HeldMarkerStays
<1>8. HiddenInv'
  BY <1>0, <1>1, <1>2, HiddenReplaced DEF Advance, CourseOf, Replaces
<1>9. BackupInv'
  <2>1. BackupOf(p)'
    BY <1>0, <1>1, <1>2 DEF BackupOf, Advance, CourseOf, InBackup, Found, Later, Kept, Whole
  <2> QED
    BY <1>0, <1>1, <1>2, <2>1, Names, BackupKept DEF CourseOf, InBackup, Found, Later, Kept, Whole
<1> QED
  BY <1>3, <1>4, <1>5, <1>6, <1>7, <1>8, <1>9 DEF MaintenanceInv

LEMMA CopyStep == ASSUME MaintenanceInv, NEW p \in Shells, Copy(p) PROVE MaintenanceInv'
<1>0. /\ Typed /\ Course /\ ReplaceInv /\ KeysMatchData /\ HeldInv /\ HiddenInv /\ BackupInv
      /\ CourseOf(p) /\ ReplaceOf(p) /\ HeldOf(p) /\ HiddenOf(p) /\ BackupOf(p)
  BY DEF MaintenanceInv, Course, ReplaceInv, HeldInv, HiddenInv, BackupInv
<1>1. script[p].at = "copy" /\ Others(p) /\ Advance(p, "copy all", script[p].found)
  BY <1>0, Advances DEF Copy, At, Goto, Typed, Steps, InBackup, Found, Replaces, Advance
<1>2. /\ data' = Partial
      /\ UNCHANGED <<marker, held, env, up, lock, archives, exposed, runs>>
  BY DEF Copy, bounds
<1>3. Typed'
  BY <1>0, <1>1, <1>2, TypedKept, RowsTyped DEF Typed, Advance, RowOK
<1>4. Course'
  <2>1. CourseOf(p)'
    BY <1>0, <1>1, <1>2 DEF Advance, CourseOf, InBackup, Found, Replaces
  <2> QED
    BY <1>0, <1>1, <1>2, <2>1, Names, CourseKept
<1>5. ReplaceInv'
  <2>1. ReplaceOf(p)'
    BY <1>0, <1>1, <1>2, <1>3, Names, RowsTyped DEF Advance, ReplaceOf, CourseOf, Replaces, Sound
  <2> QED
    BY <1>0, <1>1, <1>2, <2>1, Names, ReplaceKept DEF CourseOf, InBackup, Found, Sound, Whole
<1>6. KeysMatchData'
  BY <1>0, <1>1, <1>2, RowsTyped DEF KeysMatchData, ReplaceOf, Whole
<1>7. HeldInv'
  <2>1. HeldOf(p)'
    BY <1>0, <1>1, <1>2 DEF HeldOf, HeldInv, HeldMarkerStays, Advance, Found
  <2> QED
    BY <1>0, <1>1, <1>2, <2>1, HeldKept DEF HeldInv, HeldMarkerStays
<1>8. HiddenInv'
  BY <1>0, <1>1, <1>2, HiddenReplaced DEF Advance, CourseOf, Replaces
<1>9. BackupInv'
  <2>1. BackupOf(p)'
    BY <1>0, <1>1, <1>2 DEF BackupOf, Advance, CourseOf, InBackup, Found, Later, Kept, Whole
  <2> QED
    BY <1>0, <1>1, <1>2, <2>1, Names, BackupKept DEF CourseOf, InBackup, Found, Later, Kept, Whole
<1> QED
  BY <1>3, <1>4, <1>5, <1>6, <1>7, <1>8, <1>9 DEF MaintenanceInv

LEMMA CopyAllStep == ASSUME MaintenanceInv, NEW p \in Shells, CopyAll(p) PROVE MaintenanceInv'
<1>0. /\ Typed /\ Course /\ ReplaceInv /\ KeysMatchData /\ HeldInv /\ HiddenInv /\ BackupInv
      /\ CourseOf(p) /\ ReplaceOf(p) /\ HeldOf(p) /\ HiddenOf(p) /\ BackupOf(p)
  BY DEF MaintenanceInv, Course, ReplaceInv, HeldInv, HiddenInv, BackupInv
<1>1. script[p].at = "copy all" /\ Others(p) /\ Advance(p, "copy env", script[p].found)
  BY <1>0, Advances DEF CopyAll, At, Goto, Typed, Steps, InBackup, Found, Replaces, Advance
<1>2. /\ data' = script[p].source.data
      /\ UNCHANGED <<marker, held, env, up, lock, archives, exposed, runs>>
  BY DEF CopyAll, bounds
<1>3. Typed'
  BY <1>0, <1>1, <1>2, TypedKept, RowsTyped DEF Typed, Advance, RowOK
<1>4. Course'
  <2>1. CourseOf(p)'
    BY <1>0, <1>1, <1>2 DEF Advance, CourseOf, InBackup, Found, Replaces
  <2> QED
    BY <1>0, <1>1, <1>2, <2>1, Names, CourseKept
<1>5. ReplaceInv'
  <2>1. ReplaceOf(p)'
    BY <1>0, <1>1, <1>2, <1>3, Names, RowsTyped DEF Advance, ReplaceOf, CourseOf, Replaces, Sound
  <2> QED
    BY <1>0, <1>1, <1>2, <2>1, Names, ReplaceKept DEF CourseOf, InBackup, Found, Sound, Whole
<1>6. KeysMatchData'
  BY <1>0, <1>1, <1>2, RowsTyped DEF KeysMatchData, ReplaceOf, Whole
<1>7. HeldInv'
  <2>1. HeldOf(p)'
    BY <1>0, <1>1, <1>2 DEF HeldOf, HeldInv, HeldMarkerStays, Advance, Found
  <2> QED
    BY <1>0, <1>1, <1>2, <2>1, HeldKept DEF HeldInv, HeldMarkerStays
<1>8. HiddenInv'
  BY <1>0, <1>1, <1>2, HiddenReplaced DEF Advance, CourseOf, Replaces
<1>9. BackupInv'
  <2>1. BackupOf(p)'
    BY <1>0, <1>1, <1>2 DEF BackupOf, Advance, CourseOf, InBackup, Found, Later, Kept, Whole
  <2> QED
    BY <1>0, <1>1, <1>2, <2>1, Names, BackupKept DEF CourseOf, InBackup, Found, Later, Kept, Whole
<1> QED
  BY <1>3, <1>4, <1>5, <1>6, <1>7, <1>8, <1>9 DEF MaintenanceInv

LEMMA CopyEnvStep == ASSUME MaintenanceInv, NEW p \in Shells, CopyEnv(p) PROVE MaintenanceInv'
<1>0. /\ Typed /\ Course /\ ReplaceInv /\ KeysMatchData /\ HeldInv /\ HiddenInv /\ BackupInv
      /\ CourseOf(p) /\ ReplaceOf(p) /\ HeldOf(p) /\ HiddenOf(p) /\ BackupOf(p)
  BY DEF MaintenanceInv, Course, ReplaceInv, HeldInv, HiddenInv, BackupInv
<1>1. script[p].at = "copy env" /\ Others(p) /\ Advance(p, "start", script[p].found)
  BY <1>0, Advances DEF CopyEnv, At, Goto, Typed, Steps, InBackup, Found, Replaces, Advance
<1>2. /\ env' = script[p].source.env
      /\ UNCHANGED <<marker, held, data, up, lock, archives, exposed, runs>>
  BY DEF CopyEnv, bounds
<1>a. script[p].source \in Archives /\ Whole(script[p].source.data) /\ Whole(data)
      /\ env' = data.from
  BY <1>0, <1>1, <1>2 DEF Typed, Scripts, ReplaceOf, Archives
<1>b. env' \in Installations
  BY <1>0, <1>a DEF Typed, RowOK
<1>3. Typed'
  BY <1>0, <1>1, <1>2, <1>b, TypedKept, RowsTyped DEF Typed, Advance, RowOK
<1>4. Course'
  <2>1. CourseOf(p)'
    BY <1>0, <1>1, <1>2 DEF Advance, CourseOf, InBackup, Found, Replaces
  <2> QED
    BY <1>0, <1>1, <1>2, <2>1, Names, CourseKept
<1>5. ReplaceInv'
  <2>1. ReplaceOf(p)'
    BY <1>0, <1>1, <1>2, <1>a DEF Advance, ReplaceOf, CourseOf, Replaces, Sound
  <2> QED
    BY <1>0, <1>1, <1>2, <2>1, Names, ReplaceKept DEF CourseOf, InBackup, Found, Sound, Whole
<1>6. KeysMatchData'
  BY <1>a, <1>2 DEF KeysMatchData
<1>7. HeldInv'
  <2>1. HeldOf(p)'
    BY <1>0, <1>1, <1>2 DEF HeldOf, HeldInv, HeldMarkerStays, Advance, Found
  <2> QED
    BY <1>0, <1>1, <1>2, <2>1, HeldKept DEF HeldInv, HeldMarkerStays
<1>8. HiddenInv'
  BY <1>0, <1>1, <1>2, HiddenReplaced DEF Advance, CourseOf, Replaces
<1>9. BackupInv'
  <2>1. BackupOf(p)'
    BY <1>0, <1>1, <1>2 DEF BackupOf, Advance, CourseOf, InBackup, Found, Later, Kept, Whole
  <2> QED
    BY <1>0, <1>1, <1>2, <2>1, Names, BackupKept DEF CourseOf, InBackup, Found, Later, Kept, Whole
<1> QED
  BY <1>3, <1>4, <1>5, <1>6, <1>7, <1>8, <1>9 DEF MaintenanceInv

LEMMA StartServicesStep == ASSUME MaintenanceInv, NEW p \in Shells, StartServices(p)
                           PROVE  MaintenanceInv'
<1>0. /\ Typed /\ Course /\ ReplaceInv /\ KeysMatchData /\ HeldInv /\ HiddenInv /\ BackupInv
      /\ CourseOf(p) /\ ReplaceOf(p) /\ HeldOf(p) /\ HiddenOf(p) /\ BackupOf(p)
  BY DEF MaintenanceInv, Course, ReplaceInv, HeldInv, HiddenInv, BackupInv
<1>1. script[p].at = "start" /\ Others(p) /\ Advance(p, "ready", script[p].found)
  BY <1>0, Advances DEF StartServices, At, Goto, Typed, Steps, InBackup, Found, Replaces, Advance
<1>2. /\ Starts
      /\ UNCHANGED <<marker, held, env, lock, archives, exposed, runs>>
  BY DEF StartServices, bounds
<1>3. Typed'
  BY <1>0, <1>1, <1>2, TypedKept, RowsTyped DEF Typed, Advance, RowOK, Starts
<1>4. Course'
  <2>1. CourseOf(p)'
    BY <1>0, <1>1, <1>2 DEF Advance, CourseOf, InBackup, Found, Replaces
  <2> QED
    BY <1>0, <1>1, <1>2, <2>1, Names, CourseKept
<1>5. ReplaceInv'
  <2>1. ReplaceOf(p)'
    BY <1>0, <1>1, <1>2, <1>3, Names, RowsTyped
    DEF Advance, ReplaceOf, CourseOf, Replaces, Sound, Starts
  <2> QED
    BY <1>0, <1>1, <1>2, <2>1, Names, ReplaceKept
    DEF CourseOf, InBackup, Found, Sound, Whole, Starts
<1>6. KeysMatchData'
  BY <1>0, <1>1, <1>2, RowsTyped DEF KeysMatchData, ReplaceOf, Whole, Starts
<1>7. HeldInv'
  <2>1. HeldOf(p)'
    BY <1>0, <1>1, <1>2 DEF HeldOf, HeldInv, HeldMarkerStays, Advance, Found
  <2> QED
    BY <1>0, <1>1, <1>2, <2>1, HeldKept DEF HeldInv, HeldMarkerStays
<1>8. HiddenInv'
  <2>1. HiddenOf(p)'
    BY <1>0, <1>1, <1>2 DEF HiddenOf, HiddenInv, BrokenIsHidden, Advance, WillShow, Restores, At,
       InBackup, Found, Sound, Blank, Whole, Starts
  <2>2. Overlap'
    BY <1>0, <1>1, <1>2, Names DEF Overlap, HiddenInv, HiddenOf, Others, Advance, WillShow,
       Restores, At, Replaces, CourseOf, InBackup, Found
  <2> QED
    BY <1>0, <1>1, <1>2, <2>1, <2>2, HiddenKept DEF Sound, Blank, Whole, Starts
<1>9. BackupInv'
  <2>1. BackupOf(p)'
    BY <1>0, <1>1, <1>2 DEF BackupOf, Advance, CourseOf, InBackup, Found, Later, Kept, Whole, Starts
  <2> QED
    BY <1>0, <1>1, <1>2, <2>1, Names, BackupKept
    DEF CourseOf, InBackup, Found, Later, Kept, Whole, Starts
<1> QED
  BY <1>3, <1>4, <1>5, <1>6, <1>7, <1>8, <1>9 DEF MaintenanceInv

LEMMA ReadyStep == ASSUME MaintenanceInv, NEW p \in Shells, Ready(p) PROVE MaintenanceInv'
<1>0. /\ Typed /\ Course /\ ReplaceInv /\ KeysMatchData /\ HeldInv /\ HiddenInv /\ BackupInv
      /\ CourseOf(p) /\ ReplaceOf(p) /\ HeldOf(p) /\ HiddenOf(p) /\ BackupOf(p)
  BY DEF MaintenanceInv, Course, ReplaceInv, HeldInv, HiddenInv, BackupInv
<1>1. script[p].at = "ready" /\ Others(p) /\ Advance(p, "show", script[p].found)
  BY <1>0, Advances DEF Ready, At, Goto, Typed, Steps, InBackup, Found, Replaces, Advance
<1>2. /\ up
      /\ UNCHANGED <<marker, held, env, data, up, lock, archives, exposed, runs>>
  BY DEF Ready, bounds
<1>3. Typed'
  BY <1>0, <1>1, <1>2, TypedKept, RowsTyped DEF Typed, Advance, RowOK
<1>4. Course'
  <2>1. CourseOf(p)'
    BY <1>0, <1>1, <1>2 DEF Advance, CourseOf, InBackup, Found, Replaces
  <2> QED
    BY <1>0, <1>1, <1>2, <2>1, Names, CourseKept
<1>5. ReplaceInv'
  <2>1. ReplaceOf(p)'
    BY <1>0, <1>1, <1>2, <1>3, Names, RowsTyped DEF Advance, ReplaceOf, CourseOf, Replaces, Sound
  <2> QED
    BY <1>0, <1>1, <1>2, <2>1, Names, ReplaceKept DEF CourseOf, InBackup, Found, Sound, Whole
<1>6. KeysMatchData'
  BY <1>0, <1>1, <1>2, RowsTyped DEF KeysMatchData, ReplaceOf, Whole
<1>7. HeldInv'
  <2>1. HeldOf(p)'
    BY <1>0, <1>1, <1>2 DEF HeldOf, HeldInv, HeldMarkerStays, Advance, Found
  <2> QED
    BY <1>0, <1>1, <1>2, <2>1, HeldKept DEF HeldInv, HeldMarkerStays
<1>8. HiddenInv'
  <2>1. HiddenOf(p)'
    BY <1>0, <1>1, <1>2 DEF HiddenOf, HiddenInv, BrokenIsHidden, Advance, WillShow, Restores, At,
       InBackup, Found, Sound, Blank, Whole
  <2>2. Overlap'
    BY <1>0, <1>1, <1>2, Names DEF Overlap, HiddenInv, HiddenOf, Others, Advance, WillShow,
       Restores, At, Replaces, CourseOf, InBackup, Found
  <2> QED
    BY <1>0, <1>1, <1>2, <2>1, <2>2, HiddenKept DEF Sound, Blank, Whole
<1>9. BackupInv'
  <2>1. BackupOf(p)'
    BY <1>0, <1>1, <1>2 DEF BackupOf, Advance, CourseOf, InBackup, Found, Later, Kept, Whole
  <2> QED
    BY <1>0, <1>1, <1>2, <2>1, Names, BackupKept DEF CourseOf, InBackup, Found, Later, Kept, Whole
<1> QED
  BY <1>3, <1>4, <1>5, <1>6, <1>7, <1>8, <1>9 DEF MaintenanceInv

LEMMA BackupStartStep == ASSUME MaintenanceInv, NEW p \in Shells, BackupStart(p)
                         PROVE  MaintenanceInv'
<1>0. /\ Typed /\ Course /\ ReplaceInv /\ KeysMatchData /\ HeldInv /\ HiddenInv /\ BackupInv
      /\ CourseOf(p) /\ ReplaceOf(p) /\ HeldOf(p) /\ HiddenOf(p) /\ BackupOf(p)
  BY DEF MaintenanceInv, Course, ReplaceInv, HeldInv, HiddenInv, BackupInv
<1>1. Others(p) /\ (script[p].at = "backup start" /\ Advance(p, "backup off", script[p].found))
  BY <1>0, Advances
  DEF BackupStart, At, Goto, Typed, Steps, InBackup, Found, Replaces, Advance, Ends
<1>2. /\ (script[p].restart /\ Starts) \/ UNCHANGED <<up, data>>
      /\ UNCHANGED <<marker, held, env, lock, archives, exposed, runs>>
  BY DEF BackupStart, bounds
<1>3. Typed'
  BY <1>0, <1>1, <1>2, TypedKept, RowsTyped, IdleTyped DEF Typed, Advance, Ends, RowOK, Starts
<1>4. Course'
  <2>1. CourseOf(p)'
    BY <1>0, <1>1, <1>2 DEF Advance, Ends, CourseOf, InBackup, Found, Replaces, Idle
  <2> QED
    BY <1>0, <1>1, <1>2, <2>1, Names, CourseKept DEF CourseOf
<1>5. ReplaceInv'
  <2>1. ReplaceOf(p)'
    BY <1>0, <1>1, <1>2, Names, RowsTyped
    DEF Advance, Ends, ReplaceOf, CourseOf, Replaces, Sound, Idle, Starts
  <2> QED
    BY <1>0, <1>1, <1>2, <2>1, Names, ReplaceKept
    DEF CourseOf, InBackup, Found, Sound, Whole, Starts
<1>6. KeysMatchData'
  BY <1>0, <1>1, <1>2, RowsTyped DEF KeysMatchData, ReplaceOf, Whole, Starts
<1>7. HeldInv'
  <2>1. HeldOf(p)'
    BY <1>0, <1>1, <1>2 DEF HeldOf, HeldInv, HeldMarkerStays, Advance, Ends, Found, Idle
  <2> QED
    BY <1>0, <1>1, <1>2, <2>1, HeldKept DEF HeldInv, HeldMarkerStays, HeldOf, Found
<1>8. HiddenInv'
  <2>1. HiddenOf(p)'
    BY <1>0, <1>1, <1>2 DEF HiddenOf, HiddenInv, BrokenIsHidden, Advance, Ends, WillShow, Restores,
       At, InBackup, Found, Sound, Blank, Whole, Idle, Starts
  <2>2. Overlap'
    BY <1>0, <1>1, <1>2, Names DEF Overlap, HiddenInv, HiddenOf, Others, Advance, Ends, WillShow,
       Restores, At, Replaces, CourseOf, InBackup, Found, Idle
  <2> QED
    BY <1>0, <1>1, <1>2, <2>1, <2>2, HiddenKept DEF Sound, Blank, Whole, Starts
<1>9. BackupInv'
  <2>1. BackupOf(p)'
    BY <1>0, <1>1, <1>2
    DEF BackupOf, Advance, Ends, CourseOf, InBackup, Found, Later, Kept, Whole, Idle, Starts
  <2> QED
    BY <1>0, <1>1, <1>2, <2>1, Names, BackupKept
    DEF CourseOf, InBackup, Found, Later, Kept, Whole, Starts
<1> QED
  BY <1>3, <1>4, <1>5, <1>6, <1>7, <1>8, <1>9 DEF MaintenanceInv

LEMMA ValidateStep == ASSUME MaintenanceInv, NEW p \in Shells, Validate(p) PROVE MaintenanceInv'
<1>0. /\ Typed /\ Course /\ ReplaceInv /\ KeysMatchData /\ HeldInv /\ HiddenInv /\ BackupInv
      /\ CourseOf(p) /\ ReplaceOf(p) /\ HeldOf(p) /\ HiddenOf(p) /\ BackupOf(p)
  BY DEF MaintenanceInv, Course, ReplaceInv, HeldInv, HiddenInv, BackupInv
<1>1. Others(p) /\ script[p].at = "validate"
      /\ Advance(p, IF script[p].replace THEN "delete" ELSE "copy", script[p].found)
  <2> DEFINE step == IF script[p].replace THEN "delete" ELSE "copy"
  <2>1. step \in Steps /\ script[p].at = "validate" /\ script' = [script EXCEPT ![p].at = step]
    BY DEF Validate, At, Goto, Steps, Replaces
  <2> HIDE DEF step
  <2>2. script[p].restart \in BOOLEAN /\ script[p].found \in BOOLEAN
    BY <1>0 DEF Typed, Scripts
  <2>3. Advance(p, step, script[p].found)
    BY <1>0, <2>1, <2>2, Advances
  <2> QED
    BY <2>1, <2>3 DEF Advance, step
<1>2. /\ (~script[p].replace => Blank)
      /\ UNCHANGED <<marker, held, env, data, up, lock, archives, exposed, runs>>
  BY DEF Validate, bounds
<1>3. Typed'
  BY <1>0, <1>1, <1>2, TypedKept, RowsTyped, IdleTyped DEF Typed, Advance, Ends, RowOK
<1>4. Course'
  <2>1. CourseOf(p)'
    BY <1>0, <1>1, <1>2 DEF Advance, Ends, CourseOf, InBackup, Found, Replaces, Idle
  <2> QED
    BY <1>0, <1>1, <1>2, <2>1, Names, CourseKept DEF CourseOf
<1>5. ReplaceInv'
  <2>1. ReplaceOf(p)'
    BY <1>0, <1>1, <1>2, Names, RowsTyped
    DEF Advance, Ends, ReplaceOf, CourseOf, Replaces, Sound, Idle
  <2> QED
    BY <1>0, <1>1, <1>2, <2>1, Names, ReplaceKept DEF CourseOf, InBackup, Found, Sound, Whole
<1>6. KeysMatchData'
  BY <1>0, <1>1, <1>2, RowsTyped DEF KeysMatchData, ReplaceOf, Whole
<1>7. HeldInv'
  <2>1. HeldOf(p)'
    BY <1>0, <1>1, <1>2 DEF HeldOf, HeldInv, HeldMarkerStays, Advance, Ends, Found, Idle
  <2> QED
    BY <1>0, <1>1, <1>2, <2>1, HeldKept DEF HeldInv, HeldMarkerStays, HeldOf, Found
<1>8. HiddenInv'
  <2>1. HiddenOf(p)'
    BY <1>0, <1>1, <1>2 DEF HiddenOf, HiddenInv, BrokenIsHidden, Advance, Ends, WillShow, Restores,
       At, InBackup, Found, Sound, Blank, Whole, Idle
  <2>2. Overlap'
    BY <1>0, <1>1, <1>2, Names DEF Overlap, HiddenInv, HiddenOf, Others, Advance, Ends, WillShow,
       Restores, At, Replaces, CourseOf, InBackup, Found, Idle
  <2> QED
    BY <1>0, <1>1, <1>2, <2>1, <2>2, HiddenKept DEF Sound, Blank, Whole
<1>9. BackupInv'
  <2>1. BackupOf(p)'
    BY <1>0, <1>1, <1>2
    DEF BackupOf, Advance, Ends, CourseOf, InBackup, Found, Later, Kept, Whole, Idle
  <2> QED
    BY <1>0, <1>1, <1>2, <2>1, Names, BackupKept DEF CourseOf, InBackup, Found, Later, Kept, Whole
<1> QED
  BY <1>3, <1>4, <1>5, <1>6, <1>7, <1>8, <1>9 DEF MaintenanceInv

LEMMA ArchiveStep == ASSUME MaintenanceInv, NEW p \in Shells, Archive(p) PROVE MaintenanceInv'
<1>0. /\ Typed /\ Course /\ ReplaceInv /\ KeysMatchData /\ HeldInv /\ HiddenInv /\ BackupInv
      /\ CourseOf(p) /\ ReplaceOf(p) /\ HeldOf(p) /\ HiddenOf(p) /\ BackupOf(p)
  BY DEF MaintenanceInv, Course, ReplaceInv, HeldInv, HiddenInv, BackupInv
<1>1. Others(p) /\ (script[p].at = "archive" /\ Advance(p, "backup start", script[p].found))
  BY <1>0, Advances DEF Archive, At, Goto, Typed, Steps, InBackup, Found, Replaces, Advance, Ends
<1>2. /\ env # "none"
      /\ archives' = Retained(p, <<[data |-> data, env |-> env, no |-> script[p].no]>> \o archives)
      /\ UNCHANGED <<marker, held, env, data, up, lock, exposed, runs>>
  BY DEF Archive, bounds
<1>a. /\ archives' \in Seq({a \in Archives : a.env # "none"}) /\ Len(archives') <= Keep + 1
      /\ 1 \in 1..Len(archives') /\ archives'[1].env = env /\ archives'[1].data = data
  <2> DEFINE S == {a \in Archives : a.env # "none"}
             new == [data |-> data, env |-> env, no |-> script[p].no]
             all == <<new>> \o archives
  <2>1. script[p].no \in Nat
    BY <1>0 DEF Typed, Scripts
  <2>2. new \in S /\ new.env = env /\ new.data = data
    BY <1>0, <1>2, <2>1 DEF Archives, Typed, RowOK, KeysMatchData
  <2> HIDE DEF new, S
  <2>3. <<new>> \in Seq(S) /\ Len(<<new>>) = 1 /\ <<new>>[1] = new
    BY <2>2
  <2>4. archives \in Seq(S) /\ Len(archives) <= Keep + 1
    BY <1>0 DEF Typed, S
  <2>5. all \in Seq(S) /\ Len(all) = 1 + Len(archives) /\ all[1] = new
    BY <2>3, <2>4, ConcatProperties
  <2> HIDE DEF all
  <2>6. /\ Retained(p, all) \in Seq(S) /\ Len(Retained(p, all)) <= Keep + 1
        /\ Retained(p, all) # <<>> /\ Retained(p, all)[1] = new
    BY <2>4, <2>5, Names, RetainedTyped
  <2>7. archives' = Retained(p, all)
    BY <1>2 DEF all, new
  <2> QED
    BY <2>2, <2>6, <2>7 DEF S
<1>3. Typed'
  BY <1>0, <1>1, <1>2, TypedKept, RowsTyped, IdleTyped, <1>a DEF Typed, Advance, Ends, RowOK
<1>4. Course'
  <2>1. CourseOf(p)'
    BY <1>0, <1>1, <1>2 DEF Advance, Ends, CourseOf, InBackup, Found, Replaces, Idle
  <2> QED
    BY <1>0, <1>1, <1>2, <2>1, Names, CourseKept DEF CourseOf
<1>5. ReplaceInv'
  <2>1. ReplaceOf(p)'
    BY <1>0, <1>1, <1>2, Names, RowsTyped
    DEF Advance, Ends, ReplaceOf, CourseOf, Replaces, Sound, Idle
  <2> QED
    BY <1>0, <1>1, <1>2, <2>1, Names, ReplaceKept DEF CourseOf, InBackup, Found, Sound, Whole
<1>6. KeysMatchData'
  BY <1>0, <1>1, <1>2, RowsTyped DEF KeysMatchData, ReplaceOf, Whole
<1>7. HeldInv'
  <2>1. HeldOf(p)'
    BY <1>0, <1>1, <1>2 DEF HeldOf, HeldInv, HeldMarkerStays, Advance, Ends, Found, Idle
  <2> QED
    BY <1>0, <1>1, <1>2, <2>1, HeldKept DEF HeldInv, HeldMarkerStays, HeldOf, Found
<1>8. HiddenInv'
  <2>1. HiddenOf(p)'
    BY <1>0, <1>1, <1>2 DEF HiddenOf, HiddenInv, BrokenIsHidden, Advance, Ends, WillShow, Restores,
       At, InBackup, Found, Sound, Blank, Whole, Idle
  <2>2. Overlap'
    BY <1>0, <1>1, <1>2, Names DEF Overlap, HiddenInv, HiddenOf, Others, Advance, Ends, WillShow,
       Restores, At, Replaces, CourseOf, InBackup, Found, Idle
  <2> QED
    BY <1>0, <1>1, <1>2, <2>1, <2>2, HiddenKept DEF Sound, Blank, Whole
<1>9. BackupInv'
  <2>1. BackupOf(p)'
    BY <1>0, <1>1, <1>2, <1>a
    DEF BackupOf, Advance, Ends, CourseOf, InBackup, Found, Later, Kept, Whole, Idle
  <2> QED
    BY <1>0, <1>1, <1>2, <2>1, Names, BackupKept, <1>a
    DEF CourseOf, InBackup, Found, Later, Kept, Whole
<1> QED
  BY <1>3, <1>4, <1>5, <1>6, <1>7, <1>8, <1>9 DEF MaintenanceInv

LEMMA FailStep == ASSUME MaintenanceInv, NEW p \in Shells, Fail(p) PROVE MaintenanceInv'
<1>0. /\ Typed /\ Course /\ ReplaceInv /\ KeysMatchData /\ HeldInv /\ HiddenInv /\ BackupInv
      /\ CourseOf(p) /\ ReplaceOf(p) /\ HeldOf(p) /\ HiddenOf(p) /\ BackupOf(p)
  BY DEF MaintenanceInv, Course, ReplaceInv, HeldInv, HiddenInv, BackupInv
<1>1. Others(p) /\ (Ends(p))
  BY <1>0, Advances DEF Fail, At, Goto, Typed, Steps, InBackup, Found, Replaces, Ends
<1>2. /\ marker' = marker /\ lock' \in {lock, NoOne} /\ (lock = p \/ lock' = lock)
      /\ Starts \/ UNCHANGED <<up, data>>
      /\ UNCHANGED <<held, env, archives, exposed, runs>>
  BY DEF Fail, bounds, ShownAfterFailure, Trapped
<1>a. /\ script'[p].at = "idle" /\ script'[p].run = "none" /\ ~script'[p].found
      /\ ~script'[p].replace /\ script'[p].source = Damaged /\ script'[p].base = Empty
  BY <1>1, Ended
<1>3. Typed'
  BY <1>0, <1>1, <1>2, <1>a, TypedKept, RowsTyped, IdleTyped DEF Typed, RowOK, Starts
<1>4. Course'
  <2>1. CourseOf(p)'
    BY <1>0, <1>1, <1>2, <1>a DEF CourseOf, InBackup, Found, Replaces
  <2> QED
    BY <1>0, <1>1, <1>2, <1>a, <2>1, Names, CourseKept DEF CourseOf
<1>5. ReplaceInv'
  <2>1. ReplaceOf(p)'
    BY <1>0, <1>1, <1>2, <1>a, Names, RowsTyped DEF ReplaceOf, CourseOf, Replaces, Sound, Starts
  <2> QED
    BY <1>0, <1>1, <1>2, <1>a, <2>1, Names, ReplaceKept
    DEF CourseOf, InBackup, Found, Sound, Whole, Starts
<1>6. KeysMatchData'
  BY <1>0, <1>1, <1>2, <1>a, RowsTyped DEF KeysMatchData, ReplaceOf, Whole, Starts
<1>7. HeldInv'
  <2>1. HeldOf(p)'
    BY <1>0, <1>1, <1>2, <1>a DEF HeldOf, HeldInv, HeldMarkerStays, Found
  <2> QED
    BY <1>0, <1>1, <1>2, <1>a, <2>1, HeldKept DEF HeldInv, HeldMarkerStays, HeldOf, Found
<1>8. HiddenInv'
  <2>1. HiddenOf(p)'
    BY <1>0, <1>1, <1>2, <1>a DEF HiddenOf, HiddenInv, BrokenIsHidden, WillShow, Restores, At,
       InBackup, Found, Sound, Blank, Whole, Starts
  <2>2. Overlap'
    BY <1>0, <1>1, <1>2, <1>a, Names DEF Overlap, HiddenInv, HiddenOf, Others, WillShow, Restores,
       At, Replaces, CourseOf, InBackup, Found
  <2> QED
    BY <1>0, <1>1, <1>2, <1>a, <2>1, <2>2, HiddenKept DEF Sound, Blank, Whole, Starts
<1>9. BackupInv'
  <2>1. BackupOf(p)'
    BY <1>0, <1>1, <1>2, <1>a DEF BackupOf, CourseOf, InBackup, Found, Later, Kept, Whole, Starts
  <2> QED
    BY <1>0, <1>1, <1>2, <1>a, <2>1, Names, BackupKept
    DEF CourseOf, InBackup, Found, Later, Kept, Whole, Starts
<1> QED
  BY <1>3, <1>4, <1>5, <1>6, <1>7, <1>8, <1>9 DEF MaintenanceInv

\* The backup ends: it removes the marker if it had not found it.
LEMMA BackupEndStep == ASSUME MaintenanceInv, NEW p \in Shells, BackupEnd(p) PROVE MaintenanceInv'
<1>0. /\ Typed /\ Course /\ ReplaceInv /\ KeysMatchData /\ HeldInv /\ HiddenInv /\ BackupInv
      /\ CourseOf(p) /\ ReplaceOf(p) /\ HeldOf(p) /\ HiddenOf(p) /\ BackupOf(p)
  BY DEF MaintenanceInv, Course, ReplaceInv, HeldInv, HiddenInv, BackupInv
<1>1. /\ Others(p) /\ script[p].at = "backup off"
      /\ \/ script[p].run = "backup" /\ Ends(p)
         \/ script[p].run = "restore" /\ Advance(p, "stop", script[p].found)
         \/ script[p].run = "update" /\ Advance(p, "hide", script[p].found)
  <2>1. script[p].run \in {"backup", "restore", "update"} /\ script[p].at = "backup off"
    BY <1>0 DEF BackupEnd, At, CourseOf, InBackup, Found
  <2>2. {"stop", "hide"} \subseteq Steps /\ script[p].found \in BOOLEAN
    BY <1>0 DEF Steps, Replaces, Typed, Scripts
  <2>3. CASE script[p].run = "backup"
    BY <1>0, <2>1, <2>2, <2>3, Advances DEF BackupEnd, Ends
  <2>4. CASE script[p].run = "restore"
    BY <1>0, <2>1, <2>2, <2>4, Advances DEF BackupEnd, Goto, Advance
  <2>5. CASE script[p].run = "update"
    BY <1>0, <2>1, <2>2, <2>5, Advances DEF BackupEnd, Goto, Advance
  <2> QED
    BY <2>1, <2>3, <2>4, <2>5
<1>2. /\ marker' = (marker /\ script[p].found) /\ lock = p /\ lock' = NoOne
      /\ exposed' = (exposed \/ (~script[p].found /\ \E q \in Shells \ {p} : Restores(q)))
      /\ UNCHANGED <<held, env, data, up, archives, runs>>
  BY <1>0, <1>1 DEF BackupEnd, bounds, CourseOf, InBackup, Found
<1>a. Ends(p) => /\ script'[p].at = "idle" /\ script'[p].run = "none" /\ ~script'[p].found
                 /\ ~script'[p].replace /\ script'[p].source = Damaged /\ script'[p].base = Empty
  BY Ended
<1>b. marker' \in BOOLEAN /\ exposed' \in BOOLEAN
  BY <1>2
<1>3. Typed'
  BY <1>0, <1>1, <1>2, <1>a, <1>b, TypedKept, RowsTyped DEF Typed, Advance, RowOK
<1>4. Course'
  <2>1. p = Cron => script[p].run = "backup"
    BY <1>0, <1>1 DEF CourseOf
  <2>2. CourseOf(p)'
    <3>1. CASE script[p].run = "backup" /\ Ends(p)
      BY <1>a, <2>1, <3>1 DEF CourseOf, InBackup, Found, Replaces
    <3>2. CASE script[p].run = "restore" /\ Advance(p, "stop", script[p].found)
      <4>1. script[p].replace
        BY <1>0, <1>1, <3>2 DEF CourseOf, InBackup, Found
      <4> QED
        BY <2>1, <3>2, <4>1 DEF CourseOf, Advance, InBackup, Found, Replaces
    <3>3. CASE script[p].run = "update" /\ Advance(p, "hide", script[p].found)
      BY <2>1, <3>3 DEF CourseOf, Advance, InBackup, Found, Replaces
    <3> QED
      BY <1>1, <3>1, <3>2, <3>3
  <2> QED
    BY <1>0, <1>1, <1>2, <2>2, CourseKept
<1>5. ReplaceInv'
  <2>1. ReplaceOf(p)'
    BY <1>0, <1>1, <1>2, <1>a DEF Advance, ReplaceOf
  <2> QED
    BY <1>0, <1>1, <1>2, <2>1, ReplaceKept DEF Sound
<1>6. KeysMatchData'
  BY <1>0, <1>2 DEF KeysMatchData
<1>7. HeldInv'
  <2>1. HeldOf(p)'
    BY <1>0, <1>1, <1>2, <1>a DEF HeldOf, Advance, Found
  <2>2. held => marker'
    BY <1>0, <1>1, <1>2 DEF HeldInv, HeldMarkerStays, HeldOf, Found
  <2> QED
    BY <1>0, <1>1, <1>2, <2>1, <2>2, HeldKept
<1>8. HiddenInv'
  <2>1. CASE script[p].found
    <3>1. marker' = marker /\ exposed' = exposed
      BY <1>0, <1>2, <2>1 DEF Typed
    <3>2. HiddenOf(p)'
      BY <1>0, <1>1, <1>2, <1>a, <3>1
      DEF HiddenOf, Advance, WillShow, Restores, At, InBackup, Found, Sound
    <3>3. Overlap'
      <4>1. CASE p = Cron
        BY <1>0, <1>1, <1>2, <1>a, <3>1, <4>1, Names
        DEF Overlap, Others, WillShow, Advance, CourseOf, HiddenInv, Found
      <4>2. CASE p = Operator
        <5>1. ~WillShow(Cron)'
          BY <1>0, <1>1, <1>2, <4>2, Names DEF Others, WillShow, Course, CourseOf, InBackup, Found
        <5> QED
          BY <5>1 DEF Overlap
      <4> QED
        BY <4>1, <4>2, Names
    <3>4. (Sound => Sound') /\ (Blank => Blank')
      BY <1>2 DEF Sound, Blank
    <3> QED
      BY <1>0, <1>1, <3>1, <3>2, <3>3, <3>4, HiddenKept
  <2>2. CASE ~script[p].found
    <3>1. WillShow(p) /\ (Sound \/ exposed) /\ exposed \in BOOLEAN
      BY <1>0, <1>1, <2>2 DEF HiddenOf, WillShow, Typed
    <3>2. (exposed => exposed') /\ (Sound => Sound') /\ (Sound' \/ exposed')
      BY <1>2, <3>1 DEF Sound
    <3>3. \A q \in Shells \ {p} : script'[q] = script[q] /\ script[q].at \notin InBackup /\ HiddenOf(q)
      BY <1>0, <1>1, <1>2 DEF Others, Course, CourseOf, HiddenInv
    <3>4. \A q \in Shells \ {p} : Restores(q) => exposed'
      BY <1>2, <2>2
    <3>5. script[p].run = "restore" => exposed
      BY <1>0, <1>1, <3>1 DEF HiddenOf, Restores, At
    <3>6. HiddenOf(p)'
      BY <1>0, <1>1, <1>a, <3>2, <3>5 DEF HiddenOf, Advance, WillShow, Restores, At, InBackup, Found
    <3>7. \A q \in Shells \ {p} : HiddenOf(q)'
      BY <3>2, <3>3, <3>4 DEF HiddenOf, WillShow, Restores, At, InBackup
    <3>8. Overlap'
      <4>1. CASE p = Cron
        BY <1>1, <1>a, <4>1, Names DEF Overlap, WillShow, Advance, Found
      <4>2. CASE p = Operator
        BY <3>3, <4>2, Names DEF Overlap, WillShow, InBackup, Found
      <4> QED
        BY <4>1, <4>2, Names
    <3> QED
      BY <3>2, <3>6, <3>7, <3>8 DEF HiddenInv, BrokenIsHidden
  <2> QED
    BY <2>1, <2>2
<1>9. BackupInv'
  <2>1. BackupOf(p)'
    BY <1>0, <1>1, <1>2, <1>a DEF BackupOf, Advance, CourseOf, InBackup, Found, Later, Kept
  <2> QED
    BY <1>0, <1>1, <1>2, <2>1, BackupKept DEF Later, Kept
<1> QED
  BY <1>3, <1>4, <1>5, <1>6, <1>7, <1>8, <1>9 DEF MaintenanceInv

\* A restore or an update sets the marker after the confirmation.
LEMMA HideStep == ASSUME MaintenanceInv, NEW p \in Shells, Hide(p) PROVE MaintenanceInv'
<1>0. /\ Typed /\ Course /\ ReplaceInv /\ KeysMatchData /\ HeldInv /\ HiddenInv /\ BackupInv
      /\ CourseOf(p) /\ ReplaceOf(p) /\ HeldOf(p) /\ HiddenOf(p) /\ BackupOf(p)
  BY DEF MaintenanceInv, Course, ReplaceInv, HeldInv, HiddenInv, BackupInv
<1> DEFINE step == IF script[p].run = "update" THEN "start"
                    ELSE IF script[p].replace THEN "lock" ELSE "inspect"
<1>1. Others(p) /\ script[p].at = "hide" /\ Advance(p, step, script[p].found)
  <2>1. step \in Steps /\ script[p].at = "hide" /\ script' = [script EXCEPT ![p].at = step]
    BY DEF Hide, At, Goto, Steps, Replaces
  <2> HIDE DEF step
  <2> QED
    BY <1>0, <2>1, Advances DEF Advance, Typed, Scripts
<1>2. /\ marker' = TRUE
      /\ exposed' = (exposed /\ (script[p].run = "update" \/ \E q \in Shells \ {p} : WillShow(q)))
      /\ UNCHANGED <<held, env, data, up, lock, archives, runs>>
  BY DEF Hide, bounds
<1>a. p = Operator /\ script[p].run \in {"restore", "update"}
  BY <1>0, <1>1, Names DEF CourseOf, InBackup, Found
<1>b. exposed' \in BOOLEAN
  BY <1>2
<1>3. Typed'
  BY <1>0, <1>1, <1>2, <1>b, TypedKept DEF Typed, Advance, RowOK
<1>4. Course'
  <2>1. CourseOf(p)'
    BY <1>1, <1>a, Names DEF Advance, CourseOf, InBackup, Found, Replaces
  <2> QED
    BY <1>0, <1>1, <1>2, <2>1, CourseKept
<1>5. ReplaceInv'
  <2>1. ReplaceOf(p)'
    BY <1>0, <1>1, <1>2, <1>a DEF Advance, ReplaceOf
  <2> QED
    BY <1>0, <1>1, <1>2, <1>a, <2>1, ReplaceKept
<1>6. KeysMatchData'
  BY <1>0, <1>2 DEF KeysMatchData
<1>7. HeldInv'
  <2>1. HeldOf(p)'
    BY <1>0, <1>1, <1>2 DEF HeldOf, Advance, Found
  <2> QED
    BY <1>0, <1>1, <1>2, <2>1, HeldKept
<1>8. HiddenInv'
  <2>1. script'[Cron] = script[Cron] /\ HiddenOf(Cron) /\ CourseOf(Cron)
    BY <1>0, <1>1, <1>a, Names DEF Others, HiddenInv, Course
  <2>2. WillShow(Cron)' <=> WillShow(Cron)
    BY <2>1 DEF WillShow
  <2>3. WillShow(Cron) /\ exposed => exposed'
    BY <1>2, <1>a, Names
  <2>4. HiddenOf(Cron)'
    BY <1>2, <2>1, <2>2, <2>3, Names DEF HiddenOf, CourseOf, Restores, Sound
  <2>5. HiddenOf(p)'
    <3>1. script[p].run = "update" => script[p].was \/ Sound \/ exposed
      BY <1>0, <1>1 DEF HiddenOf
    <3>2. script[p].run = "update" => exposed' = exposed
      BY <1>0, <1>2 DEF Typed
    <3>3. ~WillShow(p)'
      BY <1>1 DEF Advance, WillShow, Found
    <3> QED
      BY <1>1, <1>2, <3>1, <3>2, <3>3 DEF HiddenOf, Advance, Sound
  <2>6. Overlap'
    <3>1. CASE script[p].run = "restore" /\ ~script[p].replace /\ WillShow(Cron)
      BY <1>0, <1>1, <2>1, <2>3, <3>1
      DEF Overlap, ReplaceOf, HiddenOf, Sound, Typed, RowOK, Whole, Installations
    <3>2. CASE ~(script[p].run = "restore" /\ ~script[p].replace)
      BY <1>1, <1>a, <3>2 DEF Overlap, Advance, Replaces
    <3>3. CASE ~WillShow(Cron)
      BY <2>2, <3>3 DEF Overlap
    <3> QED
      BY <3>1, <3>2, <3>3
  <2> QED
    BY <1>2, <1>a, <2>4, <2>5, <2>6, Names DEF HiddenInv, BrokenIsHidden
<1>9. BackupInv'
  <2>1. BackupOf(p)'
    BY <1>0, <1>1, <1>2 DEF BackupOf, Advance, InBackup, Found, Later, Kept
  <2> QED
    BY <1>0, <1>1, <1>2, <1>a, <2>1, BackupKept
<1> QED
  BY <1>3, <1>4, <1>5, <1>6, <1>7, <1>8, <1>9 DEF MaintenanceInv

\* A restore or an update ends: the installation is sound, or a marker had been there before.
LEMMA ShowStep == ASSUME MaintenanceInv, NEW p \in Shells, Show(p) PROVE MaintenanceInv'
<1>0. /\ Typed /\ Course /\ ReplaceInv /\ KeysMatchData /\ HeldInv /\ HiddenInv /\ BackupInv
      /\ CourseOf(p) /\ ReplaceOf(p) /\ HeldOf(p) /\ HiddenOf(p) /\ BackupOf(p)
  BY DEF MaintenanceInv, Course, ReplaceInv, HeldInv, HiddenInv, BackupInv
<1>1. Others(p) /\ script[p].at = "show" /\ Ends(p)
  BY <1>0, Advances DEF Show, At, Ends, Typed, Steps
<1>2. /\ marker' = (marker /\ script[p].was)
      /\ UNCHANGED <<held, env, data, up, lock, archives, exposed, runs>>
  BY DEF Show, bounds, LeavesMarker
<1>a. /\ script'[p].at = "idle" /\ script'[p].run = "none" /\ ~script'[p].found
      /\ ~script'[p].replace /\ script'[p].source = Damaged /\ script'[p].base = Empty
  BY <1>1, Ended
<1>b. p = Operator /\ script[p].run \in {"restore", "update"} /\ marker' \in BOOLEAN
  BY <1>0, <1>1, <1>2, Names DEF CourseOf, InBackup, Found, Replaces
<1>3. Typed'
  BY <1>0, <1>1, <1>2, <1>a, <1>b, TypedKept, RowsTyped DEF Typed, RowOK
<1>4. Course'
  <2>1. CourseOf(p)'
    BY <1>a, <1>b, Names DEF CourseOf, InBackup, Found, Replaces
  <2> QED
    BY <1>0, <1>1, <1>2, <2>1, CourseKept
<1>5. ReplaceInv'
  <2>1. ReplaceOf(p)'
    BY <1>a DEF ReplaceOf
  <2> QED
    BY <1>0, <1>1, <1>b, <2>1, ReplaceKept
<1>6. KeysMatchData'
  BY <1>0, <1>2 DEF KeysMatchData
<1>7. HeldInv'
  <2>1. HeldOf(p)' /\ (held => marker')
    BY <1>0, <1>1, <1>2, <1>a DEF HeldOf, Found, HeldInv, HeldMarkerStays
  <2> QED
    BY <1>0, <1>1, <1>2, <2>1, HeldKept
<1>8. HiddenInv'
  <2>1. script'[Cron] = script[Cron] /\ HiddenOf(Cron) /\ CourseOf(Cron)
    BY <1>0, <1>1, <1>b, Names DEF Others, HiddenInv, Course
  <2>2. script[p].was \/ Sound \/ exposed
    BY <1>0, <1>1, <1>b DEF HiddenOf, ReplaceOf
  <2>3. (WillShow(Cron)' <=> WillShow(Cron)) /\ ~WillShow(p)' /\ (Sound' <=> Sound)
    BY <1>2, <1>a, <2>1 DEF WillShow, Sound, Found
  <2>4. script[p].was => (marker' <=> marker)
    BY <1>2
  <2>5. HiddenOf(Cron)'
    BY <1>2, <2>1, <2>2, <2>3, <2>4, Names DEF HiddenOf, CourseOf, Restores
  <2>6. HiddenOf(p)' /\ Overlap'
    BY <1>a, <1>b, <2>3 DEF HiddenOf, Restores, InBackup, Found, Overlap
  <2>7. BrokenIsHidden'
    BY <1>0, <1>2, <2>2, <2>4 DEF HiddenInv, BrokenIsHidden, Sound, Blank
  <2> QED
    BY <1>b, <2>5, <2>6, <2>7, Names DEF HiddenInv
<1>9. BackupInv'
  <2>1. BackupOf(p)'
    BY <1>a DEF BackupOf
  <2> QED
    BY <1>0, <1>1, <1>b, <2>1, BackupKept
<1> QED
  BY <1>3, <1>4, <1>5, <1>6, <1>7, <1>8, <1>9 DEF MaintenanceInv

-----------------------------------------------------------------------------
(***************************************************************************)
(* The start of a script, and what the surroundings do.                    *)
(***************************************************************************)

LEMMA StartStep ==
  ASSUME MaintenanceInv, NEW p \in Shells, NEW run \in {"backup", "restore", "update"},
         NEW replace \in BOOLEAN, NEW source \in Archives, Start(p, run, replace, source),
         RowOK(source.data), source = Damaged \/ Whole(source.data),
         p = Operator \/ run = "backup", run = "restore" => MayRestore(replace),
         run # "restore" => env # "none" /\ ~replace
  PROVE  MaintenanceInv'
<1>0. /\ Typed /\ Course /\ ReplaceInv /\ KeysMatchData /\ HeldInv /\ HiddenInv /\ BackupInv
  BY DEF MaintenanceInv
<1> DEFINE step == IF run = "restore" THEN "hide" ELSE "lock"
<1>1. /\ Others(p) /\ script'[p].at = step /\ script'[p].run = run /\ script'[p].replace = replace
      /\ script'[p].source = source /\ script'[p].was = marker /\ script'[p].base = data
      /\ script'[p].found = FALSE
  <2> DEFINE new == [Idle EXCEPT !.at = step, !.run = run, !.replace = replace, !.source = source,
                                 !.was = marker, !.base = data, !.no = runs']
  <2>1. script' = [script EXCEPT ![p] = new]
    BY DEF Start
  <2>2. runs' \in Nat /\ marker \in BOOLEAN /\ data \in DataRows /\ step \in Steps
    BY <1>0 DEF Start, Typed, RowOK, Steps
  <2>3. /\ new.at = step /\ new.run = run /\ new.replace = replace /\ new.source = source
        /\ new.was = marker /\ new.base = data /\ new.found = FALSE
    BY DEF Idle
  <2>4. new \in Scripts
    BY <2>2 DEF Idle, Scripts
  <2> HIDE DEF new
  <2> QED
    BY <1>0, <2>1, <2>3, <2>4 DEF Others, Typed
<1>2. /\ script[p] = Idle /\ runs' \in Nat
      /\ UNCHANGED <<marker, held, env, data, up, lock, archives, exposed>>
  BY <1>0 DEF Start, Typed
<1>3. Typed'
  BY <1>0, <1>1, <1>2, TypedKept DEF Typed, RowOK
<1>4. Course'
  <2>1. CourseOf(p)'
    BY <1>1, <1>2, Names DEF CourseOf, MayRestore, InBackup, Found, Replaces
  <2> QED
    BY <1>0, <1>1, <1>2, <2>1, CourseKept
<1>5. ReplaceInv'
  <2>1. ReplaceOf(p)'
    BY <1>1, <1>2 DEF ReplaceOf, MayRestore
  <2>2. (Sound => Sound') /\ (Whole(data) => Whole(data)' /\ data'.from = data.from)
    BY <1>2 DEF Sound
  <2> QED
    BY <1>0, <1>1, <1>2, <2>1, <2>2, ReplaceKept
<1>6. KeysMatchData'
  BY <1>0, <1>2 DEF KeysMatchData
<1>7. HeldInv'
  <2>1. HeldOf(p)' /\ (held => marker')
    BY <1>0, <1>1, <1>2 DEF HeldOf, HeldInv, HeldMarkerStays, Found
  <2> QED
    BY <1>0, <1>1, <1>2, <2>1, HeldKept
<1>8. HiddenInv'
  <2>1. (Sound => Sound') /\ (Blank => Blank') /\ (env # "none" => ~Blank)
    BY <1>2 DEF Sound, Blank
  <2>2. env # "none" => Sound \/ marker \/ exposed
    BY <1>0, <2>1 DEF HiddenInv, BrokenIsHidden
  <2>3. HiddenOf(p)'
    BY <1>1, <1>2, <2>1, <2>2 DEF HiddenOf, WillShow, Restores, At, InBackup, Found
  <2>4. Overlap'
    <3>1. CASE p = Operator
      BY <1>1, <3>1 DEF Overlap, Replaces
    <3>2. CASE p = Cron
      BY <1>1, <3>2 DEF Overlap, WillShow
    <3> QED
      BY <3>1, <3>2, Names
  <2> QED
    BY <1>0, <1>1, <1>2, <2>1, <2>3, <2>4, HiddenKept
<1>9. BackupInv'
  <2>1. data.v \in Nat
    BY <1>0, Names DEF Typed, RowOK, DataRows
  <2>2. BackupOf(p)'
    BY <1>1, <1>2, <2>1 DEF BackupOf, Later
  <2> QED
    BY <1>0, <1>1, <1>2, <2>2, BackupKept DEF Later, Kept
<1> QED
  BY <1>3, <1>4, <1>5, <1>6, <1>7, <1>8, <1>9 DEF MaintenanceInv

LEMMA HostFailsStep == ASSUME MaintenanceInv, HostFails PROVE MaintenanceInv'
<1>0. Typed /\ KeysMatchData /\ HeldInv /\ HiddenInv
  BY DEF MaintenanceInv
<1>1. /\ \A p \in Shells : script'[p] = Idle
      /\ script' \in [Shells -> Scripts]
      /\ UNCHANGED <<marker, held, env, data, up, lock, archives, exposed, runs>>
  BY IdleTyped DEF HostFails
<1>2. /\ Idle.at = "idle" /\ Idle.run = "none" /\ Idle.source = Damaged /\ ~Idle.found
  BY DEF Idle
<1>3. Typed' /\ KeysMatchData'
  BY <1>0, <1>1, IdleTyped DEF Typed, KeysMatchData, RowOK
<1>4. Course' /\ ReplaceInv' /\ BackupInv'
  BY <1>1, <1>2
  DEF Course, CourseOf, ReplaceInv, ReplaceOf, BackupInv, BackupOf, InBackup, Found, Replaces
<1>5. HeldInv'
  BY <1>0, <1>1, <1>2 DEF HeldInv, HeldMarkerStays, HeldOf, Found
<1>6. HiddenInv'
  <2>1. BrokenIsHidden'
    BY <1>0, <1>1 DEF HiddenInv, BrokenIsHidden, Sound, Blank
  <2>2. \A p \in Shells : HiddenOf(p)'
    BY <1>1, <1>2 DEF HiddenOf, WillShow, Restores, InBackup, Found
  <2>3. Overlap'
    BY <1>1, <1>2, Names DEF Overlap, WillShow
  <2> QED
    BY <2>1, <2>2, <2>3 DEF HiddenInv
<1> QED
  BY <1>3, <1>4, <1>5, <1>6 DEF MaintenanceInv

\* The services write: the data stays whole, and gets no older.
LEMMA WorkStep == ASSUME MaintenanceInv, Work PROVE MaintenanceInv'
<1>0. Typed /\ Course /\ ReplaceInv /\ KeysMatchData /\ HeldInv /\ HiddenInv /\ BackupInv
  BY DEF MaintenanceInv
<1>1. /\ data' = [data EXCEPT !.v = data.v + 1] /\ Whole(data) /\ data.v < MaxVersion
      /\ UNCHANGED <<marker, held, env, up, lock, archives, script, exposed, runs>>
  BY DEF Work, bounds
<1>2. /\ data \in DataRows /\ data.from \in Installations /\ data.v \in Nat
  BY <1>0, <1>1, Names DEF Typed, RowOK, DataRows
<1>3. data' \in DataRows /\ data'.from = data.from /\ data'.v = data.v + 1
  BY <1>1, <1>2, Names DEF DataRows
<1>4. Whole(data')
  BY <1>2, <1>3 DEF Whole, Empty, Partial, Fresh, Installations
<1>5. (Sound' <=> Sound) /\ ~Blank /\ (Whole(data)' <=> Whole(data))
  BY <1>1, <1>3, <1>4 DEF Sound, Blank, Whole
<1>6. Typed'
  BY <1>0, <1>1, <1>2, <1>3, <1>4 DEF Typed, RowOK
<1>7. Course' /\ ReplaceInv' /\ HeldInv'
  <2>1. \A p \in Shells : CourseOf(p)' /\ HeldOf(p)'
    BY <1>0, <1>1 DEF Course, CourseOf, HeldInv, HeldOf
  <2>2. \A p \in Shells : ReplaceOf(p)'
    BY <1>0, <1>1, <1>3, <1>4, <1>5 DEF ReplaceInv, ReplaceOf
  <2> QED
    BY <1>0, <1>1, <2>1, <2>2 DEF Course, ReplaceInv, HeldInv, HeldMarkerStays
<1>8. KeysMatchData'
  BY <1>0, <1>1, <1>3 DEF KeysMatchData
<1>9. HiddenInv'
  <2>1. \A p \in Shells : HiddenOf(p)'
    BY <1>0, <1>1, <1>5 DEF HiddenInv, HiddenOf, WillShow, Restores, At
  <2>2. BrokenIsHidden' /\ Overlap'
    BY <1>0, <1>1, <1>5 DEF HiddenInv, BrokenIsHidden, Overlap, WillShow
  <2> QED
    BY <2>1, <2>2 DEF HiddenInv
<1>10. BackupInv'
  <2> SUFFICES ASSUME NEW p \in Shells PROVE BackupOf(p)'
    BY DEF BackupInv
  <2> DEFINE base == script[p].base
  <2>1. base \in DataRows /\ base.v \in Nat /\ base' = base /\ BackupOf(p)
    BY <1>0, <1>1, Names DEF Typed, RowOK, DataRows, BackupInv
  <2>2. (Later(base) => Later(base)') /\ (Kept(base) => Kept(base)')
    BY <1>1, <1>2, <1>3, <1>4, <2>1 DEF Later, Kept
  <2> QED
    BY <1>1, <2>1, <2>2 DEF BackupOf
<1> QED
  BY <1>6, <1>7, <1>8, <1>9, <1>10 DEF MaintenanceInv

\* By hand the marker is removed only from a sound installation.
LEMMA ByHandStep == ASSUME MaintenanceInv, ByHand PROVE MaintenanceInv'
<1>0. Typed /\ Course /\ ReplaceInv /\ KeysMatchData /\ HeldInv /\ HiddenInv /\ BackupInv
  BY DEF MaintenanceInv
<1>1. /\ \A p \in Shells : script[p] = Idle
      /\ UNCHANGED <<env, data, up, archives, script, runs>>
      /\ lock' \in {lock, NoOne} /\ exposed' = (exposed /\ ~marker')
      /\ \/ marker' = TRUE /\ held' = TRUE
         \/ Sound /\ marker' = FALSE /\ held' = FALSE
         \/ UNCHANGED <<marker, held>>
  BY DEF ByHand
<1>2. /\ Idle.at = "idle" /\ Idle.run = "none" /\ Idle.source = Damaged /\ ~Idle.found
  BY DEF Idle
<1>3. exposed' \in BOOLEAN /\ marker' \in BOOLEAN /\ held' \in BOOLEAN
  BY <1>0, <1>1 DEF Typed
<1>4. Typed' /\ KeysMatchData'
  BY <1>0, <1>1, <1>3 DEF Typed, KeysMatchData, RowOK
<1>5. Course' /\ ReplaceInv' /\ BackupInv'
  BY <1>1, <1>2
  DEF Course, CourseOf, ReplaceInv, ReplaceOf, BackupInv, BackupOf, InBackup, Found, Replaces
<1>6. HeldInv'
  <2>1. held' => marker'
    <3>1. CASE marker' = TRUE /\ held' = TRUE
      BY <3>1
    <3>2. CASE held' = FALSE
      BY <3>2
    <3>3. CASE UNCHANGED <<marker, held>>
      BY <1>0, <3>3 DEF HeldInv, HeldMarkerStays
    <3> QED
      BY <1>1, <3>1, <3>2, <3>3
  <2>2. \A p \in Shells : HeldOf(p)'
    BY <1>0, <1>1, <1>2 DEF HeldOf, Found
  <2> QED
    BY <2>1, <2>2 DEF HeldInv, HeldMarkerStays
<1>7. HiddenInv'
  <2>1. (Sound' <=> Sound) /\ (Blank' <=> Blank) /\ (Sound \/ Blank \/ marker \/ exposed)
    BY <1>0, <1>1 DEF HiddenInv, BrokenIsHidden, Sound, Blank
  <2>a. BrokenIsHidden'
    BY <1>1, <2>1, Zenon DEF BrokenIsHidden
  <2>2. \A p \in Shells : HiddenOf(p)'
    BY <1>1, <1>2 DEF HiddenOf, WillShow, Restores, InBackup, Found
  <2>3. Overlap'
    BY <1>1, <1>2, Names DEF Overlap, WillShow
  <2> QED
    BY <2>a, <2>2, <2>3 DEF HiddenInv
<1> QED
  BY <1>4, <1>5, <1>6, <1>7 DEF MaintenanceInv

LEMMA StutterKeeps == MaintenanceInv /\ UNCHANGED vars => MaintenanceInv'
<1> SUFFICES ASSUME MaintenanceInv, UNCHANGED vars PROVE MaintenanceInv'
  OBVIOUS
<1>1. UNCHANGED <<marker, held, env, data, up, lock, archives, script, exposed, runs>>
  BY DEF vars, bounds
<1>2. Typed' /\ KeysMatchData'
  BY <1>1 DEF MaintenanceInv, Typed, RowOK, KeysMatchData
<1>3. Course' /\ ReplaceInv' /\ HeldInv'
  BY <1>1 DEF MaintenanceInv, Course, CourseOf, ReplaceInv, ReplaceOf, Sound, HeldInv, HeldOf,
     HeldMarkerStays
<1>4. HiddenInv'
  BY <1>1 DEF MaintenanceInv, HiddenInv, HiddenOf, BrokenIsHidden, Overlap, WillShow, Restores, At,
     Sound, Blank
<1>5. BackupInv'
  BY <1>1 DEF MaintenanceInv, BackupInv, BackupOf, Later, Kept
<1> QED
  BY <1>2, <1>3, <1>4, <1>5 DEF MaintenanceInv

-----------------------------------------------------------------------------
(***************************************************************************)
(* The invariant, and what follows from it.                                *)
(***************************************************************************)

LEMMA MaintenanceStart == Init => MaintenanceInv
<1> SUFFICES ASSUME Init PROVE MaintenanceInv
  OBVIOUS
<1>1. \A p \in Shells : script[p] = Idle
  BY DEF Init
<1>2. /\ Idle.at = "idle" /\ Idle.run = "none" /\ Idle.source = Damaged /\ ~Idle.found
  BY DEF Idle
<1>3. RowOK(data) /\ env \in {"none"} \cup Installations /\ (Sound \/ Blank)
  <2>1. CASE Blank
    BY <2>1, RowsTyped DEF Blank
  <2>2. CASE data = [from |-> "live", v |-> 0] /\ env = "live"
    BY <2>2, Names DEF RowOK, DataRows, Installations, Sound, Whole, Empty, Partial, Fresh
  <2> QED
    BY <2>1, <2>2 DEF Init
<1>4. Typed
  <2>1. script \in [Shells -> Scripts] /\ archives = <<>> /\ runs \in Nat /\ lock = NoOne
    BY IdleTyped DEF Init
  <2>2. marker \in BOOLEAN /\ held \in BOOLEAN /\ exposed \in BOOLEAN /\ up \in BOOLEAN
    BY DEF Init
  <2>3. archives \in Seq({a \in Archives : a.env # "none"}) /\ Len(archives) <= Keep + 1
    BY <2>1, Names
  <2> QED
    BY <1>1, <1>3, <2>1, <2>2, <2>3, IdleTyped DEF Typed
<1>5. KeysMatchData
  BY <1>3, RowsTyped DEF KeysMatchData, Sound, Blank
<1>6. Course /\ ReplaceInv /\ BackupInv /\ HeldInv
  BY <1>1, <1>2 DEF Init, Course, CourseOf, ReplaceInv, ReplaceOf, BackupInv, BackupOf, InBackup,
     Found, Replaces, HeldInv, HeldOf, HeldMarkerStays
<1>7. HiddenInv
  BY <1>1, <1>2, <1>3, Names DEF HiddenInv, HiddenOf, BrokenIsHidden, Overlap, WillShow, Restores,
     InBackup, Found
<1> QED
  BY <1>4, <1>5, <1>6, <1>7 DEF MaintenanceInv

LEMMA StartsKeep ==
  ASSUME MaintenanceInv, (\E p \in Shells : StartBackup(p)) \/ StartUpdate \/ StartRestore
  PROVE  MaintenanceInv'
<1>1. ASSUME NEW p \in Shells, StartBackup(p) PROVE MaintenanceInv'
  BY <1>1, RowsTyped, StartStep DEF StartBackup
<1>2. CASE StartUpdate
  BY <1>2, RowsTyped, Names, StartStep DEF StartUpdate
<1>3. CASE StartRestore
  <2>1. PICK replace \in BOOLEAN,
             source \in {Chosen, Damaged} \cup {a \in ToSet(archives) : Whole(a.data)} :
               MayRestore(replace) /\ Start(Operator, "restore", replace, source)
    BY <1>3 DEF StartRestore
  <2>2. source \in Archives /\ RowOK(source.data) /\ (source = Damaged \/ Whole(source.data))
    <3>1. CASE source \in {Chosen, Damaged}
      BY <3>1, RowsTyped
    <3>2. CASE source \in ToSet(archives) /\ Whole(source.data)
      <4>1. source \in Archives
        BY <3>2 DEF MaintenanceInv, Typed, ToSet
      <4> QED
        BY <3>2, <4>1 DEF Archives, RowOK, DataRows, Whole, Empty, Partial, Fresh, Installations
    <3> QED
      BY <3>1, <3>2
  <2> QED
    BY <2>1, <2>2, Names, StartStep
<1> QED
  BY <1>1, <1>2, <1>3

LEMMA MaintenanceStep == MaintenanceInv /\ [Next]_vars => MaintenanceInv'
<1> SUFFICES ASSUME MaintenanceInv, [Next]_vars PROVE MaintenanceInv'
  OBVIOUS
<1>1. ASSUME NEW p \in Shells, Backup(p) PROVE MaintenanceInv'
  BY <1>1, TakeLockStep, BackupStatusStep, BackupHideStep, BackupStopStep, ArchiveStep,
     BackupStartStep, BackupEndStep DEF Backup
<1>2. ASSUME NEW p \in Shells, RestoreOrUpdate(p) PROVE MaintenanceInv'
  BY <1>2, HideStep, StopServicesStep, InspectStep, ValidateStep, DeleteStep, UnlinkStep, CopyStep,
     CopyAllStep, CopyEnvStep, StartServicesStep, ReadyStep, ShowStep DEF RestoreOrUpdate
<1> QED
  BY <1>1, <1>2, FailStep, StartsKeep, HostFailsStep, WorkStep, ByHandStep, StutterKeeps DEF Next

THEOREM MaintenanceInvariant == Spec => []MaintenanceInv
BY MaintenanceStart, MaintenanceStep, PTL DEF Spec

\* The state keeps its types, and the number of archives kept stays the configured one, and one
\* that a restore reads (the retention of backup.sh).
THEOREM MaintenanceTypes == Spec => []TypeOK
<1>1. MaintenanceInv => TypeOK
  <2> SUFFICES ASSUME MaintenanceInv PROVE TypeOK
    OBVIOUS
  <2>1. \A p \in Shells : script[p].run \in {"none", "backup", "restore", "update"}
    BY DEF MaintenanceInv, Typed, Scripts
  <2> QED
    BY <2>1 DEF MaintenanceInv, Typed, TypeOK, RowOK, DataRows, Installations
<1> QED
  BY <1>1, MaintenanceInvariant, PTL

\* An installation that is incomplete, or whose keys do not belong to its data, is hidden, but
\* for the marker that an overlapping backup takes away (restore.sh, backup.sh).
THEOREM BrokenStaysHidden == Spec => []BrokenIsHidden
BY MaintenanceInvariant, PTL DEF MaintenanceInv, HiddenInv

\* The keys in .env never stand beside data of another installation (restore_archive).
THEOREM KeysFollowData == Spec => []KeysMatchData
BY MaintenanceInvariant, PTL DEF MaintenanceInv

\* No script removes a marker that was set by hand before it started (maintenance.sh).
THEOREM MarkerByHandStays == Spec => []HeldMarkerStays
BY MaintenanceInvariant, PTL DEF MaintenanceInv, HeldInv

\* Before a restore deletes anything, a backup of what it found at its start is kept.
THEOREM BackupComesFirst == Spec => SafetyBackupFirst
<1>1. ASSUME MaintenanceInv, [Next]_vars PROVE SavedFirst
  <2> SUFFICES ASSUME NEW p \in Shells, script[p].at = "delete", Whole(script[p].base)
               PROVE  \E a \in ToSet(archives) : /\ a.env = env /\ a.data.from = script[p].base.from
                                                 /\ a.data.v >= script[p].base.v
    BY DEF SavedFirst
  <2>1. BackupOf(p) /\ CourseOf(p)
    BY <1>1 DEF MaintenanceInv, BackupInv, Course
  <2>2. Kept(script[p].base)
    BY <2>1 DEF BackupOf, CourseOf, Replaces
  <2> QED
    BY <1>1, <2>2 DEF Kept, ToSet, MaintenanceInv, Typed
<1> QED
  BY <1>1, MaintenanceInvariant, PTL DEF Spec, SafetyBackupFirst
=============================================================================
