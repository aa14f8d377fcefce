------------------------------ MODULE Backups ------------------------------
(***************************************************************************)
(* compose/scripts/backup.sh, run once a day by cron: dump the database,   *)
(* archive the media, rotate both, under set -euo pipefail, which leaves   *)
(* the script at the first command that fails.  A file that was begun      *)
(* stays on the disk, and the rotation counts it.  One run at a time.      *)
(*                                                                         *)
(* The data are images: one is in the media directory before the row that  *)
(* names it is committed, and is never removed (menu/models.py, FileField).*)
(***************************************************************************)
EXTENDS Integers, Sequences, SequencesExt

CONSTANTS
  KEEP,       \* BACKUP_KEEP
  MaxImages,  \* bound: images uploaded
  MaxRuns     \* bound: runs begun

ASSUME KeepAssumption == KEEP \in Nat \ {0}
ASSUME BoundAssumption == MaxImages \in Nat /\ MaxRuns \in Nat

VARIABLES
  media, rows,        \* images in the media directory, and in the database
  DB_DIR, MEDIA_DIR,  \* the files by mtime, oldest first
  run,                \* runs begun; the newest names its files (STAMP)
  step,               \* where the run is
  dumped, archived    \* (ghosts) runs that finished a dump, an archive

vars == <<media, rows, DB_DIR, MEDIA_DIR, run, step, dumped, archived>>

\* The images 1..images, if the command that wrote the file succeeded.
File == [stamp : 1..MaxRuns, complete : BOOLEAN, images : 0..MaxImages]

TypeOK ==
  /\ media \in 0..MaxImages /\ rows \in 0..media
  /\ DB_DIR \in Seq(File) /\ MEDIA_DIR \in Seq(File)
  /\ \A files \in {DB_DIR, MEDIA_DIR} : \A j, k \in DOMAIN files :
       j < k => files[j].stamp < files[k].stamp
  /\ run \in 0..MaxRuns
  /\ step \in {"idle", "dump", "archive", "rotate DB", "rotate media"}
  /\ archived \subseteq dumped /\ dumped \subseteq 1..run

Init ==
  /\ media = 0 /\ rows = 0
  /\ DB_DIR = <<>> /\ MEDIA_DIR = <<>>
  /\ run = 0
  /\ step = "idle"
  /\ dumped = {} /\ archived = {}
-----------------------------------------------------------------------------
(***************************************************************************)
(* The program goes on while its data are saved.                           *)
(***************************************************************************)
StoreImage ==
  /\ media < MaxImages
  /\ media' = media + 1
  /\ UNCHANGED <<rows, DB_DIR, MEDIA_DIR, run, step, dumped, archived>>

CommitRow ==
  /\ rows < media
  /\ rows' = rows + 1
  /\ UNCHANGED <<media, DB_DIR, MEDIA_DIR, run, step, dumped, archived>>
-----------------------------------------------------------------------------
(***************************************************************************)
(* The script.                                                             *)
(***************************************************************************)
Begun(stamp, images) == [stamp |-> stamp, complete |-> FALSE, images |-> images]
Finished(files) == [files EXCEPT ![Len(files)].complete = TRUE]

\* The redirection makes the file before pg_dump runs, which has its snapshot
\* from the start.
StartDump ==
  /\ step = "idle"
  /\ run < MaxRuns
  /\ step' = "dump"
  /\ run' = run + 1
  /\ DB_DIR' = Append(DB_DIR, Begun(run + 1, rows))
  /\ UNCHANGED <<media, rows, MEDIA_DIR, dumped, archived>>

StartArchive ==
  /\ step = "dump"
  /\ step' = "archive"
  /\ DB_DIR' = Finished(DB_DIR)
  /\ dumped' = dumped \cup {run}
  /\ MEDIA_DIR' = Append(MEDIA_DIR, Begun(run, media))
  /\ UNCHANGED <<media, rows, run, archived>>

\* tar has what was there when it began; of what came later, perhaps some.
FinishArchive ==
  /\ step = "archive"
  /\ step' = "rotate DB"
  /\ \E n \in Last(MEDIA_DIR).images..media :
       MEDIA_DIR' = [Finished(MEDIA_DIR) EXCEPT ![Len(MEDIA_DIR)].images = n]
  /\ archived' = archived \cup {run}
  /\ UNCHANGED <<media, rows, DB_DIR, run, dumped>>

\* A plausible bug: tail -n +$KEEP.
Excess_OneMore(files) == Len(files) - KEEP + 1

\* rm has the files after the newest KEEP, newest first.
Excess(files) == Len(files) - KEEP

RotateDB ==
  /\ step = "rotate DB"
  /\ IF Excess(DB_DIR) > 0
     THEN DB_DIR' = RemoveAt(DB_DIR, Excess(DB_DIR)) /\ UNCHANGED step
     ELSE step' = "rotate media" /\ UNCHANGED DB_DIR
  /\ UNCHANGED <<media, rows, MEDIA_DIR, run, dumped, archived>>

\* A plausible bug: the media directory keeps one archive fewer.
RotateMedia_OneFewer ==
  /\ step = "rotate media"
  /\ IF Excess(MEDIA_DIR) + 1 > 0
     THEN MEDIA_DIR' = RemoveAt(MEDIA_DIR, Excess(MEDIA_DIR) + 1) /\ UNCHANGED step
     ELSE step' = "idle" /\ UNCHANGED MEDIA_DIR
  /\ UNCHANGED <<media, rows, DB_DIR, run, dumped, archived>>

RotateMedia ==
  /\ step = "rotate media"
  /\ IF Excess(MEDIA_DIR) > 0
     THEN MEDIA_DIR' = RemoveAt(MEDIA_DIR, Excess(MEDIA_DIR)) /\ UNCHANGED step
     ELSE step' = "idle" /\ UNCHANGED MEDIA_DIR
  /\ UNCHANGED <<media, rows, DB_DIR, run, dumped, archived>>

\* A plausible bug: without pipefail a failing pg_dump goes unnoticed, as its
\* gzip succeeds.
Fail_NoPipefail ==
  /\ step = "dump"
  /\ step' = "archive"
  /\ MEDIA_DIR' = Append(MEDIA_DIR, Begun(run, media))
  /\ UNCHANGED <<media, rows, DB_DIR, run, dumped, archived>>

\* A command fails, or the script is killed.
Fail ==
  /\ step # "idle"
  /\ step' = "idle"
  /\ UNCHANGED <<media, rows, DB_DIR, MEDIA_DIR, run, dumped, archived>>

Script ==
  StartDump \/ StartArchive \/ FinishArchive \/ RotateDB \/ RotateMedia \/ Fail

Next == StoreImage \/ CommitRow \/ Script

Spec == Init /\ [][Next]_vars
-----------------------------------------------------------------------------
(***************************************************************************)
(* Properties.                                                             *)
(***************************************************************************)

\* Once a dump was finished there is always one to restore that is no older
\* than the last, however many runs fail after it and wherever they stop:
\* rotation comes only after a dump that succeeded, and is of the newest.
RecoveryPoint ==
  \A s \in dumped : \E k \in DOMAIN DB_DIR : DB_DIR[k].complete /\ DB_DIR[k].stamp >= s

\* "Keeps the last 14 DB dumps" (backup.sh): the dumps of the last KEEP runs,
\* which may have failed, are there.
LastKept == \A s \in run - KEEP + 1..run : s > 0 =>
              \E k \in DOMAIN DB_DIR : DB_DIR[k].stamp = s

\* A dump can be restored with its images: for one whose run made an archive,
\* too, that archive is kept as long, and has every image that the dump names.
ImagesKept ==
  \A k \in DOMAIN DB_DIR : DB_DIR[k].stamp \in archived =>
    \E j \in DOMAIN MEDIA_DIR :
      /\ MEDIA_DIR[j].stamp = DB_DIR[k].stamp
      /\ MEDIA_DIR[j].complete
      /\ MEDIA_DIR[j].images >= DB_DIR[k].images
=============================================================================
