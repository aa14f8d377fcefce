---------------------------- MODULE Backups_proofs ----------------------------
(***************************************************************************)
(* What the backups keep, for every KEEP and however many runs fail, and   *)
(* wherever.  That files are dropped by their place in a directory and     *)
(* kept by their age needs both directories to have their files spaced by  *)
(* age, and the newest KEEP dumps to be of the last KEEP runs, in order.   *)
(***************************************************************************)
EXTENDS Backups, SequenceTheorems, TLAPS

USE KeepAssumption, BoundAssumption

\* Of two files, the later is newer by as many runs as there are files between.
Spaced(files) == \A j, k \in 1..Len(files) :
                   j <= k => files[k].stamp - files[j].stamp >= k - j

Within(files, n) == \A k \in 1..Len(files) : files[k].stamp <= n

\* The dump d files before the last is of the run d runs before the last.
TailKept == \A d \in 0..KEEP - 1 : d < run =>
              d < Len(DB_DIR) /\ DB_DIR[Len(DB_DIR) - d].stamp = run - d

\* What the run has made so far.
NewestDump == DB_DIR[Len(DB_DIR)]
NewestArchive == MEDIA_DIR[Len(MEDIA_DIR)]
RunAt ==
  /\ step # "idle" => run > 0
  /\ step = "dump" => NewestDump.images <= rows /\ Within(MEDIA_DIR, run - 1)
  /\ step \in {"archive", "rotate DB", "rotate media"} =>
       NewestDump.complete /\ run \in dumped
  /\ step = "archive" =>
       /\ MEDIA_DIR # << >>
       /\ NewestArchive.stamp = run
       /\ NewestDump.images <= NewestArchive.images
       /\ NewestArchive.images <= media
  /\ step = "rotate media" => Len(DB_DIR) <= KEEP

Files == /\ Spaced(DB_DIR) /\ Within(DB_DIR, run)
         /\ Spaced(MEDIA_DIR) /\ Within(MEDIA_DIR, run)

IInv == /\ TypeOK
        /\ Files
        /\ TailKept
        /\ RunAt
        /\ RecoveryPoint
        /\ ImagesKept
-----------------------------------------------------------------------------
(***************************************************************************)
(* A directory: a file is added, finished or removed.                      *)
(***************************************************************************)
LEMMA FileType ==
  ASSUME NEW f \in Seq(File), NEW k \in 1..Len(f)
  PROVE  /\ f[k] \in File /\ f[k].stamp \in Nat /\ f[k].stamp > 0
         /\ f[k].images \in Nat /\ Len(f) \in Nat
<1>1. f[k] \in File
  OBVIOUS
<1> QED
  BY <1>1 DEF File

LEMMA Added ==
  ASSUME NEW f \in Seq(File), NEW x \in File, NEW n \in Nat,
         Spaced(f), Within(f, n), x.stamp = n + 1
  PROVE  /\ Append(f, x) \in Seq(File)
         /\ Len(Append(f, x)) = Len(f) + 1 /\ Len(f) \in Nat
         /\ Append(f, x)[Len(f) + 1] = x
         /\ \A k \in 1..Len(f) : Append(f, x)[k] = f[k]
         /\ Spaced(Append(f, x)) /\ Within(Append(f, x), n + 1)
<1> DEFINE g == Append(f, x)
<1>1. /\ g \in Seq(File) /\ Len(g) = Len(f) + 1 /\ Len(f) \in Nat
      /\ g[Len(f) + 1] = x /\ \A k \in 1..Len(f) : g[k] = f[k]
  OBVIOUS
<1> HIDE DEF g
<1>2. ASSUME NEW k \in 1..Len(f)
      PROVE  /\ f[k].stamp \in Nat /\ f[k].stamp <= n
             /\ n - f[k].stamp >= Len(f) - k
  <2>1. Len(f) \in 1..Len(f)
    BY <1>1
  <2>2. f[k].stamp \in Nat /\ f[Len(f)].stamp \in Nat /\ f[Len(f)].stamp <= n
    BY <2>1, FileType DEF Within
  <2>3. f[Len(f)].stamp - f[k].stamp >= Len(f) - k
    BY <1>1, <2>1 DEF Spaced
  <2> QED
    BY <1>1, <2>2, <2>3 DEF Within
<1>3. Within(g, n + 1)
  BY <1>1, <1>2 DEF Within
<1>4. Spaced(g)
  <2> SUFFICES ASSUME NEW j \in 1..Len(g), NEW k \in 1..Len(g), j <= k
               PROVE  g[k].stamp - g[j].stamp >= k - j
    BY DEF Spaced
  <2>1. CASE k \in 1..Len(f)
    <3>1. j \in 1..Len(f)
      BY <1>1, <2>1
    <3>2. g[j] = f[j] /\ g[k] = f[k]
      BY <1>1, <2>1, <3>1
    <3> QED
      BY <2>1, <3>1, <3>2 DEF Spaced
  <2>2. CASE k = Len(f) + 1 /\ j \in 1..Len(f)
    <3>1. g[k].stamp = n + 1 /\ g[j] = f[j]
      BY <1>1, <2>2
    <3>2. n - f[j].stamp >= Len(f) - j /\ f[j].stamp \in Nat
      BY <1>2, <2>2
    <3> QED
      BY <1>1, <2>2, <3>1, <3>2
  <2>3. CASE k = Len(f) + 1 /\ j = Len(f) + 1
    BY <1>1, <2>3
  <2> QED
    BY <1>1, <2>1, <2>2, <2>3
<1> QED
  BY <1>1, <1>3, <1>4 DEF g

LEMMA SameStamps ==
  ASSUME NEW f, NEW g, Len(g) = Len(f),
         \A k \in 1..Len(f) : g[k].stamp = f[k].stamp
  PROVE  /\ Spaced(f) => Spaced(g)
         /\ \A n : Within(f, n) => Within(g, n)
BY DEF Spaced, Within

\* The last file is written again.
LEMMA LastWritten ==
  ASSUME NEW f \in Seq(File), Len(f) \in 1..Len(f), NEW x \in File
  PROVE  LET g == [f EXCEPT ![Len(f)] = x]
         IN /\ g \in Seq(File) /\ Len(g) = Len(f) /\ g[Len(f)] = x
            /\ \A k \in 1..Len(f) : k # Len(f) => g[k] = f[k]
OBVIOUS

LEMMA ImagesWritten ==
  ASSUME NEW f \in File, NEW n \in 0..MaxImages
  PROVE  LET x == [f EXCEPT !.images = n]
         IN /\ x \in File /\ x.images = n
            /\ x.stamp = f.stamp /\ x.complete = f.complete
BY DEF File

LEMMA FinishedFile ==
  ASSUME NEW f \in Seq(File), f # << >>
  PROVE  /\ Finished(f) \in Seq(File) /\ Len(Finished(f)) = Len(f)
         /\ Len(f) \in 1..Len(f)
         /\ \A k \in 1..Len(f) : /\ Finished(f)[k].stamp = f[k].stamp
                                 /\ Finished(f)[k].images = f[k].images
                                 /\ f[k].complete => Finished(f)[k].complete
         /\ Finished(f)[Len(f)].complete
<1>1. Len(f) \in 1..Len(f) /\ f[Len(f)] \in File
  OBVIOUS
<1> DEFINE x == [f[Len(f)] EXCEPT !.complete = TRUE]
<1>2. /\ x \in File /\ x.complete
      /\ x.stamp = f[Len(f)].stamp /\ x.images = f[Len(f)].images
  BY <1>1 DEF File
<1>3. Finished(f) = [f EXCEPT ![Len(f)] = x]
  BY DEF Finished
<1> HIDE DEF x
<1> QED
  BY <1>1, <1>2, <1>3

LEMMA Removed ==
  ASSUME NEW f \in Seq(File), NEW i \in 1..Len(f)
  PROVE  /\ RemoveAt(f, i) \in Seq(File)
         /\ Len(RemoveAt(f, i)) = Len(f) - 1 /\ Len(f) \in Nat
         /\ \A k \in 1..Len(f) - 1 :
              RemoveAt(f, i)[k] = IF k < i THEN f[k] ELSE f[k + 1]
<1> DEFINE a == SubSeq(f, 1, i - 1)
           b == SubSeq(f, i + 1, Len(f))
<1>1. /\ Len(f) \in Nat /\ a \in Seq(File) /\ Len(a) = i - 1
      /\ \A k \in 1..i - 1 : a[k] = f[k]
  OBVIOUS
<1>2. /\ b \in Seq(File) /\ Len(b) = Len(f) - i
      /\ \A k \in 1..Len(f) - i : b[k] = f[i + k]
  OBVIOUS
<1>3. RemoveAt(f, i) = a \o b
  BY DEF RemoveAt
<1> HIDE DEF a, b
<1>4. /\ a \o b \in Seq(File) /\ Len(a \o b) = Len(f) - 1
      /\ \A k \in 1..Len(f) - 1 :
           (a \o b)[k] = IF k <= Len(a) THEN a[k] ELSE b[k - Len(a)]
  <2>1. Len(a) + Len(b) = Len(f) - 1
    BY <1>1, <1>2
  <2>2. /\ a \o b \in Seq(File) /\ Len(a \o b) = Len(a) + Len(b)
        /\ \A k \in 1..Len(a) + Len(b) :
             (a \o b)[k] = IF k <= Len(a) THEN a[k] ELSE b[k - Len(a)]
    BY <1>1, <1>2, ConcatProperties
  <2> QED
    BY <2>1, <2>2
<1>5. ASSUME NEW k \in 1..Len(f) - 1
      PROVE  (a \o b)[k] = IF k < i THEN f[k] ELSE f[k + 1]
  <2>1. CASE k < i
    BY <1>1, <1>4, <2>1
  <2>2. CASE ~(k < i)
    <3>1. k - Len(a) \in 1..Len(f) - i /\ i + (k - Len(a)) = k + 1
      BY <1>1, <2>2
    <3>2. (a \o b)[k] = b[k - Len(a)]
      BY <1>1, <1>4, <2>2
    <3> QED
      BY <1>2, <2>2, <3>1, <3>2
  <2> QED
    BY <1>1, <2>1, <2>2
<1> QED
  BY <1>1, <1>3, <1>4, <1>5

LEMMA RemovedSpaced ==
  ASSUME NEW f \in Seq(File), NEW i \in 1..Len(f), NEW n \in Nat,
         Spaced(f), Within(f, n)
  PROVE  Spaced(RemoveAt(f, i)) /\ Within(RemoveAt(f, i), n)
<1> DEFINE g == RemoveAt(f, i)
           at(k) == IF k < i THEN k ELSE k + 1
<1>1. /\ Len(g) = Len(f) - 1 /\ Len(f) \in Nat
      /\ \A k \in 1..Len(g) : at(k) \in 1..Len(f) /\ g[k] = f[at(k)]
  <2>1. /\ Len(g) = Len(f) - 1 /\ Len(f) \in Nat
        /\ \A k \in 1..Len(f) - 1 : g[k] = IF k < i THEN f[k] ELSE f[k + 1]
    BY Removed
  <2> HIDE DEF g
  <2> QED
    BY <2>1
<1> HIDE DEF g
<1>2. Within(g, n)
  BY <1>1 DEF Within
<1>3. ASSUME NEW j \in 1..Len(g), NEW k \in 1..Len(g), j <= k
      PROVE  g[k].stamp - g[j].stamp >= k - j
  <2>1. at(j) <= at(k) /\ at(k) - at(j) >= k - j
    BY <1>1, <1>3
  <2>2. /\ f[at(k)].stamp \in Nat /\ f[at(j)].stamp \in Nat
        /\ at(k) \in Nat /\ at(j) \in Nat
    BY <1>1, FileType
  <2>3. f[at(k)].stamp - f[at(j)].stamp >= at(k) - at(j)
    BY <1>1, <2>1 DEF Spaced
  <2>4. g[k] = f[at(k)] /\ g[j] = f[at(j)]
    BY <1>1
  <2>5. f[at(k)].stamp - f[at(j)].stamp >= k - j
    <3>1. j \in Nat /\ k \in Nat
      BY <1>1
    <3> HIDE DEF at
    <3> QED
      BY ONLY <2>1, <2>2, <2>3, <3>1
  <2> HIDE DEF at
  <2> QED
    BY <2>4, <2>5
<1> QED
  BY <1>2, <1>3 DEF g, Spaced

\* Spaced files are ordered as TypeOK says.
LEMMA SpacedOrdered ==
  ASSUME NEW f \in Seq(File), Spaced(f)
  PROVE  \A j, k \in DOMAIN f : j < k => f[j].stamp < f[k].stamp
<1> SUFFICES ASSUME NEW j \in 1..Len(f), NEW k \in 1..Len(f), j < k
             PROVE  f[j].stamp < f[k].stamp
  OBVIOUS
<1>1. /\ f[j].stamp \in Nat /\ f[k].stamp \in Nat
      /\ f[k].stamp - f[j].stamp >= k - j
  BY FileType DEF Spaced
<1> QED
  BY <1>1

\* The place of a file from the last bounds its age.
LEMMA SpacedFromLast ==
  ASSUME NEW f \in Seq(File), NEW n \in Nat, Spaced(f), Within(f, n),
         NEW i \in 1..Len(f)
  PROVE  f[i].stamp <= n - (Len(f) - i)
<1>1. Len(f) \in 1..Len(f) /\ i <= Len(f)
  OBVIOUS
<1>2. f[Len(f)].stamp - f[i].stamp >= Len(f) - i /\ f[Len(f)].stamp <= n
  BY <1>1 DEF Spaced, Within
<1>3. f[Len(f)].stamp \in Nat /\ f[i].stamp \in Nat
  BY <1>1, FileType
<1> QED
  BY <1>1, <1>2, <1>3

\* There are no more of them than runs.
LEMMA SpacedLength ==
  ASSUME NEW f \in Seq(File), NEW n \in Nat, Spaced(f), Within(f, n)
  PROVE  Len(f) <= n
<1>1. Len(f) \in Nat
  OBVIOUS
<1> SUFFICES ASSUME Len(f) > 0 PROVE Len(f) <= n
  BY <1>1
<1>2. 1 \in 1..Len(f) /\ Len(f) \in 1..Len(f)
  BY <1>1
<1>3. /\ f[1].stamp \in Nat /\ f[1].stamp > 0 /\ f[Len(f)].stamp \in Nat
      /\ f[Len(f)].stamp - f[1].stamp >= Len(f) - 1 /\ f[Len(f)].stamp <= n
  BY <1>2, FileType DEF Spaced, Within
<1> QED
  BY <1>1, <1>3
-----------------------------------------------------------------------------
(***************************************************************************)
(* The steps.                                                              *)
(***************************************************************************)
LEMMA IInit == Init => IInv
<1> SUFFICES ASSUME Init PROVE IInv
  OBVIOUS
<1>1. TypeOK
  BY DEF Init, TypeOK
<1>2. Files /\ TailKept
  BY DEF Init, Files, Spaced, Within, TailKept
<1>3. RunAt /\ RecoveryPoint /\ ImagesKept
  BY DEF Init, RunAt, RecoveryPoint, ImagesKept
<1> QED
  BY <1>1, <1>2, <1>3 DEF IInv

\* The facts about a state that the steps start from.
LEMMA StateFacts ==
  ASSUME IInv
  PROVE  /\ TypeOK /\ Files
         /\ media \in Nat /\ rows \in Nat /\ run \in Nat /\ rows <= media
         /\ archived \subseteq dumped /\ dumped \subseteq 1..run /\ run + 1 \notin dumped
         /\ DB_DIR \in Seq(File) /\ Len(DB_DIR) \in Nat
         /\ MEDIA_DIR \in Seq(File) /\ Len(MEDIA_DIR) \in Nat
         /\ Len(DB_DIR) <= run
<1>0. TypeOK /\ Files
  BY DEF IInv
<1>1. /\ media \in 0..MaxImages /\ rows \in 0..media /\ run \in 0..MaxRuns
      /\ archived \subseteq dumped /\ dumped \subseteq 1..run
      /\ DB_DIR \in Seq(File) /\ MEDIA_DIR \in Seq(File)
  BY <1>0 DEF TypeOK
<1>2. Len(DB_DIR) \in Nat /\ Len(MEDIA_DIR) \in Nat
  BY <1>1
<1>3. Len(DB_DIR) <= run
  <2>1. run \in Nat
    BY <1>1
  <2> QED
    BY <1>0, <1>1, <2>1, SpacedLength DEF Files
<1>4. /\ media \in Nat /\ rows \in Nat /\ run \in Nat /\ rows <= media
      /\ run + 1 \notin dumped
  BY <1>1
<1> QED
  BY <1>0, <1>1, <1>2, <1>3, <1>4

\* ImagesKept in terms of positions.
HasArchive(dump, archives) ==
  \E j \in 1..Len(archives) : /\ archives[j].stamp = dump.stamp
                             /\ archives[j].complete
                             /\ archives[j].images >= dump.images

LEMMA ImagesKeptAt ==
  ASSUME DB_DIR \in Seq(File), MEDIA_DIR \in Seq(File)
  PROVE  ImagesKept <=> \A k \in 1..Len(DB_DIR) : DB_DIR[k].stamp \in archived
                                                 => HasArchive(DB_DIR[k], MEDIA_DIR)
<1>1. DOMAIN DB_DIR = 1..Len(DB_DIR) /\ DOMAIN MEDIA_DIR = 1..Len(MEDIA_DIR)
  OBVIOUS
<1> QED
  BY <1>1 DEF ImagesKept, HasArchive

LEMMA ImagesKeptNext ==
  DB_DIR' \in Seq(File) /\ MEDIA_DIR' \in Seq(File) =>
    (ImagesKept' <=> \A k \in 1..Len(DB_DIR') : DB_DIR'[k].stamp \in archived'
                                              => HasArchive(DB_DIR'[k], MEDIA_DIR'))
<1>1. (DB_DIR \in Seq(File) /\ MEDIA_DIR \in Seq(File) =>
         (ImagesKept <=> \A k \in 1..Len(DB_DIR) : DB_DIR[k].stamp \in archived
                                                => HasArchive(DB_DIR[k], MEDIA_DIR)))'
  BY ImagesKeptAt, PTL
<1> QED
  BY <1>1

\* A run that has begun has the newest dump: the last file of DB_DIR is its own.
LEMMA NewestIsRun ==
  ASSUME IInv, run > 0
  PROVE  /\ Len(DB_DIR) \in 1..Len(DB_DIR) /\ NewestDump \in File
         /\ NewestDump.stamp = run
<1>1. 0 < Len(DB_DIR) /\ DB_DIR[Len(DB_DIR) - 0].stamp = run - 0
  BY StateFacts DEF IInv, TailKept
<1> QED
  BY <1>1, StateFacts DEF NewestDump

\* Only its own last file has the stamp of the run.
LEMMA OnlyNewestIsRun ==
  ASSUME IInv, NEW k \in 1..Len(DB_DIR), k # Len(DB_DIR)
  PROVE  DB_DIR[k].stamp < run
<1>1. Len(DB_DIR) \in 1..Len(DB_DIR) /\ DB_DIR[k].stamp < DB_DIR[Len(DB_DIR)].stamp
  BY StateFacts, SpacedOrdered DEF Files
<1>2. DB_DIR[Len(DB_DIR)].stamp <= run /\ run \in Nat
  BY <1>1, StateFacts DEF Files, Within
<1>3. DB_DIR[k].stamp \in Nat /\ DB_DIR[Len(DB_DIR)].stamp \in Nat
  BY <1>1, StateFacts, FileType
<1> QED
  BY ONLY <1>1, <1>2, <1>3

LEMMA DataStep ==
  ASSUME IInv, StoreImage \/ CommitRow
  PROVE  IInv'
<1>1. UNCHANGED <<DB_DIR, MEDIA_DIR, run, step, dumped, archived>>
  BY DEF StoreImage, CommitRow
<1>2. rows <= rows' /\ media <= media' /\ media' \in 0..MaxImages /\ rows' \in 0..media'
  <2>1. media \in 0..MaxImages /\ rows \in 0..media
    BY DEF IInv, TypeOK
  <2> QED
    BY <2>1 DEF StoreImage, CommitRow
<1>3. RunAt'
  <2>1. step = "dump" => NewestDump.images \in Nat
    BY NewestIsRun DEF IInv, RunAt, File
  <2>2. step = "archive" => NewestArchive.images \in Nat
    BY FileType, StateFacts DEF IInv, RunAt, NewestArchive
  <2>3. /\ NewestDump' = NewestDump /\ NewestArchive' = NewestArchive
        /\ Within(MEDIA_DIR, run - 1)' = Within(MEDIA_DIR, run - 1)
    BY <1>1 DEF NewestDump, NewestArchive, Within
  <2>4. step = "dump" => NewestDump.images <= rows'
    BY <1>2, <2>1, StateFacts DEF IInv, RunAt, StoreImage, CommitRow
  <2>5. step = "archive" => NewestArchive.images <= media'
    BY <1>2, <2>2, StateFacts DEF IInv, RunAt, StoreImage, CommitRow
  <2> QED
    BY <1>1, <2>3, <2>4, <2>5 DEF IInv, RunAt
<1>4. TypeOK'
  BY <1>1, <1>2 DEF IInv, TypeOK
<1>5. Files' /\ TailKept' /\ RecoveryPoint' /\ ImagesKept'
  BY <1>1 DEF IInv, Files, Spaced, Within, TailKept, RecoveryPoint, ImagesKept
<1> QED
  BY <1>3, <1>4, <1>5 DEF IInv

LEMMA FailStep ==
  ASSUME IInv, Fail
  PROVE  IInv'
<1>1. /\ step' = "idle"
      /\ UNCHANGED <<media, rows, DB_DIR, MEDIA_DIR, run, dumped, archived>>
  BY DEF Fail
<1>2. TypeOK' /\ RunAt'
  BY <1>1 DEF IInv, TypeOK, RunAt
<1>3. Files' /\ TailKept' /\ RecoveryPoint' /\ ImagesKept'
  BY <1>1 DEF IInv, Files, Spaced, Within, TailKept, RecoveryPoint, ImagesKept
<1> QED
  BY <1>2, <1>3 DEF IInv

LEMMA StartDumpStep ==
  ASSUME IInv, StartDump
  PROVE  IInv'
<1> DEFINE x == Begun(run + 1, rows)
           n == Len(DB_DIR)
<1>0. /\ step = "idle" /\ step' = "dump" /\ run' = run + 1 /\ run < MaxRuns
      /\ DB_DIR' = Append(DB_DIR, x)
      /\ UNCHANGED <<media, rows, MEDIA_DIR, dumped, archived>>
  BY DEF StartDump
<1>1. x \in File /\ x.stamp = run + 1 /\ x.images = rows
  BY <1>0, StateFacts DEF Begun, File, TypeOK
<1> HIDE DEF x
<1>2. /\ DB_DIR' \in Seq(File) /\ Len(DB_DIR') = n + 1 /\ DB_DIR'[n + 1] = x
      /\ \A k \in 1..n : DB_DIR'[k] = DB_DIR[k]
      /\ Spaced(DB_DIR') /\ Within(DB_DIR', run + 1) /\ n \in Nat
  BY <1>0, <1>1, StateFacts, Added DEF Files
<1>3. Files'
  <2>1. Within(MEDIA_DIR, run + 1)
    BY StateFacts, FileType DEF Files, Within
  <2>2. Spaced(MEDIA_DIR)
    BY StateFacts DEF Files
  <2> QED
    BY <1>0, <1>2, <2>1, <2>2 DEF Files, Spaced, Within
<1>4. TypeOK'
  <2>1. run' \in 0..MaxRuns /\ dumped' \subseteq 1..run'
    <3>1. run \in Nat /\ run + 1 \in 0..MaxRuns /\ 1..run \subseteq 1..run + 1
      BY <1>0, StateFacts
    <3>2. dumped \subseteq 1..run
      BY StateFacts
    <3> QED
      BY <1>0, <3>1, <3>2
  <2>2. \A j, k \in DOMAIN DB_DIR' : j < k => DB_DIR'[j].stamp < DB_DIR'[k].stamp
    BY <1>2, StateFacts, SpacedOrdered
  <2> QED
    BY <1>0, <1>2, <2>1, <2>2 DEF IInv, TypeOK
<1>5. TailKept'
  <2> SUFFICES ASSUME NEW d \in 0..KEEP - 1, d < run + 1
               PROVE  d < n + 1 /\ DB_DIR'[(n + 1) - d].stamp = (run + 1) - d
    BY <1>0, <1>2 DEF TailKept
  <2>1. CASE d = 0
    BY <1>1, <1>2, <2>1, StateFacts
  <2>2. CASE d # 0
    <3>1. d - 1 \in 0..KEEP - 1 /\ d - 1 < run
      BY <2>2, StateFacts
    <3>2. d - 1 < n /\ DB_DIR[n - (d - 1)].stamp = run - (d - 1)
      BY <3>1 DEF IInv, TailKept
    <3>3. n - (d - 1) = (n + 1) - d /\ (n + 1) - d \in 1..n
      BY <1>2, <2>2, <3>2
    <3>4. run - (d - 1) = (run + 1) - d
      BY StateFacts
    <3> QED
      BY <1>2, <2>2, <3>2, <3>3, <3>4
  <2> QED
    BY <2>1, <2>2
<1>6. RunAt'
  <2>1. NewestDump' = x
    BY <1>2 DEF NewestDump
  <2>2. Within(MEDIA_DIR, run' - 1)
    BY <1>0, StateFacts DEF Files
  <2>3. run' > 0 /\ x.images <= rows
    BY <1>0, <1>1, StateFacts
  <2>4. Within(MEDIA_DIR, run - 1)'
    BY <1>0, <2>2 DEF Within
  <2> QED
    BY <1>0, <2>1, <2>3, <2>4 DEF RunAt
<1>7. RecoveryPoint'
  <2> SUFFICES ASSUME NEW s \in dumped
               PROVE  \E k \in DOMAIN DB_DIR' : DB_DIR'[k].complete /\ DB_DIR'[k].stamp >= s
    BY <1>0 DEF RecoveryPoint
  <2>1. PICK k \in 1..n : DB_DIR[k].complete /\ DB_DIR[k].stamp >= s
    BY StateFacts DEF IInv, RecoveryPoint
  <2> QED
    BY <1>2, <2>1
<1>8. ImagesKept'
  <2> SUFFICES ASSUME NEW k \in 1..n + 1, DB_DIR'[k].stamp \in archived
               PROVE  HasArchive(DB_DIR'[k], MEDIA_DIR)
    BY <1>0, <1>2, StateFacts, ImagesKeptNext
  <2>1. k # n + 1
    <3>1. run + 1 \notin archived
      BY StateFacts
    <3> QED
      BY <1>1, <1>2, <3>1
  <2>2. k \in 1..n /\ DB_DIR'[k] = DB_DIR[k]
    BY <1>2, <2>1
  <2> QED
    BY <2>2, StateFacts, ImagesKeptAt DEF IInv
<1> QED
  BY <1>3, <1>4, <1>5, <1>6, <1>7, <1>8 DEF IInv

LEMMA StartArchiveStep ==
  ASSUME IInv, StartArchive
  PROVE  IInv'
<1> DEFINE x == Begun(run, media)
           n == Len(DB_DIR)
           m == Len(MEDIA_DIR)
<1>0. /\ step = "dump" /\ step' = "archive"
      /\ DB_DIR' = Finished(DB_DIR) /\ dumped' = dumped \cup {run}
      /\ MEDIA_DIR' = Append(MEDIA_DIR, x)
      /\ UNCHANGED <<media, rows, run, archived>>
  BY DEF StartArchive
<1>a. /\ run > 0 /\ NewestDump.images <= rows /\ Within(MEDIA_DIR, run - 1)
      /\ run \in 1..MaxRuns /\ run - 1 \in Nat
  <2>1. run > 0 /\ NewestDump.images <= rows /\ Within(MEDIA_DIR, run - 1)
    BY <1>0 DEF IInv, RunAt
  <2>2. run \in 0..MaxRuns
    BY DEF IInv, TypeOK
  <2> QED
    BY <2>1, <2>2
<1>b. /\ n \in 1..n /\ NewestDump \in File /\ NewestDump.stamp = run
      /\ DB_DIR # << >>
  BY <1>a, NewestIsRun, StateFacts
<1>1. x \in File /\ x.stamp = run /\ x.images = media
  <2>1. media \in 0..MaxImages
    BY DEF IInv, TypeOK
  <2> QED
    BY <1>a, <2>1 DEF Begun, File
<1> HIDE DEF x
<1>2. /\ DB_DIR' \in Seq(File) /\ Len(DB_DIR') = n /\ n \in Nat
      /\ \A k \in 1..n : /\ DB_DIR'[k].stamp = DB_DIR[k].stamp
                         /\ DB_DIR'[k].images = DB_DIR[k].images
                         /\ DB_DIR[k].complete => DB_DIR'[k].complete
      /\ DB_DIR'[n].complete
  BY <1>0, <1>b, FinishedFile, StateFacts
<1>3. /\ MEDIA_DIR' \in Seq(File) /\ Len(MEDIA_DIR') = m + 1 /\ m \in Nat
      /\ MEDIA_DIR'[m + 1] = x /\ \A k \in 1..m : MEDIA_DIR'[k] = MEDIA_DIR[k]
      /\ Spaced(MEDIA_DIR') /\ Within(MEDIA_DIR', run)
  <2>1. (run - 1) + 1 = run
    BY <1>a
  <2>2. Spaced(MEDIA_DIR) /\ MEDIA_DIR \in Seq(File)
    BY StateFacts DEF Files
  <2> QED
    BY <1>0, <1>1, <1>a, <2>1, <2>2, Added
<1>4. Files'
  <2>1. Spaced(DB_DIR') /\ Within(DB_DIR', run)
    BY <1>2, SameStamps, StateFacts DEF Files
  <2> QED
    BY <1>0, <1>3, <2>1 DEF Files, Spaced, Within
<1>5. TypeOK'
  <2>1. /\ \A j, k \in DOMAIN DB_DIR' : j < k => DB_DIR'[j].stamp < DB_DIR'[k].stamp
        /\ \A j, k \in DOMAIN MEDIA_DIR' :
             j < k => MEDIA_DIR'[j].stamp < MEDIA_DIR'[k].stamp
    <3>1. Spaced(DB_DIR') /\ Within(DB_DIR', run)
      BY <1>2, SameStamps, StateFacts DEF Files
    <3> QED
      BY <1>2, <1>3, <3>1, StateFacts, SpacedOrdered
  <2>2. dumped' \subseteq 1..run
    BY <1>0, <1>a, StateFacts
  <2> QED
    BY <1>0, <1>2, <1>3, <2>1, <2>2 DEF IInv, TypeOK
<1>6. TailKept'
  <2> SUFFICES ASSUME NEW d \in 0..KEEP - 1, d < run
               PROVE  d < n /\ DB_DIR'[n - d].stamp = run - d
    BY <1>0, <1>2 DEF TailKept
  <2>1. d < n /\ DB_DIR[n - d].stamp = run - d
    BY DEF IInv, TailKept
  <2>2. n - d \in 1..n
    BY <1>2, <2>1
  <2> QED
    BY <1>2, <2>1, <2>2
<1>7. RunAt'
  <2>1. NewestDump' = DB_DIR'[n] /\ NewestArchive' = x
    BY <1>2, <1>3 DEF NewestDump, NewestArchive
  <2>2. DB_DIR'[n].images = NewestDump.images
    BY <1>2, <1>b DEF NewestDump
  <2>3. NewestDump.images \in Nat
    BY <1>b DEF File
  <2>4. NewestDump.images <= media
    BY <1>a, <2>3, StateFacts
  <2>5. MEDIA_DIR' # << >>
    BY <1>3
  <2>6. /\ run' > 0 /\ NewestDump'.complete /\ run' \in dumped'
        /\ NewestArchive'.stamp = run'
        /\ NewestDump'.images <= NewestArchive'.images
        /\ NewestArchive'.images <= media'
    BY <1>0, <1>1, <1>2, <1>a, <2>1, <2>2, <2>4, StateFacts
  <2> QED
    BY <1>0, <2>5, <2>6 DEF RunAt
<1>8. RecoveryPoint'
  <2> SUFFICES ASSUME NEW s \in dumped \cup {run}
               PROVE  \E k \in 1..n : DB_DIR'[k].complete /\ DB_DIR'[k].stamp >= s
    <3>1. DOMAIN DB_DIR' = 1..n
      BY <1>2, LenProperties
    <3>2. dumped' = dumped \cup {run}
      BY <1>0
    <3> QED
      BY <3>1, <3>2 DEF RecoveryPoint
  <2>1. DB_DIR'[n].stamp = run
    BY <1>2, <1>b DEF NewestDump
  <2>2. s \in Nat /\ s <= run
    BY <1>a, StateFacts
  <2> QED
    BY <1>2, <1>a, <1>b, <2>1, <2>2
<1>9. ImagesKept'
  <2> SUFFICES ASSUME NEW k \in 1..n, DB_DIR'[k].stamp \in archived
               PROVE  HasArchive(DB_DIR'[k], MEDIA_DIR')
    BY <1>0, <1>2, <1>3, ImagesKeptNext
  <2>1. HasArchive(DB_DIR[k], MEDIA_DIR)
    BY <1>2, StateFacts, ImagesKeptAt DEF IInv
  <2>2. PICK j \in 1..m : /\ MEDIA_DIR[j].stamp = DB_DIR[k].stamp
                          /\ MEDIA_DIR[j].complete
                          /\ MEDIA_DIR[j].images >= DB_DIR[k].images
    BY <2>1 DEF HasArchive
  <2>3. j \in 1..Len(MEDIA_DIR') /\ MEDIA_DIR'[j] = MEDIA_DIR[j]
    BY <1>3, <2>2
  <2> QED
    BY <1>2, <2>2, <2>3 DEF HasArchive
<1> QED
  BY <1>4, <1>5, <1>6, <1>7, <1>8, <1>9 DEF IInv

LEMMA FinishArchiveStep ==
  ASSUME IInv, FinishArchive
  PROVE  IInv'
<1> DEFINE m == Len(MEDIA_DIR)
<1>0. /\ step = "archive" /\ step' = "rotate DB" /\ archived' = archived \cup {run}
      /\ UNCHANGED <<media, rows, DB_DIR, run, dumped>>
  BY DEF FinishArchive
<1>1. PICK n \in NewestArchive.images..media :
        MEDIA_DIR' = [Finished(MEDIA_DIR) EXCEPT ![m].images = n]
  BY DEF FinishArchive, Last, NewestArchive
<1>2. /\ MEDIA_DIR # << >> /\ m \in 1..m /\ MEDIA_DIR[m] \in File
      /\ MEDIA_DIR[m].stamp = run /\ NewestDump.images <= MEDIA_DIR[m].images
      /\ NewestDump.complete /\ run \in dumped /\ run > 0
  <2>1. /\ MEDIA_DIR # << >> /\ MEDIA_DIR[m].stamp = run
        /\ NewestDump.images <= MEDIA_DIR[m].images
        /\ NewestDump.complete /\ run \in dumped /\ run > 0
    BY <1>0 DEF IInv, RunAt, NewestArchive
  <2>2. m \in 1..m
    BY <2>1, StateFacts
  <2> QED
    BY <2>1, <2>2, StateFacts
<1>3. n \in Nat /\ n \in 0..MaxImages /\ n >= NewestDump.images
  <2>1. media \in 0..MaxImages
    BY DEF IInv, TypeOK
  <2>2. MEDIA_DIR[m].images \in Nat /\ NewestDump.images \in Nat
    BY <1>2, NewestIsRun DEF File
  <2>3. n >= MEDIA_DIR[m].images /\ n <= media /\ n \in Nat
    BY <2>1, <2>2 DEF NewestArchive
  <2> QED
    BY <1>2, <2>1, <2>2, <2>3
<1>4. /\ MEDIA_DIR' \in Seq(File) /\ Len(MEDIA_DIR') = m /\ m \in Nat
      /\ \A k \in 1..m : /\ MEDIA_DIR'[k].stamp = MEDIA_DIR[k].stamp
                         /\ MEDIA_DIR[k].complete => MEDIA_DIR'[k].complete
                         /\ k # m => MEDIA_DIR'[k].images = MEDIA_DIR[k].images
      /\ MEDIA_DIR'[m].complete /\ MEDIA_DIR'[m].images = n
  <2> DEFINE g == Finished(MEDIA_DIR)
             x == [g[m] EXCEPT !.images = n]
  <2>1. /\ g \in Seq(File) /\ Len(g) = m
        /\ \A k \in 1..m : /\ g[k].stamp = MEDIA_DIR[k].stamp
                           /\ g[k].images = MEDIA_DIR[k].images
                           /\ MEDIA_DIR[k].complete => g[k].complete
        /\ g[m].complete
    BY <1>2, StateFacts, FinishedFile
  <2>2. MEDIA_DIR' = [g EXCEPT ![m] = x]
    BY <1>1
  <2> HIDE DEF g
  <2>3. /\ x \in File /\ x.stamp = g[m].stamp /\ x.images = n
        /\ x.complete = g[m].complete
    <3>1. g[m] \in File
      BY <1>2, <2>1
    <3> QED
      BY <1>3, <3>1, ImagesWritten
  <2> HIDE DEF x
  <2>4. /\ MEDIA_DIR' \in Seq(File) /\ Len(MEDIA_DIR') = m /\ MEDIA_DIR'[m] = x
        /\ \A k \in 1..m : k # m => MEDIA_DIR'[k] = g[k]
    BY <1>2, <2>1, <2>2, <2>3, LastWritten
  <2>5. m \in Nat
    BY StateFacts
  <2> QED
    BY <1>2, <2>1, <2>3, <2>4, <2>5
<1>5. Files'
  <2>1. Spaced(MEDIA_DIR') /\ Within(MEDIA_DIR', run)
    BY <1>4, SameStamps, StateFacts DEF Files
  <2> QED
    BY <1>0, <2>1, StateFacts DEF Files, Spaced, Within
<1>6. TypeOK'
  <2>1. \A j, k \in DOMAIN MEDIA_DIR' : j < k => MEDIA_DIR'[j].stamp < MEDIA_DIR'[k].stamp
    <3>1. Spaced(MEDIA_DIR')
      BY <1>4, SameStamps, StateFacts DEF Files
    <3> QED
      BY <1>4, <3>1, SpacedOrdered
  <2>2. archived' \subseteq dumped
    BY <1>0, <1>2, StateFacts
  <2> QED
    BY <1>0, <1>4, <2>1, <2>2 DEF IInv, TypeOK
<1>7. TailKept' /\ RecoveryPoint'
  BY <1>0 DEF IInv, TailKept, RecoveryPoint
<1>8. RunAt'
  BY <1>0, <1>2 DEF RunAt, NewestDump
<1>9. ImagesKept'
  <2> SUFFICES ASSUME NEW k \in 1..Len(DB_DIR), DB_DIR[k].stamp \in archived \cup {run}
               PROVE  HasArchive(DB_DIR[k], MEDIA_DIR')
    BY <1>0, <1>4, StateFacts, ImagesKeptNext
  <2>1. CASE k = Len(DB_DIR)
    <3>1. DB_DIR[k] = NewestDump /\ NewestDump.stamp = run
      BY <1>2, <2>1, NewestIsRun DEF NewestDump
    <3>2. m \in 1..Len(MEDIA_DIR') /\ MEDIA_DIR'[m].stamp = run
      BY <1>2, <1>4
    <3> QED
      BY <1>3, <1>4, <3>1, <3>2 DEF HasArchive
  <2>2. CASE k # Len(DB_DIR)
    <3>1. DB_DIR[k].stamp < run /\ DB_DIR[k].stamp \in Nat /\ run \in Nat
      BY <2>2, OnlyNewestIsRun, StateFacts, FileType
    <3>2. HasArchive(DB_DIR[k], MEDIA_DIR)
      BY <3>1, StateFacts, ImagesKeptAt DEF IInv
    <3>3. PICK j \in 1..m : /\ MEDIA_DIR[j].stamp = DB_DIR[k].stamp
                            /\ MEDIA_DIR[j].complete
                            /\ MEDIA_DIR[j].images >= DB_DIR[k].images
      BY <3>2 DEF HasArchive
    <3>4. j # m
      BY <1>2, <3>1, <3>3
    <3>5. /\ j \in 1..Len(MEDIA_DIR') /\ MEDIA_DIR'[j].stamp = DB_DIR[k].stamp
          /\ MEDIA_DIR'[j].complete /\ MEDIA_DIR'[j].images >= DB_DIR[k].images
      BY <1>4, <3>3, <3>4
    <3> QED
      BY <3>5 DEF HasArchive
  <2> QED
    BY <2>1, <2>2
<1> QED
  BY <1>5, <1>6, <1>7, <1>8, <1>9 DEF IInv

\* The dump that goes has KEEP newer ones, the last of which is complete.
LEMMA RotateDBStep ==
  ASSUME IInv, RotateDB
  PROVE  IInv'
<1> DEFINE n == Len(DB_DIR)
           i == n - KEEP
<1>0. /\ step = "rotate DB"
      /\ UNCHANGED <<media, rows, MEDIA_DIR, run, dumped, archived>>
  BY DEF RotateDB
<1>k. n \in Nat /\ KEEP \in Nat /\ KEEP > 0
  BY StateFacts
<1>1. CASE i > 0
  <2>1. DB_DIR' = RemoveAt(DB_DIR, i) /\ step' = step /\ i \in 1..n /\ i < n
    <3>1. i \in 1..n /\ i < n
      BY <1>k, <1>1
    <3>2. DB_DIR' = RemoveAt(DB_DIR, i) /\ step' = step
      BY <1>1 DEF RotateDB, Excess
    <3> QED
      BY <3>1, <3>2
  <2>2. /\ DB_DIR' \in Seq(File) /\ Len(DB_DIR') = n - 1
        /\ \A k \in 1..n - 1 : DB_DIR'[k] = IF k < i THEN DB_DIR[k] ELSE DB_DIR[k + 1]
        /\ Spaced(DB_DIR') /\ Within(DB_DIR', run)
    <3>1. Spaced(DB_DIR) /\ Within(DB_DIR, run)
      BY StateFacts DEF Files
    <3>2. /\ RemoveAt(DB_DIR, i) \in Seq(File) /\ Len(RemoveAt(DB_DIR, i)) = n - 1
          /\ \A k \in 1..n - 1 :
               RemoveAt(DB_DIR, i)[k] = IF k < i THEN DB_DIR[k] ELSE DB_DIR[k + 1]
      BY <2>1, StateFacts, Removed
    <3>3. Spaced(RemoveAt(DB_DIR, i)) /\ Within(RemoveAt(DB_DIR, i), run)
      BY <2>1, <3>1, StateFacts, RemovedSpaced
    <3> QED
      BY <2>1, <3>2, <3>3
  <2> HIDE DEF i
  <2>3. n - 1 \in 1..n - 1 /\ DB_DIR'[n - 1] = DB_DIR[n]
    <3>1. n - 1 \in 1..n - 1 /\ ~(n - 1 < i) /\ (n - 1) + 1 = n
      BY <1>k, <2>1
    <3> QED
      BY <2>2, <3>1
  <2>4. /\ DB_DIR[n].complete /\ run \in dumped /\ run > 0 /\ DB_DIR[n].stamp = run
    BY <1>0, NewestIsRun DEF IInv, RunAt, NewestDump
  <2>5. Files'
    BY <1>0, <2>2, StateFacts DEF Files, Spaced, Within
  <2>6. TypeOK'
    <3>1. \A j, k \in DOMAIN DB_DIR' : j < k => DB_DIR'[j].stamp < DB_DIR'[k].stamp
      BY <2>2, SpacedOrdered
    <3> QED
      BY <1>0, <2>1, <2>2, <3>1 DEF IInv, TypeOK
  <2>7. TailKept'
    <3> SUFFICES ASSUME NEW d \in 0..KEEP - 1, d < run
                 PROVE  d < n - 1 /\ DB_DIR'[(n - 1) - d].stamp = run - d
      BY <1>0, <2>2 DEF TailKept
    <3>1. DB_DIR[n - d].stamp = run - d
      BY DEF IInv, TailKept
    <3>2. i = n - KEEP
      BY DEF i
    <3>3. d <= KEEP - 1 /\ d \in Nat /\ i >= 1 /\ i \in Nat
      BY <1>k, <2>1
    <3>4. /\ d < n - 1 /\ (n - 1) - d \in 1..n - 1 /\ ~((n - 1) - d < i)
          /\ ((n - 1) - d) + 1 = n - d
      BY <1>k, <3>2, <3>3
    <3> QED
      BY <2>2, <3>1, <3>4
  <2>8. RunAt'
    <3>1. NewestDump' = DB_DIR[n]
      BY <2>2, <2>3 DEF NewestDump
    <3> QED
      BY <1>0, <2>1, <2>4, <3>1 DEF RunAt
  <2>9. RecoveryPoint'
    <3> SUFFICES ASSUME NEW s \in dumped
                 PROVE  \E k \in 1..n - 1 : DB_DIR'[k].complete /\ DB_DIR'[k].stamp >= s
      <4>1. DOMAIN DB_DIR' = 1..n - 1
        BY <2>2
      <4> QED
        BY <1>0, <4>1 DEF RecoveryPoint
    <3>1. run >= s
      BY StateFacts
    <3> QED
      BY <2>3, <2>4, <3>1
  <2>10. ImagesKept'
    <3> SUFFICES ASSUME NEW k \in 1..n - 1, DB_DIR'[k].stamp \in archived
                 PROVE  HasArchive(DB_DIR'[k], MEDIA_DIR)
      BY <1>0, <2>2, StateFacts, ImagesKeptNext
    <3>1. PICK j \in 1..n : DB_DIR'[k] = DB_DIR[j]
      <4>1. k \in 1..n /\ k + 1 \in 1..n
        BY <1>k
      <4> QED
        BY <2>2, <4>1
    <3> QED
      BY <3>1, StateFacts, ImagesKeptAt DEF IInv
  <2> QED
    BY <2>5, <2>6, <2>7, <2>8, <2>9, <2>10 DEF IInv
<1>2. CASE ~(i > 0)
  <2>1. step' = "rotate media" /\ DB_DIR' = DB_DIR
    BY <1>2 DEF RotateDB, Excess
  <2>a. n <= KEEP
    BY <1>k, <1>2
  <2>2. TypeOK' /\ TailKept' /\ RecoveryPoint'
    BY <1>0, <2>1 DEF IInv, TypeOK, TailKept, RecoveryPoint
  <2>3. Files' /\ ImagesKept'
    BY <1>0, <2>1 DEF IInv, Files, Spaced, Within, ImagesKept
  <2>4. RunAt'
    BY <1>0, <2>1, <2>a DEF IInv, RunAt, NewestDump
  <2> QED
    BY <2>2, <2>3, <2>4 DEF IInv
<1> QED
  BY <1>1, <1>2

\* The archive that goes has KEEP newer ones, so its run is not one of the last
\* KEEP; and of those are all dumps, once their directory was rotated.
LEMMA RotateMediaStep ==
  ASSUME IInv, RotateMedia
  PROVE  IInv'
<1> DEFINE n == Len(DB_DIR)
           m == Len(MEDIA_DIR)
           i == m - KEEP
<1>0. /\ step = "rotate media"
      /\ UNCHANGED <<media, rows, DB_DIR, run, dumped, archived>>
  BY DEF RotateMedia
<1>k. n \in Nat /\ m \in Nat /\ KEEP \in Nat /\ KEEP > 0 /\ run \in Nat
  BY StateFacts
<1>t. TailKept' /\ RecoveryPoint'
  BY <1>0 DEF IInv, TailKept, RecoveryPoint
<1>1. CASE i > 0
  <2>1. i \in 1..m
    BY <1>k, <1>1
  <2>2. MEDIA_DIR' = RemoveAt(MEDIA_DIR, i) /\ step' = step
    BY <1>1 DEF RotateMedia, Excess
  <2>3. Spaced(MEDIA_DIR) /\ Within(MEDIA_DIR, run) /\ MEDIA_DIR \in Seq(File)
    BY StateFacts DEF Files
  <2>4. /\ MEDIA_DIR' \in Seq(File) /\ Len(MEDIA_DIR') = m - 1
        /\ \A k \in 1..m - 1 :
             MEDIA_DIR'[k] = IF k < i THEN MEDIA_DIR[k] ELSE MEDIA_DIR[k + 1]
        /\ Spaced(MEDIA_DIR') /\ Within(MEDIA_DIR', run)
    <3>1. /\ RemoveAt(MEDIA_DIR, i) \in Seq(File) /\ Len(RemoveAt(MEDIA_DIR, i)) = m - 1
          /\ \A k \in 1..m - 1 :
               RemoveAt(MEDIA_DIR, i)[k] = IF k < i THEN MEDIA_DIR[k] ELSE MEDIA_DIR[k + 1]
      BY <2>1, <2>3, Removed
    <3>2. Spaced(RemoveAt(MEDIA_DIR, i)) /\ Within(RemoveAt(MEDIA_DIR, i), run)
      BY <1>k, <2>1, <2>3, RemovedSpaced
    <3> QED
      BY <2>2, <3>1, <3>2
  <2>5. MEDIA_DIR[i].stamp <= run - KEEP
    <3>1. MEDIA_DIR[i].stamp <= run - (m - i)
      BY <1>k, <2>1, <2>3, SpacedFromLast
    <3>2. m - i = KEEP
      BY <1>k
    <3> HIDE DEF i
    <3> QED
      BY <3>1, <3>2
  <2>6. ASSUME NEW k \in 1..n
        PROVE  DB_DIR[k].stamp > run - KEEP
    <3>1. n <= KEEP /\ n <= run
      BY <1>0, StateFacts DEF IInv, RunAt
    <3>2. n - k \in 0..KEEP - 1 /\ n - k < run
      BY <1>k, <3>1
    <3>a. n - (n - k) = k
      BY <1>k
    <3>3. DB_DIR[k].stamp = run - (n - k)
      <4>1. \A d \in 0..KEEP - 1 : d < run => DB_DIR[n - d].stamp = run - d
        BY DEF IInv, TailKept
      <4> QED
        BY <3>2, <3>a, <4>1
    <3> QED
      BY <1>k, <3>1, <3>2, <3>3
  <2> HIDE DEF i
  <2>7. Files'
    BY <1>0, <2>4, StateFacts DEF Files, Spaced, Within
  <2>8. TypeOK'
    <3>1. \A j, k \in DOMAIN MEDIA_DIR' : j < k => MEDIA_DIR'[j].stamp < MEDIA_DIR'[k].stamp
      BY <2>4, SpacedOrdered
    <3> QED
      BY <1>0, <2>2, <2>4, <3>1 DEF IInv, TypeOK
  <2>9. RunAt'
    BY <1>0, <2>2 DEF IInv, RunAt, NewestDump
  <2>10. ImagesKept'
    <3> SUFFICES ASSUME NEW k \in 1..n, DB_DIR[k].stamp \in archived
                 PROVE  HasArchive(DB_DIR[k], MEDIA_DIR')
      BY <1>0, <2>4, StateFacts, ImagesKeptNext
    <3>1. HasArchive(DB_DIR[k], MEDIA_DIR)
      BY StateFacts, ImagesKeptAt DEF IInv
    <3>2. PICK j \in 1..m : /\ MEDIA_DIR[j].stamp = DB_DIR[k].stamp
                            /\ MEDIA_DIR[j].complete
                            /\ MEDIA_DIR[j].images >= DB_DIR[k].images
      BY <3>1 DEF HasArchive
    <3>3. j # i
      <4>1. /\ DB_DIR[k].stamp \in Nat /\ DB_DIR[k].stamp > run - KEEP
            /\ run - KEEP \in Int
        BY <1>k, <2>6, StateFacts, FileType
      <4> QED
        BY <2>5, <3>2, <4>1
    <3>4. CASE j < i
      <4>1. j \in 1..m - 1
        BY <1>k, <2>1, <3>4
      <4>2. MEDIA_DIR'[j] = MEDIA_DIR[j] /\ j \in 1..Len(MEDIA_DIR')
        BY <2>4, <3>4, <4>1
      <4> QED
        BY <3>2, <4>2 DEF HasArchive
    <3>5. CASE i < j
      <4>1. j - 1 \in 1..m - 1 /\ ~(j - 1 < i) /\ (j - 1) + 1 = j
        BY <1>k, <2>1, <3>5
      <4>2. MEDIA_DIR'[j - 1] = MEDIA_DIR[j] /\ j - 1 \in 1..Len(MEDIA_DIR')
        BY <2>4, <4>1
      <4> QED
        BY <3>2, <4>2 DEF HasArchive
    <3> QED
      BY <1>k, <2>1, <3>3, <3>4, <3>5
  <2> QED
    BY <1>t, <2>7, <2>8, <2>9, <2>10 DEF IInv
<1>2. CASE ~(i > 0)
  <2>1. step' = "idle" /\ MEDIA_DIR' = MEDIA_DIR
    BY <1>2 DEF RotateMedia, Excess
  <2>2. TypeOK' /\ RunAt'
    BY <1>0, <2>1 DEF IInv, TypeOK, RunAt
  <2>3. Files' /\ ImagesKept'
    BY <1>0, <2>1 DEF IInv, Files, Spaced, Within, ImagesKept
  <2> QED
    BY <1>t, <2>2, <2>3 DEF IInv
<1> QED
  BY <1>1, <1>2

LEMMA IStep == IInv /\ [Next]_vars => IInv'
<1> SUFFICES ASSUME IInv, [Next]_vars PROVE IInv'
  OBVIOUS
<1>1. CASE UNCHANGED vars
  <2>1. TypeOK' /\ RunAt' /\ TailKept' /\ RecoveryPoint'
    BY <1>1 DEF vars, IInv, TypeOK, RunAt, NewestDump, NewestArchive, Within, TailKept,
                RecoveryPoint
  <2>2. Files' /\ ImagesKept'
    BY <1>1 DEF vars, IInv, Files, Spaced, Within, ImagesKept
  <2> QED
    BY <2>1, <2>2 DEF IInv
<1> QED
  BY <1>1, DataStep, StartDumpStep, StartArchiveStep, FinishArchiveStep, RotateDBStep,
     RotateMediaStep, FailStep
  DEF Next, Script

\* The invariant holds: kept by every step of the script, wherever it fails, and of the
\* program that goes on meanwhile.
THEOREM Invariance == Spec => []IInv
<1> QED
  BY IInit, IStep, PTL DEF Spec

\* Every value stays in its range, and the files in a directory are in the order of
\* the runs that made them.
THEOREM TypeCorrect == Spec => []TypeOK
<1> QED
  BY Invariance, PTL DEF IInv

\* Once a dump was finished, one no older can always be restored.
THEOREM RecoveryPointAlways == Spec => []RecoveryPoint
<1> QED
  BY Invariance, PTL DEF IInv

\* The dumps of the last KEEP runs are on the disk.
THEOREM LastAlwaysKept == Spec => []LastKept
<1>1. IInv => LastKept
  <2> SUFFICES ASSUME IInv, NEW s \in run - KEEP + 1..run, s > 0
               PROVE  \E k \in DOMAIN DB_DIR : DB_DIR[k].stamp = s
    BY DEF LastKept
  <2>1. run - s \in 0..KEEP - 1 /\ run - s < run /\ run - (run - s) = s
    BY StateFacts
  <2>2. /\ run - s < Len(DB_DIR)
        /\ DB_DIR[Len(DB_DIR) - (run - s)].stamp = s
    BY <2>1 DEF IInv, TailKept
  <2>3. Len(DB_DIR) - (run - s) \in 1..Len(DB_DIR)
    BY <2>1, <2>2, StateFacts
  <2> QED
    BY <2>2, <2>3, StateFacts
<1> QED
  BY <1>1, Invariance, PTL

\* A dump whose run archived the images finds them all in an archive that is kept.
THEOREM ImagesAlwaysKept == Spec => []ImagesKept
<1> QED
  BY Invariance, PTL DEF IInv
=============================================================================
