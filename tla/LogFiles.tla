------------------------------ MODULE LogFiles ------------------------------
(***************************************************************************)
(* The directory of day files as its four users share it: the sensor that  *)
(* appends to it (eventlog.py), the rotation that compresses and deletes   *)
(* (scripts/rotate_logs.py), the export that publishes finished days       *)
(* (scripts/export_r2.py), and a reader of the whole log (read_events()).  *)
(* They are processes of their own, started by timers or by hand, and any  *)
(* of them may die between two of its steps.  Rotation and export never    *)
(* run twice at a time: each is a oneshot unit.                            *)
(*                                                                         *)
(* One stream of files; line i of a day is the i-th the sensor wrote to    *)
(* it.  How EventLog gets a line into a file is its own business.          *)
(***************************************************************************)
EXTENDS Integers, FiniteSets

CONSTANTS
  TicksPerDay,    \* clock ticks a day has
  Delay,          \* how long after its stamp the sensor may still write a line
  Lag,            \* --lag-minutes
  CompressAfter,  \* --compress-after, in days; negative: never
  DeleteAfter,    \* --delete-after, in days; negative: never
  LastTick,       \* bound: the clock shows 0..LastTick
  LastDay,        \* bound: days on which the sensor writes
  MaxLines,       \* bound: lines of all days together
  MaxDeaths       \* bound: rotations and exports that die

ASSUME ConstantsOK ==
  /\ TicksPerDay \in Nat \ {0}
  /\ Delay \in Nat /\ Lag \in Nat
  /\ CompressAfter \in Int /\ DeleteAfter \in Int
  /\ LastTick \in Nat /\ LastDay \in Nat
  /\ MaxLines \in Nat /\ MaxDeaths \in Nat

(* What the timers rely on: a late line comes neither after the lag nor    *)
(* when its day is old enough to be compressed or deleted.                 *)
ASSUME LateLinesFit ==
  /\ Delay <= Lag
  /\ CompressAfter >= 0 => TicksPerDay + Delay <= CompressAfter * TicksPerDay
  /\ DeleteAfter >= 0 => Delay <= DeleteAfter * TicksPerDay

NoDay == -1
Days == 0..LastDay
Paths == Days \X {"jsonl", "gz"}
Plain(d) == <<d, "jsonl">>
Gz(d) == <<d, "gz">>

VARIABLES
  now,          \* the clock
  written,      \* history: how many lines of each day the sensor has written
  files,        \* the paths that exist
  lines,        \* lines[p]: the lines in the file p
  cut,          \* the .gz files without their end, which raise when read
  open,         \* the day of the sensor's handle, or NoDay
  orphan,       \* that handle's file has been unlinked
  rot,          \* rotation: "idle", "deleting", "compressing", "copying", "copied"
  rotDelete,    \* the paths of to_delete still to go
  rotCompress,  \* the paths of to_compress still to go
  ex,           \* export: "idle", "labelling", "converting", "uploading", "listing"
  exTodo,       \* the paths it still has to publish
  exLabelled,   \* the lines its first pass over a file saw
  exLines,      \* the lines its second pass converted
  bucket,       \* the published objects, by day
  manifest,     \* the digest the published manifest gives, by day
  rd,           \* reader: "idle", "reading", "done"
  rdTodo,       \* the paths it still has to read
  rdSeen,       \* rdSeen[d]: the lines it has yielded
  rdStart,      \* history: `written` when it listed the directory
  deaths        \* how many rotations and exports have died

fileVars == <<files, lines, cut>>
sensorVars == <<written, open, orphan>>
rotVars == <<rot, rotDelete, rotCompress>>
exVars == <<ex, exTodo, exLabelled, exLines>>
storeVars == <<bucket, manifest>>
rdVars == <<rd, rdTodo, rdSeen, rdStart>>
vars == <<now, fileVars, sensorVars, rotVars, exVars, storeVars, rdVars, deaths>>

Today == now \div TicksPerDay
Age(d) == Today - d
Expired(d) == DeleteAfter >= 0 /\ Age(d) > DeleteAfter
Finished(d) == (d + 1) * TicksPerDay + Lag <= now
All(d) == 1..written[d]
Logged == {l \in Days \X (1..MaxLines) : l[2] <= written[l[1]]}

(* Directory listings are sorted by name: by day, and "x.jsonl" comes      *)
(* before "x.jsonl.gz".                                                    *)
Before(p, q) == p[1] < q[1] \/ (p[1] = q[1] /\ p[2] = "jsonl" /\ q[2] = "gz")
Leads(p, paths) == p \in paths /\ \A q \in paths \ {p} : Before(p, q)

Init ==
  /\ now = 0 /\ deaths = 0
  /\ files = {} /\ lines = [p \in Paths |-> {}] /\ cut = {}
  /\ written = [d \in Days |-> 0] /\ open = NoDay /\ orphan = FALSE
  /\ rot = "idle" /\ rotDelete = {} /\ rotCompress = {}
  /\ ex = "idle" /\ exTodo = {} /\ exLabelled = {} /\ exLines = {}
  /\ bucket = <<>> /\ manifest = <<>>
  /\ rd = "idle" /\ rdTodo = {} /\ rdSeen = [d \in Days |-> {}]
  /\ rdStart = [d \in Days |-> 0]

Tick ==
  /\ now < LastTick
  /\ now' = now + 1
  /\ UNCHANGED <<fileVars, sensorVars, rotVars, exVars, storeVars, rdVars, deaths>>

-----------------------------------------------------------------------------
(* The sensor: a line stamped d goes to the handle of day d, which is      *)
(* opened for appending if another day's, or none, is open.                *)

SensorWrites(d) ==
  /\ Cardinality(Logged) < MaxLines
  /\ d * TicksPerDay <= now /\ now < (d + 1) * TicksPerDay + Delay
  /\ written' = [written EXCEPT ![d] = @ + 1]
  /\ IF open = d /\ orphan
     THEN UNCHANGED <<fileVars, open, orphan>>
     ELSE /\ open' = d /\ orphan' = FALSE
          /\ files' = files \union {Plain(d)}
          /\ lines' = [lines EXCEPT ![Plain(d)] =
                          (IF Plain(d) \in files THEN @ ELSE {}) \union {written'[d]}]
          /\ UNCHANGED cut
  /\ UNCHANGED <<now, rotVars, exVars, storeVars, rdVars, deaths>>

SensorRestarts ==
  /\ open # NoDay
  /\ open' = NoDay /\ orphan' = FALSE
  /\ UNCHANGED <<now, written, fileVars, rotVars, exVars, storeVars, rdVars, deaths>>

-----------------------------------------------------------------------------
(* Rotation: plan(), the deletions, then the compressions.                 *)

rotOnly == UNCHANGED <<now, written, open, exVars, storeVars, rdVars, deaths>>

Unlink(p) ==
  /\ files' = files \ {p}
  /\ orphan' = (orphan \/ p = Plain(open))

RotPlan ==
  /\ rot = "idle"
  /\ rotDelete' = {p \in files : Expired(p[1])}
  /\ rotCompress' = {p \in files : /\ p[2] = "jsonl" /\ ~Expired(p[1])
                                   /\ CompressAfter >= 0 /\ Age(p[1]) >= CompressAfter}
  /\ rotDelete' # {} \/ rotCompress' # {}
  /\ rot' = "deleting"
  /\ UNCHANGED <<fileVars, orphan>> /\ rotOnly

RotDelete ==
  /\ rot = "deleting"
  /\ \E p \in rotDelete :
       /\ Leads(p, rotDelete)
       /\ Unlink(p)
       /\ rotDelete' = rotDelete \ {p}
       /\ cut' = IF p[2] = "gz" THEN cut \ {p[1]} ELSE cut
  /\ UNCHANGED <<lines, rot, rotCompress>> /\ rotOnly

RotDeleted ==
  /\ rot = "deleting" /\ rotDelete = {}
  /\ rot' = IF rotCompress = {} THEN "idle" ELSE "compressing"
  /\ UNCHANGED <<fileVars, orphan, rotDelete, rotCompress>> /\ rotOnly

\* Mutation: the file is renamed first and compressed afterwards.
RotMovesFirst ==
  /\ rot = "compressing"
  /\ \E p \in rotCompress :
       /\ Leads(p, rotCompress)
       /\ files' = (files \ {p}) \union {Gz(p[1])}
       /\ orphan' = (orphan \/ p = Plain(open))
       /\ cut' = cut \union {p[1]}
       /\ lines' = [lines EXCEPT ![Gz(p[1])] = {}]
  /\ rot' = "copying"
  /\ UNCHANGED <<rotDelete, rotCompress>> /\ rotOnly

(* _compress(): gzip.open(gz, "wb") empties what a run that died has left. *)
RotOpens ==
  /\ rot = "compressing"
  /\ \E p \in rotCompress :
       /\ Leads(p, rotCompress)
       /\ files' = files \union {Gz(p[1])}
       /\ cut' = cut \union {p[1]}
       /\ lines' = [lines EXCEPT ![Gz(p[1])] = {}]
  /\ rot' = "copying"
  /\ UNCHANGED <<orphan, rotDelete, rotCompress>> /\ rotOnly

RotCopies ==
  /\ rot = "copying"
  /\ \E p \in rotCompress :
       /\ Leads(p, rotCompress)
       /\ lines' = [lines EXCEPT ![Gz(p[1])] = lines[p]]
       /\ cut' = cut \ {p[1]}
  /\ rot' = "copied"
  /\ UNCHANGED <<files, orphan, rotDelete, rotCompress>> /\ rotOnly

RotUnlinks ==
  /\ rot = "copied"
  /\ \E p \in rotCompress :
       /\ Leads(p, rotCompress)
       /\ Unlink(p)
       /\ rotCompress' = rotCompress \ {p}
  /\ rot' = IF rotCompress' = {} THEN "idle" ELSE "compressing"
  /\ UNCHANGED <<lines, cut, rotDelete>> /\ rotOnly

RotDies ==
  /\ rot # "idle" /\ deaths < MaxDeaths
  /\ deaths' = deaths + 1
  /\ rot' = "idle" /\ rotDelete' = {} /\ rotCompress' = {}
  /\ UNCHANGED <<now, fileVars, sensorVars, exVars, storeVars, rdVars>>

RotStep == RotPlan \/ RotDelete \/ RotDeleted \/ RotOpens \/ RotCopies \/ RotUnlinks

-----------------------------------------------------------------------------
(* Reading a file: what the open and the read yield, or why they raise.  A *)
(* .gz that is still empty reads as a file without lines.                  *)

Readable(p) == p \in files /\ (p[2] = "gz" => p[1] \notin cut)
Reading(p) == IF Readable(p) THEN {lines[p]} ELSE IF p \in files THEN {{}} ELSE {}
ReadRaises(p) == ~Readable(p)

-----------------------------------------------------------------------------
(* Export: run().                                                          *)

exOnly == UNCHANGED <<now, fileVars, sensorVars, rotVars, rdVars>>
ExAborts == ex' = "idle" /\ exTodo' = {} /\ exLabelled' = {} /\ exLines' = {}

\* Mutation: the .gz of a day wins, being the later of the two names.
GzDayFiles == {p \in files : p[2] = "gz" \/ Gz(p[1]) \notin files}

(* day_files(): a plain file wins over the .gz of its day.                 *)
DayFiles == {p \in files : p[2] = "jsonl" \/ Plain(p[1]) \notin files}

\* Mutation: a day counts as done when its object is there.
ExStartsByObject ==
  /\ ex = "idle"
  /\ exTodo' = {p \in DayFiles : Finished(p[1]) /\ p[1] \notin DOMAIN bucket}
  /\ exTodo' # {}
  /\ ex' = "labelling"
  /\ UNCHANGED <<exLabelled, exLines, storeVars, deaths>> /\ exOnly

\* Mutation: the lag is forgotten.
ExStartsAtMidnight ==
  /\ ex = "idle"
  /\ exTodo' = {p \in DayFiles : p[1] < Today /\ p[1] \notin DOMAIN manifest}
  /\ exTodo' # {}
  /\ ex' = "labelling"
  /\ UNCHANGED <<exLabelled, exLines, storeVars, deaths>> /\ exOnly

ExStarts ==
  /\ ex = "idle"
  /\ exTodo' = {p \in DayFiles : Finished(p[1]) /\ p[1] \notin DOMAIN manifest}
  /\ exTodo' # {}
  /\ ex' = "labelling"
  /\ UNCHANGED <<exLabelled, exLines, storeVars, deaths>> /\ exOnly

(* export_day() goes over the file twice: for the labels of the attacks,   *)
(* then to convert.  An exception in it ends the run.                      *)
ExLabels ==
  /\ ex = "labelling"
  /\ \E p \in exTodo : Leads(p, exTodo) /\
       \/ /\ exLabelled' \in Reading(p)
          /\ ex' = "converting"
          /\ UNCHANGED <<exTodo, exLines>>
       \/ ReadRaises(p) /\ ExAborts
  /\ UNCHANGED <<storeVars, deaths>> /\ exOnly

ExConverts ==
  /\ ex = "converting"
  /\ \E p \in exTodo : Leads(p, exTodo) /\
       \/ /\ exLines' \in Reading(p)
          /\ ex' = "uploading"
          /\ UNCHANGED <<exTodo, exLabelled>>
       \/ ReadRaises(p) /\ ExAborts
  /\ UNCHANGED <<storeVars, deaths>> /\ exOnly

Put(f, d, v) == [e \in DOMAIN f \union {d} |-> IF e = d THEN v ELSE f[e]]

ExUploads ==
  /\ ex = "uploading"
  /\ \E p \in exTodo :
       /\ Leads(p, exTodo)
       /\ bucket' = Put(bucket, p[1], [lines |-> exLines, labelled |-> exLabelled])
  /\ ex' = "listing"
  /\ UNCHANGED <<exTodo, exLabelled, exLines, manifest, deaths>> /\ exOnly

ExLists ==
  /\ ex = "listing"
  /\ \E p \in exTodo :
       /\ Leads(p, exTodo)
       /\ manifest' = Put(manifest, p[1], exLines)
       /\ exTodo' = exTodo \ {p}
  /\ exLabelled' = {} /\ exLines' = {}
  /\ ex' = IF exTodo' = {} THEN "idle" ELSE "labelling"
  /\ UNCHANGED <<bucket, deaths>> /\ exOnly

(* Killed, or put() raises, before or after it took effect.                *)
ExDies ==
  /\ ex # "idle" /\ deaths < MaxDeaths
  /\ deaths' = deaths + 1
  /\ ExAborts
  /\ UNCHANGED storeVars /\ exOnly

ExStep == ExStarts \/ ExLabels \/ ExConverts \/ ExUploads \/ ExLists

-----------------------------------------------------------------------------
(* read_events(): one listing, then file by file.                          *)

rdOnly == UNCHANGED <<now, fileVars, sensorVars, rotVars, exVars, storeVars, deaths>>

\* Mutation: only "*.jsonl" is listed.
RdListsPlain ==
  /\ rd = "idle"
  /\ rd' = "reading"
  /\ rdTodo' = {p \in files : p[2] = "jsonl"}
  /\ rdStart' = written
  /\ UNCHANGED rdSeen /\ rdOnly

RdLists ==
  /\ rd = "idle"
  /\ rd' = "reading"
  /\ rdTodo' = files
  /\ rdStart' = written
  /\ UNCHANGED rdSeen /\ rdOnly

RdReads ==
  /\ rd = "reading"
  /\ \E p \in rdTodo : Leads(p, rdTodo) /\
       \/ /\ \E content \in Reading(p) :
               rdSeen' = [rdSeen EXCEPT ![p[1]] = @ \union content]
          /\ rdTodo' = rdTodo \ {p}
          /\ UNCHANGED <<rd, rdStart>>
       \/ /\ ReadRaises(p)
          /\ rd' = "idle" /\ rdTodo' = {}
          /\ rdSeen' = [d \in Days |-> {}] /\ rdStart' = [d \in Days |-> 0]
  /\ rdOnly

RdEnds ==
  /\ rd = "reading" /\ rdTodo = {}
  /\ rd' = "done"
  /\ UNCHANGED <<rdTodo, rdSeen, rdStart>> /\ rdOnly

-----------------------------------------------------------------------------
Next ==
  \/ Tick
  \/ \E d \in Days : SensorWrites(d)
  \/ SensorRestarts
  \/ RotStep \/ RotDies
  \/ ExStep \/ ExDies
  \/ RdLists \/ RdReads \/ RdEnds

(* The timers start rotation and export again and again, and the system    *)
(* runs what they started.                                                 *)
Fairness == WF_vars(RotStep) /\ WF_vars(ExStep)

Spec == Init /\ [][Next]_vars
FairSpec == Spec /\ Fairness

-----------------------------------------------------------------------------
(* Properties.                                                             *)

(* Every line of a day that is not up for deletion is in a file that can   *)
(* be read to its end, at every moment of a rotation and wherever one dies. *)
NothingLost ==
  \A d \in Days : ~Expired(d) =>
    All(d) \subseteq UNION {lines[p] : p \in {q \in {Plain(d), Gz(d)} : Readable(q)}}

(* A day in the manifest has the digest of the object in the bucket, and   *)
(* the object has all lines of its day, each labelled, whatever rotation   *)
(* did to its files meanwhile and however many exports died on it.         *)
PublishedComplete ==
  \A d \in DOMAIN manifest :
    /\ d \in DOMAIN bucket /\ manifest[d] = bucket[d].lines
    /\ ~Expired(d) => bucket[d] = [lines |-> All(d), labelled |-> All(d)]

(* Objects are uploaded as "immutable": one that is there, in the manifest *)
(* or not yet, is never replaced by another.                               *)
ObjectsAreImmutable ==
  [][\A d \in DOMAIN bucket : ~Expired(d) => d \in DOMAIN bucket' /\ bucket'[d] = bucket[d]]_vars

(* A reader that comes to its end has seen every line that was there when  *)
(* it started.                                                             *)
ReaderMissesNothing ==
  rd = "done" => \A d \in Days : ~Expired(d) => 1..rdStart[d] \subseteq rdSeen[d]

(* A finished day that has lines is published at last, unless it is old    *)
(* enough to be deleted first.                                             *)
EveryDayPublished ==
  \A d \in Days :
    Finished(d) /\ written[d] > 0 ~> d \in DOMAIN manifest \/ Expired(d)

=============================================================================
