--------------------------- MODULE LogFilesProofs ---------------------------
(***************************************************************************)
(* What LogFiles promises, for all its constants: the users of the log     *)
(* directory can interleave, die and start again as they like, and no line *)
(* is lost, published days are complete, and a reader that comes to its    *)
(* end has missed nothing.                                                 *)
(***************************************************************************)
EXTENDS LogFiles, TLAPS

(* The sensor writes no more lines of day d.                               *)
Late(d) == (d + 1) * TicksPerDay + Delay <= now

Types ==
  /\ now \in Nat
  /\ written \in [Days -> Nat]
  /\ files \subseteq Paths
  /\ lines \in [Paths -> SUBSET Nat]
  /\ open \in Days \union {NoDay} /\ orphan \in BOOLEAN
  /\ rotDelete \subseteq Paths /\ rotCompress \subseteq Paths
  /\ exTodo \subseteq Paths
  /\ rdTodo \subseteq Paths
  /\ rdSeen \in [Days -> SUBSET Nat] /\ rdStart \in [Days -> Nat]

(* A plain file is complete; where there is none, the .gz is.              *)
FileOK(d) ==
  /\ \A p \in files : p[1] = d => lines[p] \subseteq All(d)
  /\ Plain(d) \in files => All(d) \subseteq lines[Plain(d)]
  /\ Plain(d) \notin files /\ ~Expired(d) /\ written[d] # 0 =>
       Late(d) /\ Gz(d) \in files /\ d \notin cut /\ All(d) \subseteq lines[Gz(d)]

FilesOK == \A d \in Days : FileOK(d)

(* Only the file of a day that is over is unlinked under the sensor.       *)
HandleOK == orphan => open \in Days /\ Late(open)

(* A rotation has planned nothing the sensor may still write to, and the   *)
(* file it is about to unlink has a complete copy.                         *)
RotOK ==
  /\ \A p \in rotDelete : Expired(p[1]) /\ p \notin rotCompress
  /\ \A p \in rotCompress : p[2] = "jsonl" /\ p \in files /\ Late(p[1])
  /\ rot \in {"copying", "copied"} =>
       \A p \in rotCompress : Leads(p, rotCompress) => Gz(p[1]) \in files
  /\ rot = "copied" =>
       \A p \in rotCompress : Leads(p, rotCompress) =>
         p[1] \notin cut /\ All(p[1]) \subseteq lines[Gz(p[1])]

(* An export has planned each unlisted day once, and holds of the day it   *)
(* works on what it read.                                                  *)
ExportOK ==
  /\ \A p \in exTodo :
       /\ Finished(p[1])
       /\ p[1] \notin DOMAIN manifest
       /\ p[2] = "gz" => Plain(p[1]) \notin files
  /\ \A p, q \in exTodo : p[1] = q[1] => p = q
  /\ ex \in {"converting", "uploading", "listing"} =>
       \A p \in exTodo : Leads(p, exTodo) /\ ~Expired(p[1]) => exLabelled = All(p[1])
  /\ ex \in {"uploading", "listing"} =>
       \A p \in exTodo : Leads(p, exTodo) /\ ~Expired(p[1]) => exLines = All(p[1])
  /\ ex = "listing" =>
       \A p \in exTodo : Leads(p, exTodo) =>
         p[1] \in DOMAIN bucket /\ bucket[p[1]].lines = exLines

(* Every object is complete, listed or not.                                *)
StoreOK ==
  /\ \A d \in DOMAIN bucket :
       /\ d \in Days /\ Late(d)
       /\ ~Expired(d) => bucket[d] = [lines |-> All(d), labelled |-> All(d)]
  /\ \A d \in DOMAIN manifest : d \in DOMAIN bucket /\ manifest[d] = bucket[d].lines

(* What a reader has not seen of a day is in a file it has yet to read.    *)
ReaderOK ==
  \A d \in Days :
    /\ rdStart[d] <= written[d]
    /\ rd = "reading" /\ ~Expired(d) =>
         \/ 1..rdStart[d] \subseteq rdSeen[d]
         \/ Plain(d) \in rdTodo
         \/ Gz(d) \in rdTodo /\ Plain(d) \notin files /\ Late(d)
    /\ rd = "done" /\ ~Expired(d) => 1..rdStart[d] \subseteq rdSeen[d]

IInv == Types /\ FilesOK /\ HandleOK /\ RotOK /\ ExportOK /\ StoreOK /\ ReaderOK

-----------------------------------------------------------------------------
(* Time.                                                                   *)

USE ConstantsOK DEF NoDay

LEMMA NotLateWrites ==
  ASSUME NEW d \in Days, now \in Nat, SensorWrites(d)
  PROVE  ~Late(d)
BY DEF SensorWrites, Late, Days

(* An age of k days leaves room for the late lines of the day.             *)
LEMMA AgeIsLate ==
  ASSUME now \in Nat, NEW d \in Days, NEW k \in Int,
         Age(d) >= k, TicksPerDay + Delay <= k * TicksPerDay
  PROVE  Late(d)
<1> DEFINE t == TicksPerDay  q == now \div TicksPerDay
<1>1. q \in Nat /\ q * t <= now
  OBVIOUS
<1>2. q >= d + k /\ d \in Nat
  BY DEF Age, Today, Days
<1>3. (d + k) * t <= q * t
  <2> HIDE DEF q
  <2>1. t \in Nat /\ q \in Nat /\ d + k \in Int
    BY <1>1, <1>2
  <2> HIDE DEF t
  <2>2. q - (d + k) \in Nat
    BY <1>2, <2>1
  <2>3. (q - (d + k)) * t >= 0
    BY <2>1, <2>2
  <2>4. QED
    BY <2>1, <2>3
<1>4. (d + k) * t = d * t + k * t /\ (d + 1) * t = d * t + t
  BY <1>2
<1>5. QED
  BY <1>1, <1>2, <1>3, <1>4 DEF Late

LEMMA ExpiredIsLate ==
  ASSUME now \in Nat, NEW d \in Days, Expired(d)
  PROVE  Late(d)
<1>1. DeleteAfter >= 0 /\ Age(d) >= DeleteAfter + 1
  <2>1. Age(d) \in Int
    BY DEF Age, Today, Days
  <2>2. QED
    BY <2>1 DEF Expired
<1>2. TicksPerDay + Delay <= (DeleteAfter + 1) * TicksPerDay
  <2>1. (DeleteAfter + 1) * TicksPerDay = DeleteAfter * TicksPerDay + TicksPerDay
    OBVIOUS
  <2>2. DeleteAfter * TicksPerDay \in Int
    OBVIOUS
  <2>3. QED
    BY <1>1, <2>1, <2>2, LateLinesFit
<1>3. QED
  BY <1>1, <1>2, AgeIsLate

LEMMA CompressibleIsLate ==
  ASSUME now \in Nat, NEW d \in Days, CompressAfter >= 0, Age(d) >= CompressAfter
  PROVE  Late(d)
BY AgeIsLate, LateLinesFit

LEMMA FinishedIsLate ==
  ASSUME now \in Nat, NEW d \in Days, Finished(d)
  PROVE  Late(d)
<1>1. (d + 1) * TicksPerDay \in Int
  BY DEF Days
<1>2. QED
  BY <1>1, LateLinesFit DEF Finished, Late

(* Nothing gets younger.                                                   *)
LEMMA TimePasses ==
  ASSUME now \in Nat, Tick, NEW d \in Days
  PROVE  /\ now' \in Nat
         /\ Expired(d) => Expired(d)'
         /\ Late(d) => Late(d)'
         /\ Finished(d) => Finished(d)'
<1>1. now' = now + 1
  BY DEF Tick
<1>2. (now + 1) \div TicksPerDay >= now \div TicksPerDay
  OBVIOUS
<1>3. (d + 1) * TicksPerDay \in Int
  BY DEF Days
<1>4. Expired(d) => Expired(d)'
  <2>1. now \div TicksPerDay \in Int /\ (now + 1) \div TicksPerDay \in Int
    OBVIOUS
  <2>2. QED
    BY <1>1, <1>2, <2>1 DEF Expired, Age, Today, Days
<1>5. QED
  BY <1>1, <1>3, <1>4 DEF Late, Finished

LEMMA LeadsUnique ==
  ASSUME NEW S \in SUBSET Paths, NEW p, NEW q, Leads(p, S), Leads(q, S)
  PROVE  p = q
BY DEF Leads, Before, Paths, Days

(* What a file that was worth reading yields is the whole of its day.      *)
LEMMA ReadsAll ==
  ASSUME Types, FilesOK, NEW p \in Paths, ~Expired(p[1]),
         p[2] = "gz" => Plain(p[1]) \notin files,
         NEW content \in Reading(p)
  PROVE  content = All(p[1])
<1>1. p[1] \in Days /\ p[2] \in {"jsonl", "gz"} /\ p = <<p[1], p[2]>>
  BY DEF Paths
<1>2. p \in files
  BY DEF Reading, Readable
<1>3. CASE p[2] = "jsonl"
  <2>1. p = Plain(p[1])
    BY <1>1, <1>3 DEF Plain
  <2>2. content = lines[p]
    BY <1>2, <1>3 DEF Reading, Readable
  <2>3. QED
    BY <1>1, <1>2, <2>1, <2>2 DEF FilesOK, FileOK
<1>4. CASE p[2] = "gz"
  <2>1. Plain(p[1]) \notin files /\ p = Gz(p[1])
    BY <1>1, <1>4 DEF Gz
  <2>2. CASE written[p[1]] # 0
    BY <1>1, <1>2, <2>1, <2>2 DEF FilesOK, FileOK, Reading, Readable
  <2>3. CASE written[p[1]] = 0
    BY <1>1, <1>2, <2>3 DEF FilesOK, FileOK, Reading, Readable, All
  <2>4. QED
    BY <2>2, <2>3
<1>5. QED
  BY <1>1, <1>3, <1>4

-----------------------------------------------------------------------------
(* The invariant holds at the start, and every step preserves it.          *)

LEMMA InitIInv == Init => IInv
<1> SUFFICES ASSUME Init PROVE IInv
  OBVIOUS
<1>1. Types
  BY DEF Init, Types, Paths, Days
<1>2. FilesOK /\ HandleOK
  BY DEF Init, FilesOK, FileOK, HandleOK
<1>3. RotOK
  BY DEF Init, RotOK
<1>4. ExportOK
  BY DEF Init, ExportOK
<1>5. StoreOK
  <2>1. DOMAIN bucket = {} /\ DOMAIN manifest = {}
    BY DEF Init
  <2>2. QED
    BY <2>1 DEF StoreOK
<1>6. ReaderOK
  BY DEF Init, ReaderOK
<1>7. QED
  BY <1>1, <1>2, <1>3, <1>4, <1>5, <1>6 DEF IInv

LEMMA TypesStep == IInv /\ [Next]_vars => Types'
<1> SUFFICES ASSUME IInv, [Next]_vars PROVE Types'
  OBVIOUS
<1> USE DEF fileVars, sensorVars, rotVars, exVars, storeVars, rdVars, rotOnly, exOnly, rdOnly
<1>0. Types
  BY Zenon DEF IInv
<1>1. CASE Tick
  BY <1>0, <1>1 DEF Tick, Types
<1>2. ASSUME NEW d \in Days, SensorWrites(d) PROVE Types'
  <2>1. written' \in [Days -> Nat] /\ written'[d] \in Nat
    BY <1>0, <1>2 DEF SensorWrites, Types
  <2>2. Plain(d) \in Paths
    BY DEF Plain, Paths
  <2>3. lines' \in [Paths -> SUBSET Nat]
    <3>1. CASE lines' = lines
      BY <1>0, <3>1 DEF Types
    <3>2. CASE lines' = [lines EXCEPT ![Plain(d)] =
                 (IF Plain(d) \in files THEN lines[Plain(d)] ELSE {}) \union {written'[d]}]
      <4> DEFINE l == (IF Plain(d) \in files THEN lines[Plain(d)] ELSE {}) \union {written'[d]}
      <4>1. l \in SUBSET Nat
        BY <1>0, <2>1, <2>2 DEF Types
      <4>2. QED
        BY <1>0, <3>2, <4>1 DEF Types
    <3>3. QED
      BY <1>2, <3>1, <3>2 DEF SensorWrites
  <2>4. QED
    BY <1>0, <1>2, <2>1, <2>2, <2>3 DEF SensorWrites, Types
<1>3. CASE SensorRestarts
  BY <1>0, <1>3 DEF SensorRestarts, Types
<1>4. CASE RotPlan
  BY <1>0, <1>4 DEF RotPlan, Types
<1>5. CASE RotDelete
  BY <1>0, <1>5 DEF RotDelete, Unlink, Types
<1>6. CASE RotDeleted
  BY <1>0, <1>6 DEF RotDeleted, Types
<1>7. CASE RotOpens
  BY <1>0, <1>7 DEF RotOpens, Types, Paths, Gz
<1>8. CASE RotCopies
  BY <1>0, <1>8 DEF RotCopies, Types, Paths, Gz
<1>9. CASE RotUnlinks
  BY <1>0, <1>9 DEF RotUnlinks, Unlink, Types
<1>10. CASE RotDies
  BY <1>0, <1>10 DEF RotDies, Types
<1>11. CASE ExStarts
  BY <1>0, <1>11 DEF ExStarts, DayFiles, Types
<1>12. CASE ExLabels \/ ExConverts \/ ExUploads \/ ExLists \/ ExDies
  BY <1>0, <1>12 DEF ExLabels, ExConverts, ExUploads, ExLists, ExDies, ExAborts, Types
<1>13. CASE RdLists
  BY <1>0, <1>13 DEF RdLists, Types
<1>14. CASE RdReads
  <2>1. \A p \in rdTodo : p[1] \in Days /\ Reading(p) \subseteq SUBSET Nat
    BY <1>0 DEF Reading, Types, Paths
  <2>2. rdTodo' \in SUBSET Paths /\ rdStart' \in [Days -> Nat]
    BY <1>0, <1>14 DEF RdReads, Types
  <2>3. rdSeen' \in [Days -> SUBSET Nat]
    <3>1. CASE rdSeen' = [d \in Days |-> {}]
      BY <3>1
    <3>2. ASSUME NEW p \in rdTodo, NEW content \in Reading(p),
                 rdSeen' = [rdSeen EXCEPT ![p[1]] = @ \union content]
          PROVE  rdSeen' \in [Days -> SUBSET Nat]
      <4>1. rdSeen[p[1]] \union content \in SUBSET Nat
        BY <1>0, <2>1, <3>2 DEF Types
      <4>2. QED
        BY <1>0, <3>2, <4>1 DEF Types
    <3>3. QED
      BY <1>14, <3>1, <3>2 DEF RdReads
  <2>4. QED
    BY <1>0, <1>14, <2>2, <2>3 DEF RdReads, Types
<1>15. CASE RdEnds
  BY <1>0, <1>15 DEF RdEnds, Types
<1>16. CASE UNCHANGED vars
  BY <1>0, <1>16 DEF vars, Types
<1>17. QED
  BY <1>1, <1>2, <1>3, <1>4, <1>5, <1>6, <1>7, <1>8, <1>9, <1>10, <1>11, <1>12, <1>13, <1>14,
     <1>15, <1>16 DEF Next, RotStep, ExStep

(* Everything but the clock, the sensor and the rotation leaves the files  *)
(* alone, and everything but the clock leaves the time.                    *)
LEMMA WhoTouchesFiles ==
  ASSUME [Next]_vars,
         ~Tick, ~(\E d \in Days : SensorWrites(d)),
         ~RotDelete, ~RotOpens, ~RotCopies, ~RotUnlinks
  PROVE  UNCHANGED <<now, written, files, lines, cut>>
BY DEF Next, RotStep, ExStep, vars, fileVars, sensorVars, rotOnly, exOnly, rdOnly, SensorRestarts,
       RotPlan, RotDeleted, RotDies, ExStarts, ExLabels, ExConverts, ExUploads, ExLists, ExDies,
       RdLists, RdReads, RdEnds

LEMMA SensorWritesFiles ==
  ASSUME IInv, NEW e \in Days, SensorWrites(e)
  PROVE  /\ ~(open = e /\ orphan)
         /\ Plain(e) \notin files => written[e] = 0
<1>1. ~Late(e) /\ now \in Nat
  BY NotLateWrites DEF IInv, Types
<1>2. ~Expired(e)
  BY <1>1, ExpiredIsLate
<1>3. QED
  BY <1>1, <1>2 DEF IInv, HandleOK, FilesOK, FileOK

LEMMA FilesStep == IInv /\ [Next]_vars => FilesOK'
<1> SUFFICES ASSUME IInv, [Next]_vars, NEW d \in Days PROVE FileOK(d)'
  BY DEF FilesOK
<1> USE DEF fileVars, rotOnly
<1>0. Types /\ FileOK(d) /\ RotOK
  BY Zenon DEF IInv, FilesOK
<1>1. CASE Tick
  <2>1. UNCHANGED <<written, files, lines, cut>>
    BY <1>1 DEF Tick, sensorVars
  <2>2. (Expired(d) => Expired(d)') /\ (Late(d) => Late(d)')
    BY <1>0, <1>1, TimePasses DEF Types
  <2>3. QED
    BY <1>0, <2>1, <2>2 DEF FileOK, All
<1>2. ASSUME NEW e \in Days, SensorWrites(e) PROVE FileOK(d)'
  <2>1. /\ now' = now /\ cut' = cut
        /\ files' = files \union {Plain(e)}
        /\ written' = [written EXCEPT ![e] = @ + 1]
        /\ lines' = [lines EXCEPT ![Plain(e)] =
               (IF Plain(e) \in files THEN @ ELSE {}) \union {written'[e]}]
        /\ Plain(e) \notin files => written[e] = 0
    BY <1>2, SensorWritesFiles DEF SensorWrites
  <2>2. Plain(e) \in Paths /\ written[e] \in Nat /\ written'[e] = written[e] + 1
    BY <1>0, <2>1 DEF Types, Paths, Plain
  <2>3. CASE d # e
    <3>1. All(d)' = All(d) /\ (Expired(d)' <=> Expired(d)) /\ (Late(d)' <=> Late(d))
      BY <2>1, <2>3 DEF All, Expired, Age, Today, Late
    <3>2. \A p \in Paths : p[1] = d => lines'[p] = lines[p] /\ (p \in files' <=> p \in files)
      BY <1>0, <2>1, <2>3 DEF Types, Plain
    <3>3. Plain(d) \in Paths /\ Gz(d) \in Paths /\ Plain(d)[1] = d /\ Gz(d)[1] = d
      BY DEF Paths, Plain, Gz
    <3>4. files' \subseteq Paths /\ files \subseteq Paths
      BY <1>0, <2>1, <2>2 DEF Types
    <3>5. written'[d] = written[d]
      BY <1>0, <2>1, <2>3 DEF Types
    <3>6. QED
      BY <1>0, <2>1, <3>1, <3>2, <3>3, <3>4, <3>5 DEF FileOK
  <2>4. CASE d = e
    <3>1. All(d)' = All(d) \union {written'[d]}
      BY <2>2, <2>4 DEF All
    <3>2. lines'[Plain(d)] = (IF Plain(d) \in files THEN lines[Plain(d)] ELSE {}) \union {written'[d]}
      BY <1>0, <2>1, <2>2, <2>4 DEF Types
    <3>3. \A p \in files' : p # Plain(d) => p \in files /\ lines'[p] = lines[p]
      BY <1>0, <2>1, <2>4 DEF Types
    <3>4. All(d) \subseteq (IF Plain(d) \in files THEN lines[Plain(d)] ELSE {})
      BY <1>0, <2>1, <2>4 DEF FileOK, All
    <3>5. Plain(d)[1] = d /\ Plain(d) \in files'
      BY <2>1, <2>4 DEF Plain
    <3>6. QED
      BY <1>0, <3>1, <3>2, <3>3, <3>4, <3>5 DEF FileOK
  <2>5. QED
    BY <2>3, <2>4
<1>a. Plain(d) # Gz(d) /\ Plain(d)[1] = d /\ Gz(d)[1] = d
  BY DEF Plain, Gz
<1>4. CASE RotDelete
  <2>1. PICK p \in rotDelete : files' = files \ {p} /\ (cut' = cut \/ cut' = cut \ {p[1]})
    BY <1>4 DEF RotDelete, Unlink
  <2>2. UNCHANGED <<now, written, lines>>
    BY <1>4 DEF RotDelete
  <2>3. Expired(p[1])
    BY <1>0 DEF RotOK
  <2>4. QED
    BY <1>0, <1>a, <2>1, <2>2, <2>3 DEF FileOK, All, Expired, Age, Today, Late
<1>5. CASE RotOpens
  <2>1. PICK p \in rotCompress : /\ files' = files \union {Gz(p[1])}
                                 /\ lines' = [lines EXCEPT ![Gz(p[1])] = {}]
                                 /\ cut' = cut \union {p[1]}
    BY <1>5 DEF RotOpens
  <2>2. UNCHANGED <<now, written>>
    BY <1>5 DEF RotOpens
  <2>3. p \in files /\ p \in Paths /\ p[2] = "jsonl"
    BY <1>0 DEF RotOK, Types
  <2>4. p = Plain(p[1]) /\ p[1] \in Days /\ Gz(p[1]) \in Paths /\ Gz(p[1])[1] = p[1]
    BY <2>3 DEF Plain, Gz, Paths
  <2>5. \A q \in files' : IF q = Gz(p[1]) THEN lines'[q] = {} ELSE lines'[q] = lines[q] /\ q \in files
    BY <1>0, <2>1, <2>4 DEF Types
  <2>6. Plain(d) \in files <=> Plain(d) \in files'
    BY <2>1 DEF Plain, Gz
  <2>7. d # p[1] => (d \in cut' <=> d \in cut) /\ Gz(d) # Gz(p[1])
    BY <2>1 DEF Gz
  <2>8. Plain(d) # Gz(p[1])
    BY DEF Plain, Gz
  <2>9. QED
    BY <1>0, <1>a, <2>1, <2>2, <2>3, <2>4, <2>5, <2>6, <2>7, <2>8
       DEF FileOK, All, Expired, Age, Today, Late
<1>6. CASE RotCopies
  <2>1. PICK p \in rotCompress : /\ lines' = [lines EXCEPT ![Gz(p[1])] = lines[p]]
                                 /\ cut' = cut \ {p[1]}
    BY <1>6 DEF RotCopies
  <2>2. UNCHANGED <<now, written, files>>
    BY <1>6 DEF RotCopies
  <2>3. p \in files /\ p \in Paths /\ p[2] = "jsonl"
    BY <1>0 DEF RotOK, Types
  <2>4. p = Plain(p[1]) /\ p[1] \in Days /\ Gz(p[1]) \in Paths /\ Gz(p[1])[1] = p[1]
    BY <2>3 DEF Plain, Gz, Paths
  <2>5. \A q \in files : lines'[q] = IF q = Gz(p[1]) THEN lines[p] ELSE lines[q]
    BY <1>0, <2>1, <2>4 DEF Types
  <2>6. Plain(d) # Gz(p[1]) /\ (d # p[1] => Gz(d) # Gz(p[1]))
    BY DEF Plain, Gz
  <2>7. QED
    BY <1>0, <1>a, <2>1, <2>2, <2>3, <2>4, <2>5, <2>6 DEF FileOK, All, Expired, Age, Today, Late
<1>7. CASE RotUnlinks
  <2>1. PICK p \in rotCompress : Leads(p, rotCompress) /\ files' = files \ {p}
    BY <1>7 DEF RotUnlinks, Unlink
  <2>2. UNCHANGED <<now, written, lines, cut>> /\ rot = "copied"
    BY <1>7 DEF RotUnlinks
  <2>3. p \in Paths /\ p[2] = "jsonl" /\ Late(p[1]) /\ Gz(p[1]) \in files
        /\ p[1] \notin cut /\ All(p[1]) \subseteq lines[Gz(p[1])]
    BY <1>0, <2>1, <2>2 DEF RotOK, Types
  <2>4. p = Plain(p[1])
    BY <2>3 DEF Plain, Paths
  <2>5. (Plain(d) = p <=> d = p[1]) /\ Gz(d) # p
    BY <2>4 DEF Plain, Gz
  <2>6. QED
    BY <1>0, <1>a, <2>1, <2>2, <2>3, <2>4, <2>5 DEF FileOK, All, Expired, Age, Today, Late
<1>8. CASE UNCHANGED <<now, written, files, lines, cut>>
  BY <1>0, <1>8 DEF FileOK, All, Expired, Age, Today, Late
<1>9. QED
  BY <1>1, <1>2, <1>4, <1>5, <1>6, <1>7, <1>8, WhoTouchesFiles

LEMMA HandleStep == IInv /\ [Next]_vars => HandleOK'
<1> SUFFICES ASSUME IInv, [Next]_vars PROVE HandleOK'
  OBVIOUS
<1>0. Types /\ HandleOK /\ RotOK
  BY Zenon DEF IInv
<1>1. CASE Tick
  <2>1. open' = open /\ orphan' = orphan
    BY <1>1 DEF Tick, sensorVars
  <2>2. \A d \in Days : Late(d) => Late(d)'
    BY <1>0, <1>1, TimePasses DEF Types
  <2>3. QED
    BY <1>0, <2>1, <2>2 DEF HandleOK, Late
<1>2. ASSUME NEW e \in Days, SensorWrites(e) PROVE HandleOK'
  BY <1>2, SensorWritesFiles DEF SensorWrites, HandleOK
<1>3. CASE SensorRestarts
  BY <1>3 DEF SensorRestarts, HandleOK
<1>4. ASSUME NEW p \in Paths, Late(p[1]), Unlink(p), UNCHANGED <<now, open>>
      PROVE  HandleOK'
  <2>1. CASE p = Plain(open)
    <3>1. p[1] = open /\ p[1] \in Days
      BY <2>1 DEF Plain, Paths
    <3>2. QED
      BY <1>4, <3>1 DEF HandleOK, Late
  <2>2. CASE p # Plain(open)
    BY <1>0, <1>4, <2>2 DEF Unlink, HandleOK, Late
  <2>3. QED
    BY <2>1, <2>2
<1>5. CASE RotDelete
  <2>1. PICK p \in rotDelete : Unlink(p)
    BY <1>5 DEF RotDelete
  <2>2. p \in Paths /\ p[1] \in Days /\ Expired(p[1])
    BY <1>0 DEF Types, RotOK, Paths
  <2>3. Late(p[1])
    BY <1>0, <2>2, ExpiredIsLate DEF Types
  <2>4. QED
    BY <1>4, <1>5, <2>1, <2>2, <2>3 DEF RotDelete, rotOnly
<1>6. CASE RotUnlinks
  <2>1. PICK p \in rotCompress : Unlink(p)
    BY <1>6 DEF RotUnlinks
  <2>2. QED
    BY <1>0, <1>4, <1>6, <2>1 DEF RotUnlinks, rotOnly, RotOK, Types
<1>7. CASE UNCHANGED <<now, open, orphan>>
  BY <1>0, <1>7 DEF HandleOK, Late
<1>8. QED
  BY <1>1, <1>2, <1>3, <1>5, <1>6, <1>7
     DEF Next, RotStep, ExStep, vars, sensorVars, rotOnly, exOnly, rdOnly, RotPlan, RotDeleted,
         RotOpens, RotCopies, RotDies, ExStarts, ExLabels, ExConverts, ExUploads, ExLists, ExDies,
         RdLists, RdReads, RdEnds

LEMMA RotStepOK == IInv /\ [Next]_vars => RotOK'
<1> SUFFICES ASSUME IInv, [Next]_vars PROVE RotOK'
  OBVIOUS
<1> USE DEF fileVars, rotVars, rotOnly
<1>0. Types /\ RotOK /\ FilesOK
  BY Zenon DEF IInv
<1>a. \A p \in rotDelete \union rotCompress : p \in Paths /\ p[1] \in Days /\ p = <<p[1], p[2]>>
  BY <1>0 DEF Types, Paths
<1>b. \A p \in rotCompress : p = Plain(p[1]) /\ Gz(p[1]) \in Paths /\ p # Gz(p[1])
  <2> SUFFICES ASSUME NEW p \in rotCompress
               PROVE  p = Plain(p[1]) /\ Gz(p[1]) \in Paths /\ p # Gz(p[1])
    OBVIOUS
  <2>1. p = Plain(p[1]) /\ p[1] \in Days
    BY <1>0, <1>a DEF RotOK, Plain
  <2>2. QED
    BY <2>1 DEF Plain, Gz, Paths
<1>c. \A p, q \in rotCompress : Leads(p, rotCompress) /\ Leads(q, rotCompress) => p = q
  BY <1>0, LeadsUnique DEF Types
<1>1. CASE Tick
  <2>1. UNCHANGED <<written, fileVars, rotVars>>
    BY <1>1 DEF Tick, sensorVars
  <2>2. \A d \in Days : (Expired(d) => Expired(d)') /\ (Late(d) => Late(d)')
    BY <1>0, <1>1, TimePasses DEF Types
  <2>3. QED
    BY <1>0, <1>a, <2>1, <2>2 DEF RotOK, All
<1>2. ASSUME NEW e \in Days, SensorWrites(e) PROVE RotOK'
  <2>1. /\ UNCHANGED <<now, cut, rotVars>> /\ files' = files \union {Plain(e)}
        /\ written' = [written EXCEPT ![e] = @ + 1]
        /\ lines' = [lines EXCEPT ![Plain(e)] =
               (IF Plain(e) \in files THEN @ ELSE {}) \union {written'[e]}]
    BY <1>2, SensorWritesFiles DEF SensorWrites
  <2>2. \A p \in rotCompress : p[1] # e
    BY <1>0, <1>2, NotLateWrites DEF RotOK, Types
  <2>3. \A p \in rotCompress : All(p[1])' = All(p[1]) /\ lines'[Gz(p[1])] = lines[Gz(p[1])]
    BY <1>0, <1>a, <1>b, <2>1, <2>2 DEF Types, All, Plain, Gz
  <2>4. QED
    BY <1>0, <2>1, <2>3 DEF RotOK, Expired, Age, Today, Late
<1>3. CASE RotPlan
  <2>1. \A p \in rotCompress' : p[2] = "jsonl" /\ p \in files' /\ Late(p[1])
    BY <1>0, <1>3, CompressibleIsLate DEF RotPlan, Types, Paths
  <2>2. UNCHANGED <<now, written, files>> /\ rot' = "deleting"
    BY <1>3 DEF RotPlan
  <2>3. \A p \in rotDelete' : Expired(p[1]) /\ p \notin rotCompress'
    BY <1>3 DEF RotPlan
  <2>4. QED
    BY <2>1, <2>2, <2>3 DEF RotOK, Expired, Age, Today, Late
<1>4. CASE RotDelete
  BY <1>0, <1>4 DEF RotDelete, Unlink, RotOK, Expired, Age, Today, Late
<1>5. CASE RotDeleted
  BY <1>0, <1>5 DEF RotDeleted, RotOK, Expired, Age, Today, Late
<1>6. CASE RotOpens
  BY <1>0, <1>c, <1>6 DEF RotOpens, RotOK, Expired, Age, Today, Late
<1>7. CASE RotCopies
  <2>1. PICK p \in rotCompress : /\ Leads(p, rotCompress)
                                 /\ lines' = [lines EXCEPT ![Gz(p[1])] = lines[p]]
                                 /\ cut' = cut \ {p[1]}
    BY <1>7 DEF RotCopies
  <2>2. lines'[Gz(p[1])] = lines[p]
    BY <1>0, <1>b, <2>1 DEF Types
  <2>3. All(p[1]) \subseteq lines[p]
    BY <1>0, <1>a, <1>b DEF RotOK, FilesOK, FileOK
  <2>4. QED
    BY <1>0, <1>c, <1>7, <2>1, <2>2, <2>3 DEF RotCopies, RotOK, All, Expired, Age, Today, Late
<1>8. CASE RotUnlinks
  BY <1>0, <1>8 DEF RotUnlinks, Unlink, RotOK, Expired, Age, Today, Late
<1>9. CASE RotDies
  BY <1>9 DEF RotDies, RotOK
<1>10. CASE UNCHANGED <<now, written, fileVars, rotVars>>
  BY <1>0, <1>10 DEF RotOK, All, Expired, Age, Today, Late
<1>11. QED
  BY <1>1, <1>2, <1>3, <1>4, <1>5, <1>6, <1>7, <1>8, <1>9, <1>10
     DEF Next, RotStep, ExStep, vars, sensorVars, exOnly, rdOnly, SensorRestarts,
         ExStarts, ExLabels, ExConverts, ExUploads, ExLists, ExDies, RdLists, RdReads, RdEnds

-----------------------------------------------------------------------------
(* The export, the store and the reader.                                   *)

LEMMA ExportStep == IInv /\ [Next]_vars => ExportOK'
<1> SUFFICES ASSUME IInv, [Next]_vars PROVE ExportOK'
  OBVIOUS
<1> USE DEF exVars, storeVars, exOnly
<1>0. Types /\ FilesOK /\ ExportOK
  BY Zenon DEF IInv
<1>a. \A p \in exTodo : p \in Paths /\ p[1] \in Days /\ Late(p[1])
  BY <1>0, FinishedIsLate DEF Types, Paths, ExportOK
<1>b. \A p, q \in exTodo : Leads(p, exTodo) /\ Leads(q, exTodo) => p = q
  BY <1>0, LeadsUnique DEF Types
<1>1. CASE Tick
  <2>1. UNCHANGED <<written, files, exVars, storeVars>>
    BY <1>1 DEF Tick, sensorVars, fileVars
  <2>2. \A d \in Days : (Expired(d) => Expired(d)') /\ (Finished(d) => Finished(d)')
    BY <1>0, <1>1, TimePasses DEF Types
  <2>3. QED
    BY <1>0, <1>a, <2>1, <2>2 DEF ExportOK, All
<1>2. ASSUME NEW e \in Days, SensorWrites(e) PROVE ExportOK'
  <2>1. /\ UNCHANGED <<now, exVars, storeVars>> /\ files' = files \union {Plain(e)}
        /\ written' = [written EXCEPT ![e] = @ + 1]
    BY <1>2, SensorWritesFiles DEF SensorWrites
  <2>2. \A p \in exTodo : p[1] # e
    BY <1>0, <1>2, <1>a, NotLateWrites DEF Types
  <2>3. \A p \in exTodo : /\ All(p[1])' = All(p[1])
                          /\ Plain(p[1]) \in files' => Plain(p[1]) \in files
    BY <1>0, <1>a, <2>1, <2>2 DEF Types, All, Plain
  <2>4. QED
    BY <1>0, <2>1, <2>3 DEF ExportOK, Expired, Age, Today, Finished
<1>3. CASE /\ UNCHANGED <<now, written, exVars, storeVars>>
           /\ \A d \in Days : Plain(d) \in files' => Plain(d) \in files
  BY <1>0, <1>a, <1>3 DEF ExportOK, All, Expired, Age, Today, Finished
<1>4. CASE ExStarts
  <2>1. UNCHANGED <<now, written, files, manifest>> /\ ex' = "labelling"
    BY <1>4 DEF ExStarts, fileVars, sensorVars
  <2>2. \A p \in exTodo' : /\ Finished(p[1]) /\ p[1] \notin DOMAIN manifest
                           /\ p \in files /\ (p[2] = "jsonl" \/ Plain(p[1]) \notin files)
    BY <1>4 DEF ExStarts, DayFiles
  <2>3. ASSUME NEW p \in exTodo', NEW q \in exTodo', p[1] = q[1] PROVE p = q
    <3>1. /\ p \in files /\ (p[2] = "jsonl" \/ Plain(p[1]) \notin files)
          /\ q \in files /\ (q[2] = "jsonl" \/ Plain(q[1]) \notin files)
      BY <2>2
    <3>2. p = <<p[1], p[2]>> /\ p[2] \in {"jsonl", "gz"} /\ q = <<q[1], q[2]>> /\ q[2] \in {"jsonl", "gz"}
      BY <1>0, <3>1 DEF Types, Paths
    <3>3. p[2] = q[2]
      BY <2>3, <3>1, <3>2 DEF Plain
    <3>4. QED
      BY <2>3, <3>2, <3>3
  <2>4. QED
    BY <2>1, <2>2, <2>3 DEF ExportOK, Finished
<1>5. ASSUME NEW p \in exTodo, NEW content \in Reading(p), ~Expired(p[1])
      PROVE  content = All(p[1])
  BY <1>0, <1>5, <1>a, ReadsAll DEF ExportOK
<1>6. CASE ExLabels
  <2>1. UNCHANGED <<now, written, files, bucket, manifest>>
    BY <1>6 DEF ExLabels, fileVars, sensorVars
  <2>2. CASE ExAborts
    BY <2>1, <2>2 DEF ExAborts, ExportOK
  <2>3. CASE ~ExAborts
    <3>1. PICK p \in exTodo : Leads(p, exTodo) /\ exLabelled' \in Reading(p)
      BY <1>6, <2>3 DEF ExLabels
    <3>2. exTodo' = exTodo /\ ex' = "converting"
      BY <1>6, <2>3 DEF ExLabels
    <3>3. ~Expired(p[1]) => exLabelled' = All(p[1])
      BY <1>5, <3>1
    <3>4. QED
      BY <1>0, <1>b, <2>1, <3>1, <3>2, <3>3 DEF ExportOK, All, Expired, Age, Today, Finished
  <2>4. QED
    BY <2>2, <2>3
<1>7. CASE ExConverts
  <2>1. UNCHANGED <<now, written, files, bucket, manifest>> /\ ex = "converting"
    BY <1>7 DEF ExConverts, fileVars, sensorVars
  <2>2. CASE ExAborts
    BY <2>1, <2>2 DEF ExAborts, ExportOK
  <2>3. CASE ~ExAborts
    <3>1. PICK p \in exTodo : Leads(p, exTodo) /\ exLines' \in Reading(p)
      BY <1>7, <2>3 DEF ExConverts
    <3>2. exTodo' = exTodo /\ ex' = "uploading" /\ exLabelled' = exLabelled
      BY <1>7, <2>3 DEF ExConverts
    <3>3. ~Expired(p[1]) => exLines' = All(p[1])
      BY <1>5, <3>1
    <3>4. QED
      BY <1>0, <1>b, <2>1, <3>1, <3>2, <3>3 DEF ExportOK, All, Expired, Age, Today, Finished
  <2>4. QED
    BY <2>2, <2>3
<1>8. CASE ExUploads
  <2>1. /\ UNCHANGED <<now, written, files, manifest, exTodo, exLabelled, exLines>>
        /\ ex = "uploading" /\ ex' = "listing"
    BY <1>8 DEF ExUploads, fileVars, sensorVars
  <2>2. PICK p \in exTodo :
             /\ Leads(p, exTodo)
             /\ bucket' = Put(bucket, p[1], [lines |-> exLines, labelled |-> exLabelled])
    BY <1>8 DEF ExUploads
  <2>3. p[1] \in DOMAIN bucket' /\ bucket'[p[1]].lines = exLines
    BY <2>2 DEF Put
  <2>4. QED
    BY <1>0, <1>b, <2>1, <2>2, <2>3 DEF ExportOK, All, Expired, Age, Today, Finished
<1>9. CASE ExLists
  <2>1. UNCHANGED <<now, written, files, bucket>> /\ ex' \in {"idle", "labelling"}
    BY <1>9 DEF ExLists, fileVars, sensorVars
  <2>2. PICK p \in exTodo : manifest' = Put(manifest, p[1], exLines) /\ exTodo' = exTodo \ {p}
    BY <1>9 DEF ExLists
  <2>3. DOMAIN manifest' = DOMAIN manifest \union {p[1]}
    BY <2>2 DEF Put
  <2>4. QED
    BY <1>0, <2>1, <2>2, <2>3 DEF ExportOK, Finished
<1>10. CASE ExDies
  BY <1>10 DEF ExDies, ExAborts, ExportOK
<1>11. ASSUME ~Tick, ~(\E e \in Days : SensorWrites(e)), ~ExStep, ~ExDies
       PROVE  /\ UNCHANGED <<now, written, exVars, storeVars>>
              /\ \A d \in Days : Plain(d) \in files' => Plain(d) \in files
  BY <1>11 DEF Next, RotStep, vars, fileVars, sensorVars, rotOnly, rdOnly, SensorRestarts,
       RotPlan, RotDelete, RotDeleted, RotOpens, RotCopies, RotUnlinks, Unlink, RotDies,
       RdLists, RdReads, RdEnds, Plain, Gz
<1>12. QED
  BY <1>1, <1>2, <1>3, <1>4, <1>6, <1>7, <1>8, <1>9, <1>10, <1>11 DEF ExStep

LEMMA StoreStep == IInv /\ [Next]_vars => StoreOK'
<1> SUFFICES ASSUME IInv, [Next]_vars PROVE StoreOK'
  OBVIOUS
<1> USE DEF exVars, storeVars, exOnly
<1>0. Types /\ ExportOK /\ StoreOK
  BY Zenon DEF IInv
<1>1. CASE Tick
  <2>1. UNCHANGED <<written, storeVars>>
    BY <1>1 DEF Tick, sensorVars
  <2>2. \A d \in Days : (Expired(d) => Expired(d)') /\ (Late(d) => Late(d)')
    BY <1>0, <1>1, TimePasses DEF Types
  <2>3. QED
    BY <1>0, <2>1, <2>2 DEF StoreOK, All
<1>2. ASSUME NEW e \in Days, SensorWrites(e) PROVE StoreOK'
  <2>1. UNCHANGED <<now, storeVars>> /\ written' = [written EXCEPT ![e] = @ + 1]
    BY <1>2 DEF SensorWrites
  <2>2. \A d \in DOMAIN bucket : d \in Days /\ d # e
    BY <1>0, <1>2, NotLateWrites DEF StoreOK, Types
  <2>3. \A d \in DOMAIN bucket : All(d)' = All(d)
    BY <1>0, <2>1, <2>2 DEF Types, All
  <2>4. QED
    BY <1>0, <2>1, <2>3 DEF StoreOK, Expired, Age, Today, Late
<1>3. CASE ExUploads
  <2>1. UNCHANGED <<now, written, manifest, exLabelled>> /\ ex = "uploading"
    BY <1>3 DEF ExUploads, sensorVars
  <2>2. PICK p \in exTodo :
             /\ Leads(p, exTodo)
             /\ bucket' = Put(bucket, p[1], [lines |-> exLines, labelled |-> exLabelled])
    BY <1>3 DEF ExUploads
  <2>3. p[1] \in Days /\ Late(p[1]) /\ p[1] \notin DOMAIN manifest
    BY <1>0, <2>2, FinishedIsLate DEF ExportOK, Types, Paths
  <2>4. ~Expired(p[1]) => exLines = All(p[1]) /\ exLabelled = All(p[1])
    BY <1>0, <2>1, <2>2 DEF ExportOK
  <2>5. /\ DOMAIN bucket' = DOMAIN bucket \union {p[1]}
        /\ bucket'[p[1]] = [lines |-> exLines, labelled |-> exLabelled]
        /\ \A d \in DOMAIN bucket : d # p[1] => bucket'[d] = bucket[d]
    BY <2>2 DEF Put
  <2>6. QED
    BY <1>0, <2>1, <2>3, <2>4, <2>5 DEF StoreOK, All, Expired, Age, Today, Late
<1>4. CASE ExLists
  <2>1. UNCHANGED <<now, written, bucket>> /\ ex = "listing"
    BY <1>4 DEF ExLists, sensorVars
  <2>2. PICK p \in exTodo : Leads(p, exTodo) /\ manifest' = Put(manifest, p[1], exLines)
    BY <1>4 DEF ExLists
  <2>3. p[1] \in DOMAIN bucket /\ bucket[p[1]].lines = exLines
    BY <1>0, <2>1, <2>2 DEF ExportOK
  <2>4. /\ DOMAIN manifest' = DOMAIN manifest \union {p[1]}
        /\ manifest'[p[1]] = exLines
        /\ \A d \in DOMAIN manifest : d # p[1] => manifest'[d] = manifest[d]
    BY <2>2 DEF Put
  <2>5. QED
    BY <1>0, <2>1, <2>3, <2>4 DEF StoreOK, All, Expired, Age, Today, Late
<1>5. CASE UNCHANGED <<now, written, storeVars>>
  BY <1>0, <1>5 DEF StoreOK, All, Expired, Age, Today, Late
<1>6. QED
  BY <1>1, <1>2, <1>3, <1>4, <1>5
     DEF Next, RotStep, ExStep, vars, sensorVars, rotOnly, rdOnly, SensorRestarts,
         RotPlan, RotDelete, RotDeleted, RotOpens, RotCopies, RotUnlinks, RotDies,
         ExStarts, ExLabels, ExConverts, ExDies, RdLists, RdReads, RdEnds

LEMMA ReaderStep == IInv /\ [Next]_vars => ReaderOK'
<1> SUFFICES ASSUME IInv, [Next]_vars PROVE ReaderOK'
  OBVIOUS
<1> USE DEF rdVars, rdOnly
<1>0. Types /\ FilesOK /\ ReaderOK
  BY Zenon DEF IInv
<1>1. CASE Tick
  <2>1. UNCHANGED <<written, files, rdVars>>
    BY <1>1 DEF Tick, sensorVars, fileVars
  <2>2. \A d \in Days : (Expired(d) => Expired(d)') /\ (Late(d) => Late(d)')
    BY <1>0, <1>1, TimePasses DEF Types
  <2>3. QED
    BY <1>0, <2>1, <2>2 DEF ReaderOK
<1>2. ASSUME NEW e \in Days, SensorWrites(e) PROVE ReaderOK'
  <2>1. /\ UNCHANGED <<now, rdVars>> /\ files' = files \union {Plain(e)}
        /\ written' = [written EXCEPT ![e] = @ + 1]
    BY <1>2, SensorWritesFiles DEF SensorWrites
  <2>2. ~Late(e)
    BY <1>0, <1>2, NotLateWrites DEF Types
  <2>3. \A d \in Days : /\ written[d] <= written'[d]
                        /\ Late(d) /\ Plain(d) \in files' => Plain(d) \in files
    BY <1>0, <2>1, <2>2 DEF Types, Plain
  <2>4. \A d \in Days : rdStart[d] <= written'[d]
    BY <1>0, <2>1, <2>3 DEF Types, ReaderOK
  <2>5. QED
    BY <1>0, <2>1, <2>3, <2>4 DEF ReaderOK, Expired, Age, Today, Late
<1>3. CASE /\ UNCHANGED <<now, written, rdVars>>
           /\ \A d \in Days : Plain(d) \in files' => Plain(d) \in files
  BY <1>0, <1>3 DEF ReaderOK, Expired, Age, Today, Late
<1>4. CASE RdLists
  <2>1. UNCHANGED <<now, written, files>> /\ rd' = "reading" /\ rdTodo' = files /\ rdStart' = written
    BY <1>4 DEF RdLists, fileVars, sensorVars
  <2>2. ASSUME NEW d \in Days, ~Expired(d), Plain(d) \notin files
        PROVE  1..written[d] = {} \/ (Gz(d) \in files /\ Late(d))
    BY <1>0, <2>2 DEF FilesOK, FileOK, Types
  <2>3. \A d \in Days : written[d] <= written[d]
    BY <1>0 DEF Types
  <2>4. QED
    BY <2>1, <2>2, <2>3 DEF ReaderOK, Expired, Age, Today, Late
<1>5. CASE RdReads
  <2>1. UNCHANGED <<now, written, files>> /\ rd = "reading"
    BY <1>5 DEF RdReads, fileVars, sensorVars
  <2>2. CASE rd' = "idle" /\ rdStart' = [d \in Days |-> 0]
    <3>1. \A d \in Days : rdStart'[d] <= written'[d]
      BY <1>0, <2>1, <2>2 DEF Types
    <3>2. QED
      BY <2>2, <3>1 DEF ReaderOK
  <2>3. ASSUME NEW p \in rdTodo, NEW content \in Reading(p),
               rdSeen' = [rdSeen EXCEPT ![p[1]] = @ \union content],
               rdTodo' = rdTodo \ {p}, UNCHANGED <<rd, rdStart>>
        PROVE  ReaderOK'
    <3>1. p \in Paths /\ p[1] \in Days /\ p[2] \in {"jsonl", "gz"} /\ p = <<p[1], p[2]>>
      BY <1>0 DEF Types, Paths
    <3>2. \A d \in Days : rdSeen[d] \subseteq rdSeen'[d]
      BY <1>0, <2>3 DEF Types
    <3>3. content \subseteq rdSeen'[p[1]]
      BY <1>0, <2>3, <3>1 DEF Types
    <3>4. ASSUME NEW d \in Days, ~Expired(d), p = Plain(d)
          PROVE  1..rdStart[d] \subseteq rdSeen'[d]
      <4>1. p[1] = d /\ p[2] = "jsonl"
        BY <3>4 DEF Plain
      <4>2. content = 1..written[d]
        BY <1>0, <3>1, <3>4, <4>1, ReadsAll DEF All
      <4>3. rdStart[d] <= written[d] /\ rdStart[d] \in Nat /\ written[d] \in Nat
        BY <1>0 DEF ReaderOK, Types
      <4>4. QED
        BY <3>3, <4>1, <4>2, <4>3
    <3>5. ASSUME NEW d \in Days, ~Expired(d), p = Gz(d), Plain(d) \notin files
          PROVE  1..rdStart[d] \subseteq rdSeen'[d]
      <4>1. p[1] = d /\ p[2] = "gz"
        BY <3>5 DEF Gz
      <4>2. content = 1..written[d]
        BY <1>0, <3>1, <3>5, <4>1, ReadsAll DEF All
      <4>3. rdStart[d] <= written[d] /\ rdStart[d] \in Nat /\ written[d] \in Nat
        BY <1>0 DEF ReaderOK, Types
      <4>4. QED
        BY <3>3, <4>1, <4>2, <4>3
    <3>6. \A d \in Days : ~Expired(d) =>
            \/ 1..rdStart[d] \subseteq rdSeen'[d]
            \/ Plain(d) \in rdTodo'
            \/ Gz(d) \in rdTodo' /\ Plain(d) \notin files /\ Late(d)
      BY <1>0, <2>1, <2>3, <3>2, <3>4, <3>5 DEF ReaderOK
    <3>7. QED
      BY <1>0, <2>1, <2>3, <3>6 DEF ReaderOK, Expired, Age, Today, Late
  <2>4. QED
    BY <1>5, <2>2, <2>3 DEF RdReads
<1>6. CASE RdEnds
  BY <1>0, <1>6 DEF RdEnds, sensorVars, ReaderOK, Expired, Age, Today, Late
<1>7. ASSUME ~Tick, ~(\E e \in Days : SensorWrites(e)), ~RdLists, ~RdReads, ~RdEnds
      PROVE  /\ UNCHANGED <<now, written, rdVars>>
             /\ \A d \in Days : Plain(d) \in files' => Plain(d) \in files
  BY <1>7 DEF Next, RotStep, ExStep, vars, fileVars, sensorVars, rotOnly, exOnly, SensorRestarts,
       RotPlan, RotDelete, RotDeleted, RotOpens, RotCopies, RotUnlinks, Unlink, RotDies,
       ExStarts, ExLabels, ExConverts, ExUploads, ExLists, ExDies, Plain, Gz
<1>8. QED
  BY <1>1, <1>2, <1>3, <1>4, <1>5, <1>6, <1>7

-----------------------------------------------------------------------------
(* The theorems.                                                           *)

(* Time, files, handle, plans, export, store and reader fit together in    *)
(* every reachable state.                                                  *)
THEOREM DirectoryInvariant == Spec => []IInv
<1>1. Init => IInv
  BY InitIInv
<1>2. IInv /\ [Next]_vars => IInv'
  BY TypesStep, FilesStep, HandleStep, RotStepOK, ExportStep, StoreStep, ReaderStep DEF IInv
<1>3. QED
  BY <1>1, <1>2, PTL DEF Spec

(* A rotation, however it interleaves and wherever it dies, leaves every   *)
(* line of a day that is not up for deletion in a readable file.           *)
THEOREM NothingLostAlways == Spec => []NothingLost
<1>1. IInv => NothingLost
  <2> SUFFICES ASSUME IInv, NEW d \in Days, ~Expired(d), NEW i \in All(d)
               PROVE  \E p \in {Plain(d), Gz(d)} : Readable(p) /\ i \in lines[p]
    BY DEF NothingLost
  <2>1. FileOK(d) /\ written[d] \in Nat
    BY DEF IInv, FilesOK, Types
  <2>2. written[d] # 0
    BY <2>1 DEF All
  <2>3. CASE Plain(d) \in files
    BY <2>1, <2>3 DEF FileOK, Readable, Plain
  <2>4. CASE Plain(d) \notin files
    <3>1. Gz(d) \in files /\ d \notin cut /\ i \in lines[Gz(d)]
      BY <2>1, <2>2, <2>4 DEF FileOK
    <3>2. Gz(d)[1] = d
      BY DEF Gz
    <3>3. QED
      BY <3>1, <3>2 DEF Readable
  <2>5. QED
    BY <2>3, <2>4
<1>2. QED
  BY <1>1, DirectoryInvariant, PTL

(* Whatever the manifest of run() lists is in the bucket with that digest  *)
(* and is the whole of its day.                                            *)
THEOREM PublishedCompleteAlways == Spec => []PublishedComplete
<1>1. IInv => PublishedComplete
  BY DEF IInv, StoreOK, PublishedComplete
<1>2. QED
  BY <1>1, DirectoryInvariant, PTL

(* A retried upload of run() writes the same object again.                 *)
THEOREM ObjectsStay == Spec => ObjectsAreImmutable
<1>1. IInv /\ [Next]_vars => [\A d \in DOMAIN bucket : ~Expired(d) =>
                                 d \in DOMAIN bucket' /\ bucket'[d] = bucket[d]]_vars
  <2> SUFFICES ASSUME IInv, [Next]_vars, NEW d \in DOMAIN bucket, ~Expired(d)
               PROVE  d \in DOMAIN bucket' /\ bucket'[d] = bucket[d]
    OBVIOUS
  <2>1. ExportOK /\ StoreOK
    BY Zenon DEF IInv
  <2>2. CASE ExUploads
    <3>1. PICK p \in exTodo :
               /\ Leads(p, exTodo)
               /\ bucket' = Put(bucket, p[1], [lines |-> exLines, labelled |-> exLabelled])
      BY <2>2 DEF ExUploads
    <3>2. p[1] = d => exLines = All(d) /\ exLabelled = All(d)
      BY <2>1, <2>2, <3>1 DEF ExportOK, ExUploads
    <3>3. QED
      BY <2>1, <3>1, <3>2 DEF StoreOK, Put
  <2>3. CASE bucket' = bucket
    BY <2>3
  <2>4. QED
    BY <2>2, <2>3
       DEF Next, RotStep, ExStep, vars, storeVars, rotOnly, exOnly, rdOnly, Tick, SensorWrites,
           SensorRestarts, RotPlan, RotDelete, RotDeleted, RotOpens, RotCopies, RotUnlinks, RotDies,
           ExStarts, ExLabels, ExConverts, ExLists, ExDies, RdLists, RdReads, RdEnds
<1>2. QED
  BY <1>1, DirectoryInvariant, PTL DEF Spec, ObjectsAreImmutable

(* A run of read_events() that ends has yielded all that was there when it *)
(* listed the directory.                                                   *)
THEOREM ReaderMissesNothingAlways == Spec => []ReaderMissesNothing
<1>1. IInv => ReaderMissesNothing
  BY DEF IInv, ReaderOK, ReaderMissesNothing
<1>2. QED
  BY <1>1, DirectoryInvariant, PTL
=============================================================================
