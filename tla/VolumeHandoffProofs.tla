------------------------- MODULE VolumeHandoffProofs -------------------------
(***************************************************************************)
(* What FileMD deletes, the API has, for any number of crashes, restarts   *)
(* and failures, and what is ready is handed over.                         *)
(***************************************************************************)
EXTENDS VolumeHandoff, TLAPS

LEMMA FilesFacts == /\ Files = {"target.log", "tracer.log", "vfs.pdf"}
                    /\ Logs \subseteq Files
                    /\ Len(uploadFields) = 3
                    /\ \A i \in 1..3 : uploadFields[i] \in Files
                    /\ \A f \in Files : \E i \in 1..3 : uploadFields[i] = f
                    /\ \A i, j \in 1..3 : uploadFields[i] = uploadFields[j] => i = j
<1>1. DOMAIN uploadFields = 1..3 /\ Len(uploadFields) = 3
  BY DEF uploadFields
<1>2. /\ uploadFields[1] = "target.log"
      /\ uploadFields[2] = "tracer.log"
      /\ uploadFields[3] = "vfs.pdf"
  BY DEF uploadFields
<1>3. Files = {uploadFields[1], uploadFields[2], uploadFields[3]}
  <2>1. \A i : i \in 1..3 <=> i = 1 \/ i = 2 \/ i = 3
    OBVIOUS
  <2>2. QED
    BY <1>1, <2>1 DEF Files, Range
<1>4. QED
  BY <1>1, <1>2, <1>3 DEF Logs

\* Every variable keeps its shape.
LEMMA InitType == Init => TypeOK
<1>1. SUFFICES ASSUME Init PROVE TypeOK
  OBVIOUS
<1>2. NoFiles \in [Files -> Contents]
  BY DEF NoFiles, Contents
<1>3. faults \in 0..MaxFaults
  BY <1>1, MaxFaultsAssumption DEF Init
<1>4. Idle \in [pc : {"idle", "open", "copy", "unlock"}, log : Logs]
  BY DEF Idle, Logs
<1>5. Scanning \in [pc : {"scan", "read", "upload", "remove"}, at : 1..4,
                    attempt : 1..maxUploadRetries]
  BY DEF Scanning, FileMD, maxUploadRetries
<1>6. QED
  BY <1>1, <1>2, <1>3, <1>4, <1>5 DEF Init, TypeOK

LEMMA FaultType ==
  ASSUME TypeOK, Fault
  PROVE  faults' \in 0..MaxFaults
BY MaxFaultsAssumption DEF TypeOK, Fault

\* FileMD's record, whatever it is made of.
LEMMA FileMDType ==
  ASSUME NEW p \in {"scan", "read", "upload", "remove"}, NEW i \in 1..4,
         NEW n \in 1..3
  PROVE  FileMD(p, i, n) \in [pc : {"scan", "read", "upload", "remove"}, at : 1..4,
                              attempt : 1..maxUploadRetries]
BY DEF FileMD, maxUploadRetries

LEMMA EndPassType ==
  ASSUME TypeOK, EndPass
  PROVE  /\ filemd' \in [pc : {"scan", "read", "upload", "remove"}, at : 1..4,
                         attempt : 1..maxUploadRetries]
         /\ read' \in [Files -> Contents]
         /\ late' \subseteq Files /\ unread' \subseteq Files
<1>1. filemd' = FileMD("scan", 1, 1) /\ read' = NoFiles /\ late' = {} /\ unread' = {}
  BY DEF EndPass, Scanning
<1>2. QED
  BY <1>1, FileMDType DEF NoFiles, Contents

LEMMA NextAttemptType ==
  ASSUME TypeOK, NextAttempt
  PROVE  /\ filemd' \in [pc : {"scan", "read", "upload", "remove"}, at : 1..4,
                         attempt : 1..maxUploadRetries]
         /\ read' \in [Files -> Contents]
         /\ late' \subseteq Files /\ unread' \subseteq Files
<1>1. CASE filemd.attempt < maxUploadRetries
  <2>1. filemd.attempt + 1 \in 1..3 /\ filemd' = FileMD("upload", 1, filemd.attempt + 1)
    BY <1>1 DEF NextAttempt, TypeOK, maxUploadRetries
  <2>2. UNCHANGED <<read, late, unread>>
    BY <1>1 DEF NextAttempt
  <2>3. QED
    BY <2>1, <2>2, FileMDType DEF TypeOK
<1>2. CASE ~(filemd.attempt < maxUploadRetries)
  BY <1>2, EndPassType DEF NextAttempt
<1>3. QED
  BY <1>1, <1>2

\* DockerD, the tracer and their containers.
LEMMA DockerdType ==
  ASSUME TypeOK, DockerdStep \/ TracerWrites \/ TracerExits \/ DockerdCrashes
  PROVE  TypeOK'
<1>1. /\ dir \in BOOLEAN /\ locked \in BOOLEAN
      /\ ~dir => ~locked /\ file = NoFiles
  BY Zenon DEF TypeOK
<1>2. Unlock => locked' \in BOOLEAN /\ (~dir => ~locked')
  <2>1. CASE locked' = FALSE
    BY <2>1, Zenon
  <2>2. CASE locked' = locked
    <3>1. locked' \in BOOLEAN
      BY <1>1, <2>2, Zenon
    <3>2. ~dir => ~locked'
      BY <1>1, <2>2, Zenon
    <3>3. QED
      BY <3>1, <3>2
  <2>3. QED
    BY <2>1, <2>2 DEF Unlock
<1> USE FilesFacts DEF TypeOK, Contents, Collecting
<1>3. CASE BeginCollection
  BY <1>3 DEF BeginCollection, containers, volume, history, Logs
<1>4. CASE CollectionSkipped
  BY <1>4, FaultType DEF CollectionSkipped, containers, volume, history, Logs
<1>5. \A f \in Logs : After(f) \in [pc : {"idle", "open", "copy", "unlock"}, log : Logs]
  BY DEF After, Logs
<1>6. CASE OpenLog
  BY <1>6 DEF OpenLog, Write, containers, Logs
<1>7. CASE OpenLogFails
  BY <1>5, <1>7 DEF OpenLogFails, containers, volume, history
<1>8. CASE CopyLog
  <2>1. exposed' \subseteq Logs
    BY <1>8 DEF CopyLog
  <2>2. \/ UNCHANGED <<file, late>>
        \/ dir /\ \E f \in Files : Write(f, "full")
    <3> DEFINE f == collector.log
    <3>1. f \in Files
      OBVIOUS
    <3>2. file = NoFiles => file[f] = "none"
      BY <3>1 DEF NoFiles
    <3>3. CASE file[f] = "none"
      BY <1>8, <3>3 DEF CopyLog
    <3>4. CASE file[f] # "none"
      BY <1>8, <3>1, <3>2, <3>4, <1>1 DEF CopyLog
    <3>5. QED
      BY <3>3, <3>4
  <2>3. file' \in [Files -> Contents] /\ late' \subseteq Files
    BY <2>2 DEF Write
  <2>4. UNCHANGED <<containers, dir, locked, filemd, read, stored, faults, unread, wiped>>
    BY <1>8 DEF CopyLog
  <2>5. ~dir => file' = NoFiles
    BY <2>2
  <2>6. collector' \in [pc : {"idle", "open", "copy", "unlock"}, log : Logs]
    BY <1>5, <1>8 DEF CopyLog
  <2>7. QED
    BY <2>1, <2>3, <2>4, <2>5, <2>6 DEF containers
<1>9. CASE CopyLogFails
  BY <1>5, <1>9 DEF CopyLogFails, containers, volume
<1>10. CASE Unlock
  <2>1. locked' \in BOOLEAN /\ (~dir => ~locked')
    BY <1>10, <1>2
  <2>2. faults' \in 0..MaxFaults
    BY <1>10, FaultType DEF Unlock
  <2>3. collector' \in [pc : {"idle", "open", "copy", "unlock"}, log : Logs]
    BY <1>10 DEF Unlock, Idle, Logs
  <2>4. UNCHANGED <<containers, dir, file, filemd, read, stored, history>>
    BY <1>10 DEF Unlock
  <2>5. QED
    BY <2>1, <2>2, <2>3, <2>4 DEF containers, history
<1>11. CASE RemoveTarget \/ RemoveTracer
  <2>1. target' \in {"exited", "absent"} /\ tracer' \in {"running", "exited", "absent"}
    BY <1>11 DEF RemoveTarget, RemoveTracer
  <2>2. UNCHANGED <<volume, collector, filemd, read, stored, faults, history>>
    BY <1>11 DEF RemoveTarget, RemoveTracer
  <2>3. QED
    BY <2>1, <2>2 DEF volume, history
<1>12. CASE TracerWrites
  BY <1>12 DEF TracerWrites, Write, containers
<1>13. CASE TracerExits
  BY <1>13 DEF TracerExits, volume, history
<1>14. CASE DockerdCrashes
  <2>1. collector' \in [pc : {"idle", "open", "copy", "unlock"}, log : Logs]
    BY <1>14 DEF DockerdCrashes, Idle, Logs
  <2>2. exposed' \subseteq Logs /\ faults' \in 0..MaxFaults
    BY <1>14, FaultType DEF DockerdCrashes
  <2>3. target' \in {"exited", "absent"} /\ tracer' \in {"running", "exited", "absent"}
    BY <1>14 DEF DockerdCrashes, containers
  <2>4. UNCHANGED <<volume, filemd, read, stored, late, unread, wiped>>
    BY <1>14 DEF DockerdCrashes
  <2>5. QED
    BY <2>1, <2>2, <2>3, <2>4 DEF volume
<1>15. QED
  BY <1>3, <1>4, <1>6, <1>7, <1>8, <1>9, <1>10, <1>11, <1>12, <1>13, <1>14
     DEF DockerdStep

\* FileMD and the API, which stores what FileMD sends.
LEMMA FileMDStepType ==
  ASSUME TypeOK, FileMDStep \/ FileMDCrashes \/ ApiRestarts
  PROVE  TypeOK'
<1>1. CASE Scan
  <2>1. filemd' = FileMD("read", 1, 1)
    BY <1>1 DEF Scan
  <2>2. QED
    BY <1>1, <2>1, FileMDType DEF Scan, TypeOK, containers, volume, history
<1>2. CASE ReadLogFile
  <2>1. filemd.at \in 1..3 /\ uploadFields[filemd.at] \in Files
    BY <1>2, FilesFacts DEF ReadLogFile, TypeOK
  <2>2. filemd' \in [pc : {"scan", "read", "upload", "remove"}, at : 1..4,
                     attempt : 1..maxUploadRetries]
    BY <1>2, <2>1 DEF ReadLogFile, TypeOK
  <2>3. read' \in [Files -> Contents] /\ unread' \subseteq Files /\ late' \subseteq Files
    BY <1>2, <2>1 DEF ReadLogFile, TypeOK
  <2>4. faults' \in 0..MaxFaults
    BY <1>2, FaultType DEF ReadLogFile, TypeOK
  <2>5. UNCHANGED <<containers, volume, collector, stored, exposed, wiped>>
    BY <1>2 DEF ReadLogFile
  <2>6. QED
    BY <2>2, <2>3, <2>4, <2>5 DEF TypeOK, containers, volume
<1>3. CASE ReadDone
  <2>1. filemd' = FileMD("remove", 1, 1) \/ filemd' = FileMD("upload", 1, 1)
    BY <1>3 DEF ReadDone
  <2>2. filemd' \in [pc : {"scan", "read", "upload", "remove"}, at : 1..4,
                     attempt : 1..maxUploadRetries]
    BY <2>1, FileMDType
  <2>3. QED
    BY <1>3, <2>2 DEF ReadDone, TypeOK, containers, volume, history
<1>4. CASE SaveLog
  <2>1. filemd.at \in 1..3 /\ uploadFields[filemd.at] \in Files
    BY <1>4, FilesFacts DEF SaveLog, TypeOK
  <2>2. filemd' \in [pc : {"scan", "read", "upload", "remove"}, at : 1..4,
                     attempt : 1..maxUploadRetries]
    BY <1>4, <2>1 DEF SaveLog, TypeOK
  <2>3. stored' \in [Files -> Contents]
    BY <1>4, <2>1 DEF SaveLog, TypeOK
  <2>4. QED
    BY <1>4, <2>2, <2>3 DEF SaveLog, TypeOK, containers, volume, history
<1>5. CASE Uploaded
  <2>1. filemd' \in [pc : {"scan", "read", "upload", "remove"}, at : 1..4,
                     attempt : 1..maxUploadRetries]
    BY <1>5, FileMDType DEF Uploaded
  <2>2. wiped' = FALSE
    BY <1>5 DEF Uploaded
  <2>3. QED
    BY <1>5, <2>1, <2>2 DEF Uploaded, TypeOK, containers, volume
<1>6. CASE UploadFails
  BY <1>6, NextAttemptType DEF UploadFails, TypeOK, containers, volume
<1>7. CASE RemoveVolume
  <2>1. dir' = FALSE /\ locked' = FALSE /\ file' = NoFiles
    BY <1>7 DEF RemoveVolume
  <2>2. file' \in [Files -> Contents]
    BY <2>1 DEF NoFiles, Contents
  <2>3. EndPass /\ UNCHANGED <<containers, collector, stored, faults, exposed, wiped>>
    BY <1>7 DEF RemoveVolume
  <2>4. QED
    BY <2>1, <2>2, <2>3, EndPassType DEF TypeOK, containers
<1>8. CASE RemoveFails
  <2>1. dir /\ file' \in [Files -> Contents] /\ EndPass /\ Fault
    BY <1>8 DEF RemoveFails, TypeOK, Contents
  <2>2. UNCHANGED <<containers, dir, locked, collector, stored, exposed, wiped>>
    BY <1>8 DEF RemoveFails
  <2>3. QED
    BY <2>1, <2>2, EndPassType, FaultType DEF TypeOK, containers
<1>9. CASE FileMDCrashes
  BY <1>9, EndPassType, FaultType DEF FileMDCrashes, TypeOK, containers, volume
<1>10. CASE ApiRestarts
  <2>1. /\ filemd' \in [pc : {"scan", "read", "upload", "remove"}, at : 1..4,
                        attempt : 1..maxUploadRetries]
        /\ read' \in [Files -> Contents]
        /\ late' \subseteq Files /\ unread' \subseteq Files
    <3>1. CASE filemd.pc = "upload"
      BY <1>10, <3>1, NextAttemptType DEF ApiRestarts
    <3>2. CASE filemd.pc # "upload"
      BY <1>10, <3>2 DEF ApiRestarts, TypeOK
    <3>3. QED
      BY <3>1, <3>2
  <2>2. stored' \in [Files -> Contents] /\ faults' \in 0..MaxFaults
    BY <1>10, FaultType DEF ApiRestarts, NoFiles, Contents
  <2>3. wiped' = TRUE /\ UNCHANGED <<containers, volume, collector, exposed>>
    BY <1>10 DEF ApiRestarts
  <2>4. QED
    BY <2>1, <2>2, <2>3 DEF TypeOK, containers, volume
<1>11. QED
  BY <1>1, <1>2, <1>3, <1>4, <1>5, <1>6, <1>7, <1>8, <1>9, <1>10 DEF FileMDStep

LEMMA StepType == TypeOK /\ [Next]_vars => TypeOK'
<1>1. ASSUME TypeOK, UNCHANGED vars PROVE TypeOK'
  BY <1>1 DEF TypeOK, vars, containers, volume, history
<1>2. QED
  BY <1>1, DockerdType, FileMDStepType DEF Next

THEOREM HandoffTypeCorrect == Spec => []TypeOK
BY InitType, StepType, PTL DEF Spec
-----------------------------------------------------------------------------
\* The steps that leave FileMD where it is, and those that end its pass.
FileMDRests == UNCHANGED <<filemd, read, unread>>

LEMMA WhoMovesFileMD ==
  ASSUME TypeOK, [Next]_vars
  PROVE  \/ FileMDRests /\ (UNCHANGED <<stored, wiped>> \/ ApiRestarts)
         \/ EndPass
         \/ Scan \/ ReadLogFile \/ ReadDone \/ SaveLog \/ Uploaded
         \/ filemd.pc = "upload" /\ NextAttempt /\ (UploadFails \/ ApiRestarts)
<1> USE DEF FileMDRests
<1>1. CASE DockerdStep \/ TracerWrites \/ TracerExits \/ DockerdCrashes
  BY <1>1 DEF DockerdStep, BeginCollection, CollectionSkipped, OpenLog,
              OpenLogFails, CopyLog, CopyLogFails, Unlock, RemoveTarget,
              RemoveTracer, TracerWrites, TracerExits, DockerdCrashes, history
<1>2. CASE FileMDStep
  BY <1>2 DEF FileMDStep, UploadFails, RemoveVolume, RemoveFails
<1>3. CASE FileMDCrashes \/ ApiRestarts
  BY <1>3 DEF FileMDCrashes, ApiRestarts
<1>4. CASE UNCHANGED vars
  BY <1>4 DEF vars, history
<1>5. QED
  BY <1>1, <1>2, <1>3, <1>4 DEF Next

\* What an attempt has sent so far is stored as it was read; a new attempt
\* starts with the first file.
StoredInv ==
  /\ filemd.pc = "upload" =>
       \A i \in 1..3 :
         i < filemd.at /\ read[uploadFields[i]] # "none"
           => stored[uploadFields[i]] = read[uploadFields[i]]
  /\ DeletedIsStored

LEMMA StepStored ==
  ASSUME TypeOK, StoredInv, [Next]_vars
  PROVE  StoredInv'
<1> USE DEF StoredInv, DeletedIsStored
<1>1. CASE FileMDRests /\ UNCHANGED <<stored, wiped>>
  BY <1>1 DEF FileMDRests
<1>2. CASE filemd.pc # "upload" /\ ApiRestarts
  BY <1>2 DEF ApiRestarts
<1>3. CASE EndPass \/ Scan
  BY <1>3 DEF EndPass, Scan, Scanning, FileMD
<1>4. CASE ReadLogFile
  BY <1>4 DEF ReadLogFile, TypeOK
<1>5. CASE ReadDone
  <2>1. filemd' = FileMD(IF read = NoFiles THEN "remove" ELSE "upload", 1, 1)
        /\ read' = read
    BY <1>5 DEF ReadDone
  <2>2. read = NoFiles => \A f \in Files : read[f] = "none"
    BY DEF NoFiles
  <2>3. QED
    BY <2>1, <2>2 DEF FileMD
<1>6. CASE SaveLog
  <2>1. filemd.at \in 1..3 /\ \A i \in 1..3 : uploadFields[i] \in Files
    BY <1>6, FilesFacts DEF SaveLog, TypeOK
  <2>2. /\ stored' = [stored EXCEPT ![uploadFields[filemd.at]] =
                        IF read[uploadFields[filemd.at]] = "none"
                          THEN @ ELSE read[uploadFields[filemd.at]]]
        /\ filemd'.at = filemd.at + 1 /\ filemd'.pc = "upload"
        /\ read' = read /\ filemd.pc = "upload"
    BY <1>6 DEF SaveLog, TypeOK
  <2>3. QED
    BY <2>1, <2>2 DEF TypeOK
<1>7. CASE Uploaded
  <2>1. \A i \in 1..3 : i < filemd.at
    BY <1>7, FilesFacts DEF Uploaded, TypeOK
  <2>2. filemd'.pc = "remove" /\ UNCHANGED <<read, stored>> /\ filemd.pc = "upload"
    BY <1>7 DEF Uploaded, FileMD
  <2>3. QED
    BY <2>1, <2>2, FilesFacts
<1>8. CASE NextAttempt
  BY <1>8 DEF NextAttempt, EndPass, Scanning, FileMD
<1>9. QED
  BY <1>1, <1>2, <1>3, <1>4, <1>5, <1>6, <1>7, <1>8, WhoMovesFileMD
     DEF ApiRestarts

\* FileMD deletes a directory only when the API has what was read of it, unless
\* the API has restarted meanwhile.
THEOREM DeletionIsCovered == Spec => []DeletedIsStored
<1>1. Init => StoredInv
  BY DEF Init, StoredInv, DeletedIsStored, Scanning, FileMD
<1>2. TypeOK /\ StoredInv /\ [Next]_vars => StoredInv'
  BY StepStored
<1>3. StoredInv => DeletedIsStored
  BY DEF StoredInv
<1>4. QED
  BY <1>1, <1>2, <1>3, HandoffTypeCorrect, PTL DEF Spec
-----------------------------------------------------------------------------
\* While FileMD is at work the lock is gone, for it does not come back.
LockInv ==
  /\ filemd.pc # "scan" => ~locked
  /\ filemd.pc = "scan" => read = NoFiles

LEMMA StepLock ==
  ASSUME TypeOK, LockInv, [Next]_vars
  PROVE  LockInv'
<1> USE DEF LockInv
<1>1. locked' => locked
  <2>1. DockerdStep => (locked' => locked)
    BY DEF DockerdStep, BeginCollection, CollectionSkipped, OpenLog, OpenLogFails,
           CopyLog, CopyLogFails, Unlock, RemoveTarget, RemoveTracer, volume
  <2>2. FileMDStep => (locked' => locked)
    BY DEF FileMDStep, Scan, ReadLogFile, ReadDone, SaveLog, Uploaded, UploadFails,
           RemoveVolume, RemoveFails, volume
  <2>3. TracerWrites \/ TracerExits \/ DockerdCrashes \/ FileMDCrashes \/ ApiRestarts
          => (locked' => locked)
    BY DEF TracerWrites, TracerExits, DockerdCrashes, FileMDCrashes, ApiRestarts,
           volume
  <2>4. QED
    BY <2>1, <2>2, <2>3 DEF Next, vars, volume
<1>2. CASE FileMDRests
  BY <1>1, <1>2 DEF FileMDRests
<1>3. CASE EndPass
  BY <1>1, <1>3 DEF EndPass, Scanning, FileMD
<1>4. CASE Scan
  BY <1>1, <1>4 DEF Scan, FileMD, Ready
<1>5. CASE ReadLogFile
  BY <1>1, <1>5 DEF ReadLogFile, TypeOK
<1>6. CASE ReadDone \/ SaveLog \/ Uploaded
  BY <1>1, <1>6 DEF ReadDone, SaveLog, Uploaded, FileMD, TypeOK
<1>7. CASE filemd.pc = "upload" /\ NextAttempt
  BY <1>1, <1>7 DEF NextAttempt, EndPass, Scanning, FileMD
<1>8. QED
  BY <1>2, <1>3, <1>4, <1>5, <1>6, <1>7, WhoMovesFileMD

\* A half written log is one that DockerD is writing under the lock, or exposed.
HalfWrittenInv ==
  /\ \A f \in Logs : file[f] = "partial"
       => f \in exposed \/ (locked /\ collector = Collecting("copy", f))
  /\ HalfReadIsExposed

LEMMA DockerdStepHalfWritten ==
  ASSUME TypeOK, LockInv, HalfWrittenInv,
         DockerdStep \/ TracerWrites \/ TracerExits \/ DockerdCrashes
  PROVE  HalfWrittenInv'
<1> USE FilesFacts DEF HalfWrittenInv, HalfReadIsExposed
<1>1. UNCHANGED <<filemd, read>>
  BY DEF DockerdStep, BeginCollection, CollectionSkipped, OpenLog, OpenLogFails,
         CopyLog, CopyLogFails, Unlock, RemoveTarget, RemoveTracer, TracerWrites,
         TracerExits, DockerdCrashes
<1>2. locked => \A f \in Logs : read[f] # "partial"
  BY DEF LockInv, NoFiles
<1>3. collector.log \in Logs
  BY DEF TypeOK
<1>4. \A f \in Logs : collector = Collecting("copy", f)
                        => collector.pc = "copy" /\ collector.log = f
  BY DEF Collecting
<1>5. CASE BeginCollection \/ CollectionSkipped \/ OpenLogFails
  <2>1. collector.pc # "copy" /\ UNCHANGED <<file, exposed>>
    BY <1>5 DEF BeginCollection, CollectionSkipped, OpenLogFails, volume, history
  <2>2. QED
    BY <1>1, <1>4, <2>1
<1>6. CASE OpenLog
  <2>1. file' = [file EXCEPT ![collector.log] = "partial"] /\ locked' = locked
    BY <1>6 DEF OpenLog, Write
  <2>2. /\ collector' = Collecting("copy", collector.log)
        /\ exposed' = exposed \cup IF locked THEN {} ELSE {collector.log}
        /\ collector.pc = "open"
    BY <1>6 DEF OpenLog
  <2>3. ASSUME NEW f \in Logs, file'[f] = "partial", f # collector.log
        PROVE  f \in exposed
    <3>1. file[f] = "partial" /\ collector # Collecting("copy", f)
      BY <1>4, <2>1, <2>2, <2>3 DEF TypeOK
    <3>2. QED
      BY <3>1
  <2>4. \A f \in Logs : file'[f] = "partial"
          => f \in exposed' \/ (locked' /\ collector' = Collecting("copy", f))
    BY <2>1, <2>2, <2>3
  <2>5. exposed \subseteq exposed'
    BY <2>2
  <2>6. QED
    BY <1>1, <2>4, <2>5
<1>7. CASE CopyLog
  <2>1. \/ file' = file /\ file[collector.log] = "none"
        \/ file' = [file EXCEPT ![collector.log] = "full"]
    BY <1>7 DEF CopyLog, Write
  <2>2. /\ locked' = locked
        /\ exposed' = exposed \ IF locked THEN {collector.log} ELSE {}
    BY <1>7 DEF CopyLog
  <2>3. ASSUME NEW f \in Logs, file'[f] = "partial"
        PROVE  f # collector.log /\ f \in exposed
    BY <1>3, <1>4, <2>1, <2>3 DEF TypeOK
  <2>4. QED
    BY <1>1, <1>2, <2>2, <2>3
<1>8. CASE CopyLogFails
  <2>1. exposed' = exposed \cup {collector.log} /\ UNCHANGED volume
    BY <1>8 DEF CopyLogFails
  <2>2. \A f \in Logs : file[f] = "partial" => f \in exposed'
    BY <1>4, <2>1
  <2>3. QED
    BY <1>1, <2>1, <2>2 DEF volume
<1>9. CASE Unlock
  <2>1. collector.pc = "unlock" /\ UNCHANGED <<file, exposed>>
    BY <1>9 DEF Unlock, history
  <2>2. QED
    BY <1>1, <1>4, <2>1
<1>10. CASE RemoveTarget \/ RemoveTracer \/ TracerExits
  BY <1>1, <1>10 DEF RemoveTarget, RemoveTracer, TracerExits, volume, history
<1>11. CASE TracerWrites
  <2>1. "vfs.pdf" \notin Logs /\ UNCHANGED <<locked, collector, exposed>>
    BY <1>11 DEF TracerWrites, Logs
  <2>2. QED
    BY <1>1, <1>11, <2>1 DEF TracerWrites, Write, TypeOK
<1>12. CASE DockerdCrashes
  <2>1. /\ exposed' = exposed \cup IF collector.pc = "copy" THEN {collector.log} ELSE {}
        /\ UNCHANGED volume
    BY <1>12 DEF DockerdCrashes
  <2>2. QED
    BY <1>1, <1>4, <2>1 DEF volume
<1>13. QED
  BY <1>5, <1>6, <1>7, <1>8, <1>9, <1>10, <1>11, <1>12 DEF DockerdStep

LEMMA FileMDStepHalfWritten ==
  ASSUME TypeOK, LockInv, HalfWrittenInv, FileMDStep \/ FileMDCrashes \/ ApiRestarts
  PROVE  HalfWrittenInv'
<1> USE FilesFacts DEF HalfWrittenInv, HalfReadIsExposed
<1>1. UNCHANGED <<collector, exposed>>
  BY DEF FileMDStep, Scan, ReadLogFile, ReadDone, SaveLog, Uploaded, UploadFails,
         RemoveVolume, RemoveFails, FileMDCrashes, ApiRestarts, history
<1>2. \/ UNCHANGED <<file, locked>>
      \/ locked' = locked /\ \A f \in Files : file'[f] \in {file[f], "none"}
      \/ file' = NoFiles
  BY DEF FileMDStep, Scan, ReadLogFile, ReadDone, SaveLog, Uploaded, UploadFails,
         RemoveVolume, RemoveFails, FileMDCrashes, ApiRestarts, volume
<1>3. \A f \in Logs : file'[f] = "partial" => file[f] = "partial" /\ locked' = locked
  BY <1>2 DEF NoFiles
<1>4. CASE ReadLogFile
  <2>1. filemd.pc = "read" /\ uploadFields[filemd.at] \in Files
    BY <1>4 DEF ReadLogFile, TypeOK
  <2>2. read' = read
        \/ read' = [read EXCEPT ![uploadFields[filemd.at]] = file[uploadFields[filemd.at]]]
    BY <1>4 DEF ReadLogFile
  <2>3. ~locked
    BY <2>1 DEF LockInv
  <2>4. QED
    BY <1>1, <1>3, <2>1, <2>2, <2>3 DEF TypeOK
<1>5. CASE read' = read \/ read' = NoFiles
  BY <1>1, <1>3, <1>5 DEF NoFiles
<1>6. QED
  BY <1>4, <1>5
     DEF FileMDStep, Scan, ReadDone, SaveLog, Uploaded, UploadFails, RemoveVolume,
         RemoveFails, FileMDCrashes, ApiRestarts, NextAttempt, EndPass

\* The lock keeps FileMD from reading a log that is being collected.
THEOREM LockGuardsCollection == Spec => []HalfReadIsExposed
<1>1. Init => LockInv /\ HalfWrittenInv
  BY FilesFacts
     DEF Init, LockInv, HalfWrittenInv, HalfReadIsExposed, Scanning, FileMD, NoFiles
<1>2. TypeOK /\ LockInv /\ HalfWrittenInv /\ [Next]_vars => LockInv' /\ HalfWrittenInv'
  <2>1. ASSUME HalfWrittenInv, UNCHANGED vars PROVE HalfWrittenInv'
    BY <2>1 DEF HalfWrittenInv, HalfReadIsExposed, vars, volume, history
  <2>2. QED
    BY <2>1, StepLock, DockerdStepHalfWritten, FileMDStepHalfWritten DEF Next
<1>3. HalfWrittenInv => HalfReadIsExposed
  BY DEF HalfWrittenInv
<1>4. QED
  BY <1>1, <1>2, <1>3, HandoffTypeCorrect, PTL DEF Spec
-----------------------------------------------------------------------------
\* What FileMD has passed and is complete in the directory it has read complete,
\* but for a file that came late or that it could not read.
Passed(i) == (filemd.pc = "read" /\ i < filemd.at) \/ filemd.pc \in {"upload", "remove"}

PassedInv ==
  \A i \in 1..3 :
    Passed(i) /\ file[uploadFields[i]] = "full"
              /\ uploadFields[i] \notin late \cup unread
      => read[uploadFields[i]] = "full"

\* Who changes the files, and which are late.
LEMMA WhoWrites ==
  ASSUME TypeOK, [Next]_vars
  PROVE  \/ UNCHANGED <<file, late>>
         \/ FileMDRests /\ \E f \in Files, c \in {"partial", "full"} : Write(f, c)
         \/ EndPass /\ (file' = file \/ filemd.pc = "remove")
         \/ ReadLogFile /\ file' = file
<1> USE DEF FileMDRests
<1>1. CASE OpenLog
  <2>1. Write(collector.log, "partial") /\ collector.log \in Files
    BY <1>1, FilesFacts DEF OpenLog, TypeOK
  <2>2. QED
    BY <1>1, <2>1 DEF OpenLog
<1>2. CASE CopyLog
  <2>1. UNCHANGED <<file, late>> \/ Write(collector.log, "full")
    BY <1>2 DEF CopyLog
  <2>2. collector.log \in Files
    BY FilesFacts DEF TypeOK
  <2>3. QED
    BY <1>2, <2>1, <2>2 DEF CopyLog
<1>3. CASE TracerWrites
  BY <1>3, FilesFacts DEF TracerWrites
<1>4. CASE BeginCollection \/ CollectionSkipped \/ OpenLogFails \/ CopyLogFails
            \/ Unlock \/ RemoveTarget \/ RemoveTracer \/ TracerExits \/ DockerdCrashes
  BY <1>4 DEF BeginCollection, CollectionSkipped, OpenLogFails, CopyLogFails, Unlock,
              RemoveTarget, RemoveTracer, TracerExits, DockerdCrashes, volume, history
<1>5. CASE Scan \/ ReadDone \/ SaveLog \/ Uploaded
  BY <1>5 DEF Scan, ReadDone, SaveLog, Uploaded, volume, history
<1>6. CASE ReadLogFile
  BY <1>6 DEF ReadLogFile, volume
<1>7. CASE UploadFails \/ ApiRestarts
  BY <1>7 DEF UploadFails, ApiRestarts, NextAttempt, volume
<1>8. CASE RemoveVolume \/ RemoveFails \/ FileMDCrashes
  BY <1>8 DEF RemoveVolume, RemoveFails, FileMDCrashes, volume
<1>9. CASE UNCHANGED vars
  BY <1>9 DEF vars, volume, history
<1>10. QED
  BY <1>1, <1>2, <1>3, <1>4, <1>5, <1>6, <1>7, <1>8, <1>9
     DEF Next, DockerdStep, FileMDStep

LEMMA StepPassed ==
  ASSUME TypeOK, PassedInv, [Next]_vars
  PROVE  PassedInv'
<1> USE DEF PassedInv, Passed
<1>1. CASE EndPass
  BY <1>1 DEF EndPass, Scanning, FileMD
<1>2. CASE FileMDRests /\ \E f \in Files, c \in {"partial", "full"} : Write(f, c)
  <2>1. PICK f \in Files, c \in {"partial", "full"} : Write(f, c)
    BY <1>2
  <2>2. file' = [file EXCEPT ![f] = c]
        /\ (filemd.pc # "scan" => late' = late \cup {f})
    BY <2>1 DEF Write
  <2>3. UNCHANGED <<filemd, read, unread>>
    BY <1>2 DEF FileMDRests
  <2>4. QED
    BY <2>2, <2>3, FilesFacts DEF TypeOK
<1>3. CASE ReadLogFile /\ file' = file
  <2>1. filemd.pc = "read" /\ filemd.at \in 1..3
    BY <1>3, FilesFacts DEF ReadLogFile, TypeOK
  <2>2. filemd'.pc = "read" /\ filemd'.at = filemd.at + 1
    BY <1>3, <2>1 DEF ReadLogFile, TypeOK
  <2>3. late' = late \ {uploadFields[filemd.at]}
    BY <1>3 DEF ReadLogFile
  <2>4. \/ read' = [read EXCEPT ![uploadFields[filemd.at]] =
                                  file[uploadFields[filemd.at]]]
           /\ unread' = unread
        \/ read' = read /\ unread' = unread \cup {uploadFields[filemd.at]}
    BY <1>3 DEF ReadLogFile
  <2>5. ASSUME NEW i \in 1..3, i < filemd'.at, file[uploadFields[i]] = "full",
               uploadFields[i] \notin late' \cup unread'
        PROVE  read'[uploadFields[i]] = "full"
    <3>1. CASE i = filemd.at
      BY <2>4, <2>5, <3>1, FilesFacts DEF TypeOK
    <3>2. CASE i < filemd.at
      <4>1. uploadFields[i] # uploadFields[filemd.at]
        BY <2>1, <3>2, FilesFacts
      <4>2. uploadFields[i] \notin late \cup unread
        BY <2>3, <2>4, <2>5, <4>1
      <4>3. read[uploadFields[i]] = "full"
        BY <2>1, <2>5, <3>2, <4>2
      <4>4. read'[uploadFields[i]] = read[uploadFields[i]]
        BY <2>4, <4>1, FilesFacts DEF TypeOK
      <4>5. QED
        BY <4>3, <4>4
    <3>3. QED
      BY <2>1, <2>2, <2>5, <3>1, <3>2
  <2>6. QED
    BY <1>3, <2>2, <2>5
<1>4. CASE UNCHANGED <<file, late>> /\ FileMDRests
  BY <1>4 DEF FileMDRests
<1>5. CASE UNCHANGED <<file, late>> /\ ReadDone
  <2>1. /\ filemd.pc = "read" /\ filemd.at > 3 /\ filemd.at \in 1..4
        /\ UNCHANGED <<read, unread>>
    BY <1>5, FilesFacts DEF ReadDone, history, TypeOK
  <2>2. QED
    BY <1>5, <2>1
<1>6. CASE UNCHANGED <<file, late>> /\ (Scan \/ SaveLog \/ Uploaded)
  BY <1>6 DEF Scan, SaveLog, Uploaded, FileMD, history, TypeOK
<1>7. CASE UNCHANGED <<file, late>> /\ filemd.pc = "upload" /\ NextAttempt
  BY <1>1, <1>7 DEF NextAttempt, FileMD
<1>8. CASE UNCHANGED <<file, late>> /\ ReadLogFile
  BY <1>3, <1>8 DEF ReadLogFile, volume
<1>9. QED
  BY <1>1, <1>2, <1>3, <1>4, <1>5, <1>6, <1>7, <1>8, WhoWrites, WhoMovesFileMD

\* A complete file is lost only if it came after it was read, could not be read,
\* or the API has restarted since the upload.
THEOREM LossIsExplained == Spec => OnlyLateFilesAreLost
<1> DEFINE Lost(f) == file[f] = "full" /\ file'[f] = "none" /\ stored[f] # "full"
<1>1. Init => StoredInv /\ PassedInv
  BY DEF Init, StoredInv, DeletedIsStored, PassedInv, Passed, Scanning, FileMD
<1>2. TypeOK /\ StoredInv /\ PassedInv /\ [Next]_vars => StoredInv' /\ PassedInv'
  BY StepStored, StepPassed
<1>3. TypeOK /\ StoredInv /\ PassedInv /\ [Next]_vars
        => [\A f \in Files : Lost(f) => f \in late \cup unread \/ wiped]_vars
  <2>1. SUFFICES ASSUME TypeOK, StoredInv, PassedInv, [Next]_vars, NEW f \in Files,
                        Lost(f), f \notin late \cup unread, ~wiped
                 PROVE  FALSE
    OBVIOUS
  <2>2. \A g \in Files, c \in {"partial", "full"} : Write(g, c) => file'[f] # "none"
    BY <2>1 DEF Write, TypeOK
  <2>3. filemd.pc = "remove"
    BY <2>1, <2>2, WhoWrites
  <2>4. read[f] = "full"
    BY <2>1, <2>3, FilesFacts DEF PassedInv, Passed
  <2>5. QED
    BY <2>1, <2>3, <2>4 DEF StoredInv, DeletedIsStored
<1>4. QED
  BY <1>1, <1>2, <1>3, HandoffTypeCorrect, PTL DEF Spec, OnlyLateFilesAreLost
-----------------------------------------------------------------------------
\* How far FileMD has come with the directory.
Place == CASE filemd.pc = "scan"   -> 0
           [] filemd.pc = "read"   -> filemd.at
           [] filemd.pc = "upload" -> 4 + filemd.at
           [] filemd.pc = "remove" -> 9

LEMMA PlaceIsBounded ==
  ASSUME TypeOK
  PROVE  Place \in 0..9
BY DEF Place, TypeOK

\* Without faults and failing uploads FileMD never goes back, and its own steps
\* take it on, until the directory is gone.
LEMMA CalmStep ==
  ASSUME TypeOK, [Next]_vars, faults' = faults, ~UploadFails, HasLogs'
  PROVE  /\ Place' >= Place
         /\ FileMDStep => Place' > Place
<1>1. ~Fault /\ ~RemoveVolume
  BY MaxFaultsAssumption DEF Fault, TypeOK, RemoveVolume, HasLogs
<1>2. Place \in 0..9 /\ filemd.at \in 1..4
  BY PlaceIsBounded DEF TypeOK
<1>3. Scan => Place = 0 /\ Place' = 1
  BY DEF Scan, FileMD, Place
<1>4. ReadLogFile => Place = filemd.at /\ Place' = filemd.at + 1
  BY DEF ReadLogFile, TypeOK, Place
<1>5. ReadDone => Place <= 4 /\ Place' \in {5, 9}
  BY <1>2 DEF ReadDone, FileMD, Place
<1>6. SaveLog => Place = 4 + filemd.at /\ Place' = 5 + filemd.at
  BY <1>2 DEF SaveLog, TypeOK, Place
<1>7. Uploaded => Place <= 8 /\ Place' = 9
  BY <1>2 DEF Uploaded, FileMD, Place
<1>8. FileMDStep => Place' > Place
  BY <1>1, <1>2, <1>3, <1>4, <1>5, <1>6, <1>7 DEF FileMDStep, RemoveFails
<1>9. CASE DockerdStep \/ TracerWrites \/ TracerExits \/ UNCHANGED vars
  <2>1. filemd' = filemd
    BY <1>9 DEF DockerdStep, BeginCollection, CollectionSkipped, OpenLog,
                OpenLogFails, CopyLog, CopyLogFails, Unlock, RemoveTarget,
                RemoveTracer, TracerWrites, TracerExits, vars
  <2>2. Place' = Place
    BY <2>1 DEF Place
  <2>3. QED
    BY <1>2, <1>8, <2>2
<1>10. ~(DockerdCrashes \/ FileMDCrashes \/ ApiRestarts)
  BY <1>1 DEF DockerdCrashes, FileMDCrashes, ApiRestarts
<1>11. CASE FileMDStep
  BY <1>1, <1>2, <1>3, <1>4, <1>5, <1>6, <1>7, <1>11 DEF FileMDStep, RemoveFails
<1>12. QED
  BY <1>9, <1>10, <1>11 DEF Next

\* FileMD's loop has a step to take while it is at work or a directory is ready.
LoopIsEnabled == filemd.pc # "scan" \/ Ready => ENABLED <<FileMDStep>>_vars

\* Crashes and failures of file operations come to an end.
FaultsEnd == <>[][faults' = faults]_vars

\* An unlocked directory with logs is handed over: each of FileMD's steps takes
\* it on towards the deletion, wherever it was, unless an upload fails, and if
\* uploads do not fail for ever there is a last one.
THEOREM ReadyAreHandedOver ==
  Spec /\ []LoopIsEnabled /\ FaultsEnd => ReadyIsHandedOver
<1> DEFINE At(n) == HasLogs /\ Place >= n
           Calm == [faults' = faults]_vars /\ ~<<UploadFails>>_vars
           On(n, m) == /\ At(n)' \/ At(m)' \/ ~HasLogs'
                       /\ <<FileMDStep>>_vars => At(m)' \/ ~HasLogs'
           Move == TypeOK /\ TypeOK' /\ [Next]_vars /\ Calm
           Run == /\ []TypeOK /\ [][Next]_vars /\ [][Calm]_vars
                  /\ []LoopIsEnabled /\ WF_vars(FileMDStep)
<1>1. HasLogs /\ TypeOK /\ LoopIsEnabled => ENABLED <<FileMDStep>>_vars
  <2>1. HasLogs /\ TypeOK => Ready
    <3>1. SUFFICES ASSUME HasLogs, TypeOK PROVE Ready
      OBVIOUS
    <3>2. file \in [Files -> Contents] /\ file # [f \in Files |-> "none"] /\ dir
      BY <3>1 DEF HasLogs, TypeOK, NoFiles
    <3>3. QED
      BY <3>1, <3>2 DEF Ready, HasLogs
  <2>2. QED
    BY <2>1 DEF LoopIsEnabled
<1>2. TypeOK' => Place' \in 0..9
  BY DEF Place, TypeOK
<1>3. ASSUME NEW n \in 0..9, NEW m \in 1..10, m = n + 1, Move, At(n)
      PROVE  On(n, m)
  <2>1. SUFFICES ASSUME HasLogs'
                 PROVE  Place' >= n /\ (<<FileMDStep>>_vars => Place' >= m)
    OBVIOUS
  <2>2. CASE UNCHANGED vars
    <3>1. Place' = Place
      BY <2>2 DEF vars, Place
    <3>2. QED
      BY <1>3, <2>2, <3>1
  <2>3. CASE vars' # vars
    <3>1. Place' >= Place /\ (FileMDStep => Place' > Place)
      BY <1>3, <2>1, <2>3, CalmStep
    <3>2. Place \in 0..9 /\ Place' \in 0..9
      BY <1>2, <1>3, PlaceIsBounded
    <3>3. QED
      BY <1>3, <3>1, <3>2
  <2>4. QED
    BY <2>2, <2>3
<1> HIDE DEF On, Move
<1>4. /\ Move /\ At(0) => On(0, 1)
      /\ Move /\ At(1) => On(1, 2)
      /\ Move /\ At(2) => On(2, 3)
      /\ Move /\ At(3) => On(3, 4)
      /\ Move /\ At(4) => On(4, 5)
      /\ Move /\ At(5) => On(5, 6)
      /\ Move /\ At(6) => On(6, 7)
      /\ Move /\ At(7) => On(7, 8)
      /\ Move /\ At(8) => On(8, 9)
      /\ Move /\ At(9) => On(9, 10)
  BY <1>3
<1>5. TypeOK => (HasLogs => At(0)) /\ ~At(10)
  BY PlaceIsBounded
<1> HIDE DEF At
<1>6. Run => (HasLogs ~> ~HasLogs)
  BY <1>1, <1>4, <1>5, PTL DEF On, Move, Run
<1>7. Spec /\ []LoopIsEnabled /\ FaultsEnd
        => []<><<UploadFails>>_vars \/ (HasLogs ~> ~HasLogs)
  BY <1>6, HandoffTypeCorrect, PTL DEF Spec, FaultsEnd, Run
<1>8. QED
  BY <1>7 DEF ReadyIsHandedOver
=============================================================================
