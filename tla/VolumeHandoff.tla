---------------------------- MODULE VolumeHandoff ----------------------------
(***************************************************************************)
(* The logs of one session on their way from its containers to the API,    *)
(* from the moment its target has exited.  DockerD collects them into the  *)
(* session's directory with every poll for as long as the target is there, *)
(* and unlocks the directory each time.  FileMD looks for an unlocked      *)
(* directory, reads its files one by one, uploads them in up to three      *)
(* attempts and deletes the directory.  The API stores what it is sent     *)
(* file by file, in memory.  The tracer may still be writing its report.   *)
(*                                                                         *)
(* None of them talks to another but through the directory.  Dockerd has   *)
(* all this as one step of FileMD and one of DockerD; here they are apart. *)
(***************************************************************************)
EXTENDS Naturals, Sequences, Functions

\* Bound: crashes and restarts, and the failures of file and list operations.
\* The logs of a container and an upload may fail at any time.
CONSTANT MaxFaults

ASSUME MaxFaultsAssumption == MaxFaults \in Nat

\* The files of a session, in the order FileMD reads and the API stores them.
uploadFields == <<"target.log", "tracer.log", "vfs.pdf">>
Files == Range(uploadFields)
Logs  == {"target.log", "tracer.log"}

\* A log is "partial" from its truncation until everything is written.
Contents == {"none", "partial", "full"}

maxUploadRetries == 3

VARIABLES
  target,     \* the target container
  tracer,     \* the tracer container
  dir,        \* whether the directory exists
  locked,     \* whether it holds the lock file
  file,       \* file -> its contents in the directory
  collector,  \* collectSessionLogs: pc and the log it is at
  filemd,     \* FileMD: pc, position in uploadFields, attempt
  read,       \* file -> what FileMD read of it in this pass
  stored,     \* file -> what the API has stored of it
  faults,     \* number of faults so far
  late,       \* files written after FileMD read them in this pass (history)
  unread,     \* files that FileMD failed to read in this pass (history)
  exposed,    \* logs opened without the lock or left half written (history)
  wiped       \* whether the API restarted since the last upload (history)

containers == <<target, tracer>>
volume  == <<dir, locked, file>>
history == <<late, unread, exposed, wiped>>
vars == <<containers, volume, collector, filemd, read, stored, faults, history>>

NoFiles == [f \in Files |-> "none"]
Idle == [pc |-> "idle", log |-> "target.log"]
Collecting(pc, f) == [pc |-> pc, log |-> f]
FileMD(pc, at, attempt) == [pc |-> pc, at |-> at, attempt |-> attempt]
Scanning == FileMD("scan", 1, 1)

\* A crash, or a failure that is counted.
Fault == faults < MaxFaults /\ faults' = faults + 1

Init == /\ target = "exited"
        /\ tracer \in {"running", "exited"}
        /\ dir = TRUE
        /\ locked = TRUE
        /\ file = NoFiles
        /\ collector = Idle
        /\ filemd = Scanning
        /\ read = NoFiles
        /\ stored = NoFiles
        /\ faults = 0
        /\ late = {}
        /\ unread = {}
        /\ exposed = {}
        /\ wiped = FALSE

\* A file gets new contents; FileMD may have read it already.
Write(f, contents) ==
  /\ file' = [file EXCEPT ![f] = contents]
  /\ late' = IF filemd.pc = "scan" THEN late ELSE late \cup {f}

-----------------------------------------------------------------------------
\* DockerD: collectSessionLogs, called by prepareEvents for an exited target.

BeginCollection ==
  /\ collector.pc = "idle"
  /\ target = "exited"
  /\ collector' = Collecting("open", "target.log")
  /\ UNCHANGED <<containers, volume, filemd, read, stored, faults, history>>

\* The containers cannot be listed: the directory is unlocked all the same.
CollectionSkipped ==
  /\ Fault
  /\ collector.pc = "open"
  /\ collector.log = "target.log"
  /\ collector' = Collecting("unlock", "target.log")
  /\ UNCHANGED <<containers, volume, filemd, read, stored, history>>

After(f) == IF f = "target.log" THEN Collecting("open", "tracer.log")
                                ELSE Collecting("unlock", f)

\* StoreLogs: the file is created or truncated.
OpenLog ==
  LET f == collector.log
  IN  /\ collector.pc = "open"
      /\ dir
      /\ f = "tracer.log" => tracer # "absent"
      /\ Write(f, "partial")
      /\ exposed' = exposed \cup IF locked THEN {} ELSE {f}
      /\ collector' = Collecting("copy", f)
      /\ UNCHANGED <<containers, dir, locked, filemd, read, stored, faults,
                     unread, wiped>>

\* The container is not found, its logs cannot be had, or the directory is gone:
\* the log stays as it is.
OpenLogFails ==
  /\ collector.pc = "open"
  /\ collector' = After(collector.log)
  /\ UNCHANGED <<containers, volume, filemd, read, stored, faults, history>>

\* StoreLogs: the logs are copied.  A file that FileMD has deleted meanwhile
\* is written without a name.
CopyLog ==
  LET f == collector.log
  IN  /\ collector.pc = "copy"
      /\ IF file[f] = "none" THEN UNCHANGED <<file, late>> ELSE Write(f, "full")
      /\ exposed' = exposed \ IF locked THEN {f} ELSE {}
      /\ collector' = After(f)
      /\ UNCHANGED <<containers, dir, locked, filemd, read, stored, faults,
                     unread, wiped>>

\* The stream breaks off: the log stays as far as it got, and the error is
\* only logged.
CopyLogFails ==
  /\ collector.pc = "copy"
  /\ exposed' = exposed \cup {collector.log}
  /\ collector' = After(collector.log)
  /\ UNCHANGED <<containers, volume, filemd, read, stored, faults, late, unread,
                 wiped>>

\* Faulty variant: the lock goes before the logs are there.
UnlockEarly ==
  /\ collector.pc \in {"open", "copy"}
  /\ locked' = FALSE
  /\ UNCHANGED <<containers, dir, file, collector, filemd, read, stored, faults,
                 history>>

\* The lock file is removed, if it can be.
Unlock ==
  /\ collector.pc = "unlock"
  /\ \/ locked' = FALSE /\ UNCHANGED faults
     \/ Fault /\ UNCHANGED locked
  /\ collector' = Idle
  /\ UNCHANGED <<containers, dir, file, filemd, read, stored, history>>

\* An order to clean up removes a container, a running one after stopping it.
RemoveTarget ==
  /\ collector.pc = "idle"
  /\ target' = "absent"
  /\ target # "absent"
  /\ UNCHANGED <<tracer, volume, collector, filemd, read, stored, faults, history>>

RemoveTracer ==
  /\ collector.pc = "idle"
  /\ tracer' = "absent"
  /\ tracer # "absent"
  /\ UNCHANGED <<target, volume, collector, filemd, read, stored, faults, history>>
-----------------------------------------------------------------------------
\* The tracer, which has the directory mounted, writes its report and exits.

TracerWrites ==
  /\ tracer = "running"
  /\ dir
  /\ file["vfs.pdf"] = "none"
  /\ Write("vfs.pdf", "full")
  /\ UNCHANGED <<containers, dir, locked, collector, filemd, read, stored,
                 faults, unread, exposed, wiped>>

TracerExits ==
  /\ tracer = "running"
  /\ tracer' = "exited"
  /\ UNCHANGED <<target, volume, collector, filemd, read, stored, faults, history>>
-----------------------------------------------------------------------------
\* FileMD.

\* The pass over this directory ends, and with it what was read.
EndPass == /\ filemd' = Scanning
           /\ read' = NoFiles
           /\ late' = {}
           /\ unread' = {}

\* Faulty variant: all the files are waited for.
ReadyIfComplete == dir /\ ~locked /\ \A f \in Files : file[f] # "none"

\* ReadyVolumes: there is no lock and there is one of the expected files.
Ready == dir /\ ~locked /\ \E f \in Files : file[f] # "none"

Scan ==
  /\ filemd.pc = "scan"
  /\ Ready
  /\ filemd' = FileMD("read", 1, 1)
  /\ UNCHANGED <<containers, volume, collector, read, stored, faults, history>>

\* processSession: a file that cannot be read is taken for one that is not there.
ReadLogFile ==
  LET f == uploadFields[filemd.at]
  IN  /\ filemd.pc = "read"
      /\ filemd.at <= Len(uploadFields)
      /\ \/ /\ read' = [read EXCEPT ![f] = file[f]]
            /\ UNCHANGED <<unread, faults>>
         \/ /\ Fault
            /\ file[f] # "none"
            /\ unread' = unread \cup {f}
            /\ UNCHANGED read
      /\ late' = late \ {f}
      /\ filemd' = [filemd EXCEPT !.at = @ + 1]
      /\ UNCHANGED <<containers, volume, collector, stored, exposed, wiped>>

\* With nothing to upload the session counts as uploaded.
ReadDone ==
  /\ filemd.pc = "read"
  /\ filemd.at > Len(uploadFields)
  /\ filemd' = FileMD(IF read = NoFiles THEN "remove" ELSE "upload", 1, 1)
  /\ UNCHANGED <<containers, volume, collector, read, stored, faults, history>>

\* Faulty variant: the loop over the fields ends at the first one missing.
SaveLogsUntilMissing ==
  LET f == uploadFields[filemd.at]
  IN  /\ filemd.pc = "upload"
      /\ filemd.at <= Len(uploadFields)
      /\ stored' = [stored EXCEPT ![f] = IF read[f] = "none" THEN @ ELSE read[f]]
      /\ filemd' = [filemd EXCEPT !.at = IF read[f] = "none" THEN 4 ELSE @ + 1]
      /\ UNCHANGED <<containers, volume, collector, read, faults, history>>

\* storeSessionLogs, in the API: the next file of the upload is stored.
SaveLog ==
  LET f == uploadFields[filemd.at]
  IN  /\ filemd.pc = "upload"
      /\ filemd.at <= Len(uploadFields)
      /\ stored' = [stored EXCEPT ![f] = IF read[f] = "none" THEN @ ELSE read[f]]
      /\ filemd' = [filemd EXCEPT !.at = @ + 1]
      /\ UNCHANGED <<containers, volume, collector, read, faults, history>>

\* Created: all files are stored and FileMD is told.
Uploaded ==
  /\ filemd.pc = "upload"
  /\ filemd.at > Len(uploadFields)
  /\ filemd' = FileMD("remove", 1, 1)
  /\ wiped' = FALSE
  /\ UNCHANGED <<containers, volume, collector, read, stored, faults, late, unread,
                 exposed>>

\* Faulty variant: when the attempts are used up the session counts as uploaded.
GivenUpAsUploaded ==
  /\ filemd' = IF filemd.attempt < maxUploadRetries
                 THEN FileMD("upload", 1, filemd.attempt + 1)
                 ELSE FileMD("remove", 1, 1)
  /\ UNCHANGED <<read, late, unread>>

\* Faulty variant: one attempt too many.
NextAttemptOffByOne ==
  IF filemd.attempt <= maxUploadRetries
    THEN /\ filemd' = FileMD("upload", 1, filemd.attempt + 1)
         /\ UNCHANGED <<read, late, unread>>
    ELSE EndPass

\* retryUpload after a failure: the same contents again, or the next scan.
NextAttempt ==
  IF filemd.attempt < maxUploadRetries
    THEN /\ filemd' = FileMD("upload", 1, filemd.attempt + 1)
         /\ UNCHANGED <<read, late, unread>>
    ELSE EndPass

\* The request or the answer is lost, or the API fails to store a file.
UploadFails ==
  /\ filemd.pc = "upload"
  /\ NextAttempt
  /\ UNCHANGED <<containers, volume, collector, stored, faults, exposed, wiped>>

RemoveVolume ==
  /\ filemd.pc = "remove"
  /\ dir' = FALSE
  /\ locked' = FALSE
  /\ file' = NoFiles
  /\ EndPass
  /\ UNCHANGED <<containers, collector, stored, faults, exposed, wiped>>

\* Some of the files are deleted and the directory stays, for instance because
\* a log was created in it meanwhile.
RemoveFails ==
  /\ Fault
  /\ filemd.pc = "remove"
  /\ dir
  /\ \E kept \in SUBSET Files :
       file' = [f \in Files |-> IF f \in kept THEN file[f] ELSE "none"]
  /\ EndPass
  /\ UNCHANGED <<containers, dir, locked, collector, stored, exposed, wiped>>
-----------------------------------------------------------------------------
\* Crashes and restarts.

\* DockerD crashes, and with it go the containers of the simulator.
DockerdCrashes ==
  /\ Fault
  /\ collector' = Idle
  /\ exposed' = exposed \cup IF collector.pc = "copy" THEN {collector.log} ELSE {}
  /\ \/ UNCHANGED containers
     \/ target' = "absent" /\ tracer' = "absent"
  /\ UNCHANGED <<volume, filemd, read, stored, late, unread, wiped>>

FileMDCrashes ==
  /\ Fault
  /\ EndPass
  /\ UNCHANGED <<containers, volume, collector, stored, exposed, wiped>>

\* The API restarts with an empty store; an upload in progress fails.
ApiRestarts ==
  /\ Fault
  /\ stored' = NoFiles
  /\ wiped' = TRUE
  /\ IF filemd.pc = "upload" THEN NextAttempt
                             ELSE UNCHANGED <<filemd, read, late, unread>>
  /\ UNCHANGED <<containers, volume, collector, exposed>>
-----------------------------------------------------------------------------
DockerdStep == \/ BeginCollection
               \/ CollectionSkipped
               \/ OpenLog
               \/ OpenLogFails
               \/ CopyLog
               \/ CopyLogFails
               \/ Unlock
               \/ RemoveTarget
               \/ RemoveTracer

\* What FileMD does in its loop, the answer of the API included.
FileMDStep == \/ Scan
              \/ ReadLogFile
              \/ ReadDone
              \/ SaveLog
              \/ Uploaded
              \/ UploadFails
              \/ RemoveVolume
              \/ RemoveFails

Next == \/ DockerdStep
        \/ TracerWrites
        \/ TracerExits
        \/ FileMDStep
        \/ DockerdCrashes
        \/ FileMDCrashes
        \/ ApiRestarts

\* FileMD's ticker fires and every upload comes to an end.
Spec == Init /\ [][Next]_vars /\ WF_vars(FileMDStep)
-----------------------------------------------------------------------------
\* Type invariant: every variable keeps its shape, and only a directory that
\* exists has files and a lock.
TypeOK ==
  /\ target \in {"exited", "absent"}
  /\ tracer \in {"running", "exited", "absent"}
  /\ dir \in BOOLEAN /\ locked \in BOOLEAN
  /\ file \in [Files -> Contents]
  /\ ~dir => ~locked /\ file = NoFiles
  /\ collector \in [pc : {"idle", "open", "copy", "unlock"}, log : Logs]
  /\ filemd \in [pc : {"scan", "read", "upload", "remove"}, at : 1..4,
                 attempt : 1..maxUploadRetries]
  /\ read \in [Files -> Contents] /\ stored \in [Files -> Contents]
  /\ faults \in 0..MaxFaults
  /\ late \subseteq Files /\ unread \subseteq Files /\ exposed \subseteq Logs
  /\ wiped \in BOOLEAN

\* When FileMD goes to delete a directory, the API has every file it read just
\* as it read it, whichever attempts failed after how many files, unless the
\* API has restarted since.
DeletedIsStored ==
  filemd.pc = "remove" /\ ~wiped =>
    \A f \in Files : read[f] # "none" => stored[f] = read[f]

\* FileMD deletes a complete file that the API does not have complete only if
\* the file was written after it was read, could not be read, or the API has
\* restarted since the upload.
OnlyLateFilesAreLost ==
  [][\A f \in Files :
       file[f] = "full" /\ file'[f] = "none" /\ stored[f] # "full"
         => f \in late \cup unread \/ wiped]_vars

\* The lock keeps FileMD from a log that is being collected: the one it reads
\* half was opened without the lock, or writing it was broken off by an error
\* or a crash.  A collection under the lock that completes makes up for both.
HalfReadIsExposed ==
  \A f \in Logs : read[f] = "partial" => f \in exposed

\* A directory with logs is handed over in the end, unless uploads fail again
\* and again: giving up is for this scan only.
HasLogs == ~locked /\ file # NoFiles
ReadyIsHandedOver == []<><<UploadFails>>_vars \/ (HasLogs ~> ~HasLogs)
=============================================================================
