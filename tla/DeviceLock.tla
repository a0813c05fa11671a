----------------------------- MODULE DeviceLock -----------------------------
(***************************************************************************)
(* The lock of one device, a directory shared by the processes of several  *)
(* hosts (executors/device-lock.ts), with the run that holds it            *)
(* (executors/autoglm.ts, and gui-execution.ts with its runners).          *)
(*                                                                         *)
(* mkdir is the claim.  A lock whose host is dead, that is not             *)
(* quarantined and whose recorded device process is gone may be            *)
(* reclaimed, by one reclaimer at a time, which looks twice.  A run starts *)
(* a device process, records it, and only then lets it act.  A host may    *)
(* crash between any two calls of the file system; its device process      *)
(* then goes on for a while.                                               *)
(*                                                                         *)
(* One action per call of the file system.  A process never has the pid of *)
(* an earlier one (a pid in use again only keeps a lock held for longer).  *)
(* Manual recovery, which removes the directories by hand, is left out, and *)
(* so is Windows, where a recorded device process is never taken for gone. *)
(***************************************************************************)
EXTENDS Naturals

CONSTANTS
  Task,      (* runs, each of one task id                                       *)
  Host,      (* processes of the runtime                                        *)
  Nobody,    (* no owner that can be read: none written, or half written        *)
  Ignores    (* whether a run goes on when its device process was not recorded: *)
             (* autoglm.ts does, the runners of gui-execution.ts do not         *)

Owner == [task : Task, host : Host, device : BOOLEAN]

ASSUME DeviceLockAssumption == Nobody \notin Owner /\ Ignores \in BOOLEAN

VARIABLES
  lock,      (* the directory: exists, owner.json, whether it has quarantine.json *)
  mutex,     (* the directory <lock>.reclaim exists                               *)
  alive,     (* live hosts                                                        *)
  host,      (* the host of a run                                                 *)
  pc,        (* the call a run is at                                              *)
  attempt,   (* of the two in acquireDeviceLock                                   *)
  seen,      (* owner.json as read by the current call of reclaimable             *)
  stale,     (* what the first of its two calls returned                          *)
  device,    (* device process of a run: "none", "idle" (started, told nothing),  *)
             (* "acting" or "gone"                                                *)
  (* history, read by properties only                                             *)
  unconfirmed,   (* runs whose last device write has not been acknowledged        *)
  faulty         (* some call of the file system failed                           *)

files == <<lock, mutex>>
history == <<unconfirmed, faulty>>
vars == <<files, alive, host, pc, attempt, seen, stale, device, history>>

Acquiring == {"mkdir", "claim", "unclaim", "access", "read", "probe", "mutex"}
Reclaiming == {"remove", "rmdir", "unlock", "again"}
Holding == {"held", "record", "recording", "start", "running", "stop", "release", "rename",
            "quarantine"}
Over == {"busy", "done"}

NoLock == [exists |-> FALSE, owner |-> Nobody, quarantined |-> FALSE]

Init ==
  /\ lock = NoLock /\ mutex = FALSE
  /\ alive = Host /\ host \in [Task -> Host]
  /\ pc = [t \in Task |-> "mkdir"] /\ attempt = [t \in Task |-> 1]
  /\ seen = [t \in Task |-> Nobody] /\ stale = [t \in Task |-> Nobody]
  /\ device = [t \in Task |-> "none"]
  /\ unconfirmed = {} /\ faulty = FALSE

\* Run t, of a live host, is at this call and goes on to that one.
Step(t, from, to) ==
  /\ host[t] \in alive
  /\ pc[t] = from /\ pc' = [pc EXCEPT ![t] = to]
  /\ UNCHANGED <<alive, host>>

Registers == <<attempt, seen, stale>>
InMutex(t) == stale[t] # Nobody

-----------------------------------------------------------------------------
(* create *)

MakeDir(t) ==
  /\ IF lock.exists
     THEN Step(t, "mkdir", "access") /\ UNCHANGED lock
     ELSE Step(t, "mkdir", "claim") /\ lock' = [NoLock EXCEPT !.exists = TRUE]
  /\ UNCHANGED <<mutex, Registers, device, history>>

WriteOwner(t) ==
  /\ Step(t, "claim", "held")
  /\ lock' = [lock EXCEPT !.owner = [task |-> t, host |-> host[t], device |-> FALSE]]
  /\ UNCHANGED <<mutex, Registers, device, history>>

WriteOwnerFails(t) ==
  /\ Step(t, "claim", "unclaim") /\ faulty' = TRUE
  /\ UNCHANGED <<files, Registers, device, unconfirmed>>

\* The rmdir fails if the failed write left a file.
Unclaim(t) ==
  /\ Step(t, "unclaim", "busy")
  /\ lock' \in {lock, NoLock}
  /\ UNCHANGED <<mutex, Registers, device, history>>

-----------------------------------------------------------------------------
(* reclaimable, called before the mutex is taken and again inside it.  Each    *)
(* early return gives up: device_busy.                                         *)

GiveUpLocked(t) == "busy"   \* seeded fault: no finally, the mutex stays

GiveUp(t) == IF InMutex(t) THEN "unlock" ELSE "busy"

AccessOnce(t) ==   \* seeded fault: only the first look asks for quarantine.json
  /\ Step(t, "access", IF lock.quarantined /\ ~InMutex(t) THEN GiveUp(t) ELSE "read")
  /\ UNCHANGED <<files, Registers, device, history>>

Access(t) ==
  /\ Step(t, "access", IF lock.quarantined THEN GiveUp(t) ELSE "read")
  /\ UNCHANGED <<files, Registers, device, history>>

ReadOwner(t) ==
  /\ Step(t, "read", IF lock.owner = Nobody THEN GiveUp(t) ELSE "probe")
  /\ seen' = [seen EXCEPT ![t] = lock.owner]
  /\ UNCHANGED <<files, attempt, stale, device, history>>

Survives(owner) ==
  \/ owner.host \in alive
  \/ owner.device /\ device[owner.task] \in {"idle", "acting"}

ProbeAny(t) ==   \* seeded fault: any dead owner will do the second time
  /\ Step(t, "probe", IF Survives(seen[t]) THEN GiveUp(t)
                      ELSE IF InMutex(t) THEN "remove" ELSE "mutex")
  /\ stale' = IF Survives(seen[t]) THEN stale ELSE [stale EXCEPT ![t] = seen[t]]
  /\ UNCHANGED <<files, attempt, seen, device, history>>

\* The second call must find what the first found.
Probe(t) ==
  LET passes == ~Survives(seen[t]) /\ (InMutex(t) => seen[t] = stale[t])
  IN /\ Step(t, "probe", IF ~passes THEN GiveUp(t) ELSE IF InMutex(t) THEN "remove" ELSE "mutex")
     /\ stale' = IF passes THEN [stale EXCEPT ![t] = seen[t]] ELSE stale
     /\ UNCHANGED <<files, attempt, seen, device, history>>

TakeMutexTrusting(t) ==   \* seeded fault: the lock is not looked at again
  /\ Step(t, "mutex", IF mutex THEN "busy" ELSE "remove")
  /\ mutex' = TRUE
  /\ UNCHANGED <<lock, Registers, device, history>>

TakeMutex(t) ==
  /\ Step(t, "mutex", IF mutex THEN "busy" ELSE "access")
  /\ mutex' = TRUE
  /\ UNCHANGED <<lock, Registers, device, history>>

\* rm, recursive: the files first, then the directory.
RemoveFiles(t) ==
  /\ Step(t, "remove", "rmdir")
  /\ lock' = [lock EXCEPT !.owner = Nobody, !.quarantined = FALSE]
  /\ UNCHANGED <<mutex, Registers, device, history>>

RemoveDir(t) ==
  /\ Step(t, "rmdir", "again")
  /\ lock' = NoLock
  /\ UNCHANGED <<mutex, Registers, device, history>>

RemoveFails(t) ==
  /\ Step(t, "remove", "unlock") \/ Step(t, "rmdir", "unlock")
  /\ faulty' = TRUE
  /\ UNCHANGED <<files, Registers, device, unconfirmed>>

UnlockRetries(t) ==   \* seeded fault: the attempts are not counted
  /\ \/ Step(t, "unlock", "busy")
     \/ Step(t, "again", "mkdir")
  /\ mutex' = FALSE
  /\ stale' = [stale EXCEPT ![t] = Nobody]
  /\ attempt' = [attempt EXCEPT ![t] = @ + 1]
  /\ UNCHANGED <<lock, seen, device, history>>

\* A failed rmdir of the mutex is ignored.
Unlock(t) ==
  /\ \/ Step(t, "unlock", "busy") /\ UNCHANGED attempt
     \/ /\ Step(t, "again", IF attempt[t] = 1 THEN "mkdir" ELSE "busy")
        /\ attempt' = [attempt EXCEPT ![t] = 2]
  /\ \/ mutex' = FALSE /\ UNCHANGED faulty
     \/ faulty' = TRUE /\ UNCHANGED mutex
  /\ stale' = [stale EXCEPT ![t] = Nobody]
  /\ UNCHANGED <<lock, seen, device, unconfirmed>>

-----------------------------------------------------------------------------
(* The run that holds the lock. *)

\* The run is cancelled, or the process cannot be started.
EndEarly(t) ==
  /\ Step(t, "held", "release")
  /\ UNCHANGED <<files, Registers, device, history>>

Spawn(t) ==
  /\ Step(t, "held", "record")
  /\ device' = [device EXCEPT ![t] = "idle"]
  /\ UNCHANGED <<files, Registers, history>>

\* recordDeviceProcess overwrites owner.json: the file is truncated, then
\* written.
RecordTruncates(t) ==
  /\ Step(t, "record", "recording")
  /\ lock' = [lock EXCEPT !.owner = Nobody]
  /\ UNCHANGED <<mutex, Registers, device, history>>

RecordWrites(t) ==
  /\ Step(t, "recording", "start")
  /\ lock' = [lock EXCEPT !.owner = [task |-> t, host |-> host[t], device |-> TRUE]]
  /\ UNCHANGED <<mutex, Registers, device, history>>

RecordFails(t) ==
  /\ \E from \in {"record", "recording"} :
       Step(t, from, IF Ignores THEN "start" ELSE "stop")
  /\ faulty' = TRUE
  /\ UNCHANGED <<files, Registers, device, unconfirmed>>

\* The device process is told what to do.
Start(t) ==
  /\ Step(t, "start", "running") /\ device[t] = "idle"
  /\ device' = [device EXCEPT ![t] = "acting"]
  /\ UNCHANGED <<files, Registers, history>>

\* It announces a write, and then that the write has returned.
DeviceWrites(t) ==
  /\ Step(t, "running", "running") /\ device[t] = "acting"
  /\ \/ unconfirmed' = unconfirmed \cup {t}
     \/ unconfirmed' = unconfirmed \ {t}
  /\ UNCHANGED <<files, Registers, device, faulty>>

\* The run ends: its process group is killed, which may not be confirmed.
KillDevice(t) ==
  /\ device' \in {device, [device EXCEPT ![t] = "gone"]}
  /\ \E from \in {"start", "running", "stop"} :
       Step(t, from, IF device'[t] = "gone" /\ t \notin unconfirmed
                     THEN "release" ELSE "quarantine")
  /\ UNCHANGED <<files, Registers, history>>

\* releaseDeviceLock: only a lock that names this task is moved aside.
ReleaseReads(t) ==
  /\ Step(t, "release", IF lock.owner # Nobody /\ lock.owner.task = t THEN "rename"
                        ELSE "done")
  /\ UNCHANGED <<files, Registers, device, history>>

ReleaseRenames(t) ==
  /\ Step(t, "rename", "done")
  /\ \/ lock' = NoLock /\ UNCHANGED faulty
     \/ faulty' = TRUE /\ UNCHANGED lock
  /\ UNCHANGED <<mutex, Registers, device, unconfirmed>>

\* quarantineDeviceLock ignores a failed write.
Quarantine(t) ==
  /\ Step(t, "quarantine", "done")
  /\ \/ lock' = [lock EXCEPT !.quarantined = TRUE] /\ UNCHANGED faulty
     \/ faulty' = TRUE /\ UNCHANGED lock
  /\ UNCHANGED <<mutex, Registers, device, unconfirmed>>

-----------------------------------------------------------------------------
(* The environment. *)

DeviceExits(t) ==
  /\ device[t] \in {"idle", "acting"}
  /\ device' = [device EXCEPT ![t] = "gone"]
  /\ UNCHANGED <<files, alive, host, pc, Registers, history>>

Crash(h) ==
  /\ h \in alive /\ alive' = alive \ {h}
  /\ UNCHANGED <<files, host, pc, Registers, device, history>>

Next ==
  \/ \E t \in Task :
       \/ MakeDir(t) \/ WriteOwner(t) \/ WriteOwnerFails(t) \/ Unclaim(t)
       \/ Access(t) \/ ReadOwner(t) \/ Probe(t) \/ TakeMutex(t)
       \/ RemoveFiles(t) \/ RemoveDir(t) \/ RemoveFails(t) \/ Unlock(t)
       \/ EndEarly(t) \/ Spawn(t) \/ RecordTruncates(t) \/ RecordWrites(t) \/ RecordFails(t)
       \/ Start(t) \/ DeviceWrites(t) \/ KillDevice(t)
       \/ ReleaseReads(t) \/ ReleaseRenames(t) \/ Quarantine(t)
       \/ DeviceExits(t)
  \/ \E h \in Host : Crash(h)

Spec == Init /\ [][Next]_vars
-----------------------------------------------------------------------------
(* The values the state takes. *)
TypeOK ==
  /\ lock \in [exists : BOOLEAN, owner : Owner \cup {Nobody}, quarantined : BOOLEAN]
  /\ mutex \in BOOLEAN /\ alive \subseteq Host /\ host \in [Task -> Host]
  /\ pc \in [Task -> Acquiring \cup Reclaiming \cup Holding \cup Over]
  /\ attempt \in [Task -> 1..2]
  /\ seen \in [Task -> Owner \cup {Nobody}] /\ stale \in [Task -> Owner \cup {Nobody}]
  /\ device \in [Task -> {"none", "idle", "acting", "gone"}]
  /\ unconfirmed \subseteq Task /\ faulty \in BOOLEAN

\* Two runs of live hosts never hold the device together, however their steps
\* and those of reclaimers and crashes interleave (acquireDeviceLock).
OneOwner ==
  \A t, u \in Task :
    /\ pc[t] \in Holding /\ pc[u] \in Holding
    /\ host[t] \in alive /\ host[u] \in alive
    => t = u

\* While a device process may act the lock is its run's, or cannot be read and
\* so stays held: a later host never reclaims it (recordDeviceProcess).
ActingIsLocked ==
  \A t \in Task : device[t] = "acting" =>
    lock.exists /\ (lock.owner # Nobody => lock.owner.task = t)

\* Only manual recovery removes a quarantined lock (reclaimable looks for
\* quarantine.json before it reads the owner, twice).
QuarantineStays == [][lock.quarantined => lock'.quarantined]_lock

\* The runs that hold the device, and those whose process may act on it.
Holders == {t \in Task : pc[t] \in Holding /\ host[t] \in alive}
Actors  == {t \in Task : device[t] = "acting"}
Lease == INSTANCE DeviceLease
           WITH Run <- Task, holders <- Holders, acting <- Actors, blocked <- lock.quarantined

\* To the runs the directories are one lease of the device, that outlives the host
\* for as long as what it has started may act (acquireDeviceLock, when a run goes on
\* only once its device process is recorded).
ImplementsLease == Lease!Spec

\* A directory that stays behind has a cause: the mutex a reclaimer inside it
\* (perhaps crashed), an unquarantined lock a run that has not ended (perhaps
\* crashed) or a failed call.  Nobody forgets one on an early return.
LeftoversHaveCause ==
  /\ mutex /\ ~faulty => \E t \in Task : InMutex(t) /\ pc[t] \notin Over \cup {"mutex"}
  /\ lock.exists /\ ~lock.quarantined /\ ~faulty =>
       \E t \in Task : pc[t] \in Holding \cup {"claim", "rmdir"}

\* A run that crashes with a write in the air leaves its device held until
\* somebody has looked at it (the guide's reading of the lock).
UnconfirmedStaysLocked ==
  \A t \in unconfirmed : lock.exists /\ (lock.owner # Nobody => lock.owner.task = t)
=============================================================================
