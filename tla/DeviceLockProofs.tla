-------------------------- MODULE DeviceLockProofs --------------------------
(***************************************************************************)
(* Proofs about DeviceLock, for any number of runs and hosts.              *)
(*                                                                         *)
(* The inductive invariant IInv says what a run may count on at each call. *)
(* Its heart: the lock names a live host only while the run of that host   *)
(* is at work on it, and what a reclaimer has seen twice belongs to a dead *)
(* host, so that nobody but the reclaimer itself changes it any more.      *)
(* From it follows, at the end, that the lock implements DeviceLease.      *)
(***************************************************************************)
EXTENDS DeviceLock, TLAPS

Working == {"claim", "unclaim"} \cup Holding

\* The reclaimers between taking the mutex and giving it back, crashed or not.
Inside(t) == stale[t] # Nobody /\ pc[t] \notin {"mutex", "busy"}

\* A run at work on the lock, of a live host.
Works(t) == pc[t] \in Working /\ host[t] \in alive

\* A directory that does not exist holds nothing; an owner is on its own host.
FilesAgree ==
  /\ ~lock.exists => lock = NoLock
  /\ lock.owner # Nobody => lock.owner.host = host[lock.owner.task]

\* What a run knows of the lock it works on.
WorkAgrees ==
  /\ \A t, u \in Task : Works(t) /\ Works(u) => t = u
  /\ \A t \in Task : Works(t) =>
       /\ lock.exists /\ ~lock.quarantined
       /\ pc[t] \in {"claim", "unclaim"} => lock.owner = Nobody
       /\ lock.owner # Nobody => lock.owner.task = t
       /\ pc[t] = "rename" => lock.owner # Nobody

\* What a reclaimer knows.
ReclaimAgrees ==
  /\ \A t, u \in Task : Inside(t) /\ Inside(u) => t = u
  /\ \A t \in Task :
       /\ Inside(t) => mutex
       /\ pc[t] \in Reclaiming \cup {"mutex"} => stale[t] # Nobody
       /\ pc[t] \in Working \cup {"mkdir", "done"} => stale[t] = Nobody
       /\ seen[t] # Nobody => seen[t].host = host[seen[t].task]
       /\ pc[t] = "probe" => seen[t] # Nobody
       /\ stale[t] # Nobody => stale[t].host = host[stale[t].task] /\ ~Survives(stale[t])
       /\ Inside(t) /\ pc[t] = "read" /\ lock.owner = stale[t] => ~lock.quarantined
       /\ Inside(t) /\ pc[t] = "probe" /\ seen[t] = stale[t] =>
            lock.owner = stale[t] /\ ~lock.quarantined
       /\ pc[t] = "remove" => lock.owner = stale[t] /\ ~lock.quarantined
       /\ pc[t] = "rmdir" => lock.exists /\ lock.owner = Nobody /\ ~lock.quarantined
       /\ pc[t] = "rmdir" => \A u \in Task : ~Works(u)

\* The owner file of a run whose device process is recorded.
Recorded(t) == [task |-> t, host |-> host[t], device |-> TRUE]

\* What the device processes and the owner file say of each other.
DeviceAgrees ==
  \A t \in Task :
    /\ pc[t] \in Acquiring \cup Reclaiming \cup {"held"} => device[t] = "none"
    /\ pc[t] \in {"record", "recording", "start", "stop", "release", "rename"} =>
         device[t] # "acting"
    /\ ~Ignores /\ host[t] \in alive /\ pc[t] \in {"start", "running"} =>
         lock.owner = Recorded(t)
    /\ ~Ignores /\ device[t] = "acting" =>
         lock.owner = Recorded(t)

\* What is left behind has a cause, and unless a call failed the owner file is
\* there whenever its run looks.
CausesAgree ==
  /\ LeftoversHaveCause
  /\ ~faulty => \A t \in Task :
       /\ pc[t] # "unclaim"
       /\ Works(t) /\ pc[t] \in {"held", "record", "start", "running", "stop", "release"} =>
            lock.owner # Nobody

IInv == TypeOK /\ FilesAgree /\ WorkAgrees /\ ReclaimAgrees /\ DeviceAgrees /\ CausesAgree

-----------------------------------------------------------------------------
(* The steps of one run, those that change owner.json or the directory first. *)
LockStep(t) ==
  \/ MakeDir(t) \/ WriteOwner(t) \/ Unclaim(t) \/ RemoveFiles(t) \/ RemoveDir(t)
  \/ RecordTruncates(t) \/ RecordWrites(t) \/ ReleaseRenames(t) \/ Quarantine(t)

ReadStep(t) ==
  \/ WriteOwnerFails(t) \/ Access(t) \/ ReadOwner(t) \/ Probe(t) \/ TakeMutex(t)
  \/ RemoveFails(t) \/ Unlock(t)
  \/ EndEarly(t) \/ Spawn(t) \/ RecordFails(t) \/ Start(t) \/ DeviceWrites(t)
  \/ KillDevice(t) \/ ReleaseReads(t)

\* Next, by what a step may change.
LEMMA NextSplits ==
  ASSUME [Next]_vars
  PROVE  \/ \E t \in Task : LockStep(t) \/ ReadStep(t) \/ DeviceExits(t)
         \/ \E h \in Host : Crash(h)
         \/ UNCHANGED vars
BY DEF Next, LockStep, ReadStep

\* Only a LockStep changes the lock.
LEMMA LockUnchanged ==
  ASSUME NEW t \in Task, ReadStep(t) \/ DeviceExits(t)
  PROVE  lock' = lock
BY DEF ReadStep, DeviceExits, files, WriteOwnerFails, Access, ReadOwner, Probe, TakeMutex,
       RemoveFails, Unlock, EndEarly, Spawn, RecordFails, Start, DeviceWrites, KillDevice,
       ReleaseReads

Locks == [exists : BOOLEAN, owner : Owner \cup {Nobody}, quarantined : BOOLEAN]

\* The values a LockStep writes.
LEMMA NextLock ==
  ASSUME TypeOK, NEW t \in Task, LockStep(t)
  PROVE  lock' \in Locks
<1>1. /\ lock \in Locks /\ NoLock \in Locks /\ [NoLock EXCEPT !.exists = TRUE] \in Locks
  BY DEF TypeOK, NoLock, Locks
<1>2. /\ \A o \in Owner \cup {Nobody} : [lock EXCEPT !.owner = o] \in Locks
      /\ [lock EXCEPT !.owner = Nobody, !.quarantined = FALSE] \in Locks
      /\ [lock EXCEPT !.quarantined = TRUE] \in Locks
  BY <1>1 DEF Locks
<1>3. \A d \in BOOLEAN : [task |-> t, host |-> host[t], device |-> d] \in Owner
  BY DEF TypeOK, Owner
<1>4. \/ lock' \in {lock, NoLock, [NoLock EXCEPT !.exists = TRUE],
                    [lock EXCEPT !.owner = Nobody, !.quarantined = FALSE],
                    [lock EXCEPT !.quarantined = TRUE]}
      \/ \E o \in Owner \cup {Nobody} : lock' = [lock EXCEPT !.owner = o]
  BY <1>3, Zenon DEF LockStep, MakeDir, WriteOwner, Unclaim, RemoveFiles, RemoveDir,
     RecordTruncates, RecordWrites, ReleaseRenames, Quarantine
<1> QED BY <1>1, <1>2, <1>4

\* That owner file names an owner: this run, on its host.
LEMMA RecordedIsOwner ==
  ASSUME TypeOK, NEW t \in Task
  PROVE  /\ Recorded(t) \in Owner /\ Recorded(t) # Nobody
         /\ Recorded(t).task = t /\ Recorded(t).host = host[t] /\ Recorded(t).device
<1>1. Recorded(t) \in Owner
  BY DEF Recorded, TypeOK, Owner
<1>2. Recorded(t) # Nobody
  BY <1>1, DeviceLockAssumption
<1> QED BY <1>1, <1>2 DEF Recorded

-----------------------------------------------------------------------------
\* Initially there is no lock, and every run is about to make it.
LEMMA InitInv == Init => IInv
<1> SUFFICES ASSUME Init PROVE IInv
  OBVIOUS
<1> USE DeviceLockAssumption DEF Init, Acquiring, Reclaiming, Holding, Over, Working
<1>1. TypeOK
  <2>1. NoLock \in Locks
    BY DEF NoLock, Locks
  <2>2. attempt \in [Task -> 1..2]
    OBVIOUS
  <2>3. seen \in [Task -> Owner \cup {Nobody}] /\ stale \in [Task -> Owner \cup {Nobody}]
    OBVIOUS
  <2> QED BY <2>1, <2>2, <2>3, Zenon DEF TypeOK, Locks
<1>2. FilesAgree /\ WorkAgrees
  BY DEF FilesAgree, WorkAgrees, Works, NoLock
<1>3. ReclaimAgrees
  BY DEF ReclaimAgrees, Inside
<1>4. DeviceAgrees
  BY DEF DeviceAgrees
<1>5. CausesAgree
  BY DEF CausesAgree, LeftoversHaveCause, NoLock
<1> QED BY <1>1, <1>2, <1>3, <1>4, <1>5 DEF IInv

\* The lock is NextLock's; the rest is each step's own.
LEMMA TypeKept ==
  ASSUME IInv, NEW t \in Task, LockStep(t) \/ ReadStep(t) \/ DeviceExits(t)
  PROVE  TypeOK'
<1> USE DeviceLockAssumption DEF IInv, TypeOK, GiveUp, Acquiring, Reclaiming,
      Holding, Over, Step, files, history, Registers
<1>l. lock' \in Locks
  <2>1. lock \in Locks  BY DEF Locks
  <2> QED BY <2>1, NextLock, LockUnchanged
<1> USE <1>l DEF Locks
<1>1. CASE MakeDir(t)
  BY <1>1 DEF MakeDir
<1>2. CASE WriteOwner(t)
  BY <1>2 DEF WriteOwner
<1>3. CASE Unclaim(t)
  BY <1>3 DEF Unclaim
<1>4. CASE RemoveFiles(t)
  BY <1>4 DEF RemoveFiles
<1>5. CASE RemoveDir(t)
  BY <1>5 DEF RemoveDir
<1>6. CASE RecordTruncates(t)
  BY <1>6 DEF RecordTruncates
<1>7. CASE RecordWrites(t)
  BY <1>7 DEF RecordWrites
<1>8. CASE ReleaseRenames(t)
  BY <1>8 DEF ReleaseRenames
<1>9. CASE Quarantine(t)
  BY <1>9 DEF Quarantine
<1>10. CASE WriteOwnerFails(t)
  BY <1>10 DEF WriteOwnerFails
<1>11. CASE Access(t)
  BY <1>11 DEF Access
<1>12. CASE ReadOwner(t)
  BY <1>12 DEF ReadOwner
<1>13. CASE Probe(t)
  BY <1>13 DEF Probe
<1>14. CASE TakeMutex(t)
  BY <1>14 DEF TakeMutex
<1>15. CASE RemoveFails(t)
  BY <1>15 DEF RemoveFails
<1>16. CASE Unlock(t)
  <2>1. /\ attempt' \in [Task -> 1..2]
        /\ pc' \in [Task -> Acquiring \cup Reclaiming \cup Holding \cup Over]
    BY <1>16 DEF Unlock
  <2>2. stale' \in [Task -> Owner \cup {Nobody}]
    BY <1>16 DEF Unlock
  <2> QED BY <1>16, <2>1, <2>2 DEF Unlock
<1>17. CASE EndEarly(t)
  BY <1>17 DEF EndEarly
<1>18. CASE Spawn(t)
  BY <1>18 DEF Spawn
<1>19. CASE RecordFails(t)
  BY <1>19 DEF RecordFails
<1>20. CASE Start(t)
  BY <1>20 DEF Start
<1>21. CASE DeviceWrites(t)
  BY <1>21 DEF DeviceWrites
<1>22. CASE KillDevice(t)
  BY <1>22 DEF KillDevice
<1>23. CASE ReleaseReads(t)
  BY <1>23 DEF ReleaseReads
<1>24. CASE DeviceExits(t)
  BY <1>24 DEF DeviceExits
<1> QED BY <1>1, <1>2, <1>3, <1>4, <1>5, <1>6, <1>7, <1>8, <1>9, <1>10, <1>11,
       <1>12, <1>13, <1>14, <1>15, <1>16, <1>17, <1>18, <1>19, <1>20, <1>21, <1>22,
       <1>23, <1>24 DEF LockStep, ReadStep

\* A run writes its own host.
LEMMA FilesKept ==
  ASSUME IInv, NEW t \in Task, LockStep(t) \/ ReadStep(t) \/ DeviceExits(t)
  PROVE  FilesAgree'
<1> USE DeviceLockAssumption DEF IInv, TypeOK, FilesAgree, WorkAgrees, Works,
      NoLock, Working, Acquiring, Reclaiming, Holding, Over, Step, files, history,
      Registers
<1>1. CASE MakeDir(t)
  BY <1>1 DEF MakeDir
<1>2. CASE WriteOwner(t)
  BY <1>2 DEF WriteOwner
<1>3. CASE Unclaim(t)
  BY <1>3 DEF Unclaim
<1>4. CASE RemoveFiles(t)
  BY <1>4 DEF RemoveFiles
<1>5. CASE RemoveDir(t)
  BY <1>5 DEF RemoveDir
<1>6. CASE RecordTruncates(t)
  BY <1>6 DEF RecordTruncates
<1>7. CASE RecordWrites(t)
  BY <1>7 DEF RecordWrites
<1>8. CASE ReleaseRenames(t)
  BY <1>8 DEF ReleaseRenames
<1>9. CASE Quarantine(t)
  BY <1>9 DEF Quarantine
<1>10. CASE \/ WriteOwnerFails(t) \/ Access(t) \/ ReadOwner(t) \/ Probe(t)
           \/ TakeMutex(t) \/ RemoveFails(t) \/ Unlock(t) \/ EndEarly(t)
           \/ Spawn(t) \/ RecordFails(t) \/ Start(t) \/ DeviceWrites(t)
           \/ KillDevice(t) \/ ReleaseReads(t) \/ DeviceExits(t)
  BY <1>10 DEF WriteOwnerFails, Access, ReadOwner, Probe, TakeMutex, RemoveFails,
     Unlock, EndEarly, Spawn, RecordFails, Start, DeviceWrites, KillDevice,
     ReleaseReads, DeviceExits
<1> QED BY <1>1, <1>2, <1>3, <1>4, <1>5, <1>6, <1>7, <1>8, <1>9, <1>10 DEF LockStep, ReadStep

\* mkdir is the claim, and a reclaimer takes the lock of nobody at work.
LEMMA WorkKept ==
  ASSUME IInv, NEW t \in Task, LockStep(t) \/ ReadStep(t) \/ DeviceExits(t)
  PROVE  WorkAgrees'
<1> USE DeviceLockAssumption DEF IInv, TypeOK, FilesAgree, WorkAgrees,
      ReclaimAgrees, Works, Survives, GiveUp, NoLock, Working, Acquiring,
      Reclaiming, Holding, Over, Step, files, history, Registers
<1>1. CASE MakeDir(t)
  BY <1>1 DEF MakeDir
<1>2. CASE WriteOwner(t)
  BY <1>2 DEF WriteOwner
<1>3. CASE Unclaim(t)
  BY <1>3 DEF Unclaim
<1>4. CASE RemoveFiles(t)
  BY <1>4 DEF RemoveFiles
<1>5. CASE RemoveDir(t)
  BY <1>5 DEF RemoveDir
<1>6. CASE RecordTruncates(t)
  BY <1>6 DEF RecordTruncates
<1>7. CASE RecordWrites(t)
  BY <1>7 DEF RecordWrites
<1>8. CASE ReleaseRenames(t)
  BY <1>8 DEF ReleaseRenames
<1>9. CASE Quarantine(t)
  BY <1>9 DEF Quarantine
<1>10. CASE WriteOwnerFails(t)
  BY <1>10 DEF WriteOwnerFails
<1>11. CASE Access(t)
  BY <1>11 DEF Access
<1>12. CASE ReadOwner(t)
  BY <1>12 DEF ReadOwner
<1>13. CASE Probe(t)
  BY <1>13 DEF Probe
<1>14. CASE TakeMutex(t)
  BY <1>14 DEF TakeMutex
<1>15. CASE RemoveFails(t)
  BY <1>15 DEF RemoveFails
<1>16. CASE Unlock(t)
  BY <1>16 DEF Unlock
<1>17. CASE EndEarly(t)
  BY <1>17 DEF EndEarly
<1>18. CASE Spawn(t)
  BY <1>18 DEF Spawn
<1>19. CASE RecordFails(t)
  BY <1>19 DEF RecordFails
<1>20. CASE Start(t)
  BY <1>20 DEF Start
<1>21. CASE DeviceWrites(t)
  BY <1>21 DEF DeviceWrites
<1>22. CASE KillDevice(t)
  BY <1>22 DEF KillDevice
<1>23. CASE ReleaseReads(t)
  BY <1>23 DEF ReleaseReads
<1>24. CASE DeviceExits(t)
  BY <1>24 DEF DeviceExits
<1> QED BY <1>1, <1>2, <1>3, <1>4, <1>5, <1>6, <1>7, <1>8, <1>9, <1>10, <1>11,
       <1>12, <1>13, <1>14, <1>15, <1>16, <1>17, <1>18, <1>19, <1>20, <1>21, <1>22,
       <1>23, <1>24 DEF LockStep, ReadStep

\* The owner of a stale lock stays dead, so the lock changes no more until it
\* is removed.
LEMMA ReclaimKept ==
  ASSUME IInv, NEW t \in Task, LockStep(t) \/ ReadStep(t) \/ DeviceExits(t)
  PROVE  ReclaimAgrees'
<1> USE DeviceLockAssumption DEF IInv, TypeOK, FilesAgree, WorkAgrees,
      ReclaimAgrees, DeviceAgrees, Works, Inside, InMutex, Survives, GiveUp, Owner,
      NoLock, Working, Acquiring, Reclaiming, Holding, Over, Step, files, history,
      Registers
<1>1. CASE MakeDir(t)
  BY <1>1 DEF MakeDir
<1>2. CASE WriteOwner(t)
  BY <1>2 DEF WriteOwner
<1>3. CASE Unclaim(t)
  BY <1>3 DEF Unclaim
<1>4. CASE RemoveFiles(t)
  BY <1>4 DEF RemoveFiles
<1>5. CASE RemoveDir(t)
  BY <1>5 DEF RemoveDir
<1>6. CASE RecordTruncates(t)
  BY <1>6 DEF RecordTruncates
<1>7. CASE RecordWrites(t)
  BY <1>7 DEF RecordWrites
<1>8. CASE ReleaseRenames(t)
  BY <1>8 DEF ReleaseRenames
<1>9. CASE Quarantine(t)
  BY <1>9 DEF Quarantine
<1>10. CASE WriteOwnerFails(t)
  BY <1>10 DEF WriteOwnerFails
<1>11. CASE Access(t)
  BY <1>11 DEF Access
<1>12. CASE ReadOwner(t)
  BY <1>12 DEF ReadOwner
<1>13. CASE Probe(t)
  BY <1>13 DEF Probe
<1>14. CASE TakeMutex(t)
  BY <1>14 DEF TakeMutex
<1>15. CASE RemoveFails(t)
  BY <1>15 DEF RemoveFails
<1>16. CASE Unlock(t)
  BY <1>16 DEF Unlock
<1>17. CASE EndEarly(t)
  BY <1>17 DEF EndEarly
<1>18. CASE Spawn(t)
  BY <1>18 DEF Spawn
<1>19. CASE RecordFails(t)
  BY <1>19 DEF RecordFails
<1>20. CASE Start(t)
  BY <1>20 DEF Start
<1>21. CASE DeviceWrites(t)
  BY <1>21 DEF DeviceWrites
<1>22. CASE KillDevice(t)
  BY <1>22 DEF KillDevice
<1>23. CASE ReleaseReads(t)
  BY <1>23 DEF ReleaseReads
<1>24. CASE DeviceExits(t)
  BY <1>24 DEF DeviceExits
<1> QED BY <1>1, <1>2, <1>3, <1>4, <1>5, <1>6, <1>7, <1>8, <1>9, <1>10, <1>11,
       <1>12, <1>13, <1>14, <1>15, <1>16, <1>17, <1>18, <1>19, <1>20, <1>21, <1>22,
       <1>23, <1>24 DEF LockStep, ReadStep

\* A recorded device process survives, so its lock is not stale.
LEMMA DeviceKept ==
  ASSUME IInv, NEW t \in Task, LockStep(t) \/ ReadStep(t) \/ DeviceExits(t)
  PROVE  DeviceAgrees'
<1> USE DeviceLockAssumption DEF IInv, TypeOK, FilesAgree, WorkAgrees,
      ReclaimAgrees, DeviceAgrees, Works, Inside, InMutex, Survives, GiveUp, NoLock,
      Working, Acquiring, Reclaiming, Holding, Over, Step, files, history, Registers
<1>r. /\ \A u \in Task : /\ Recorded(u) # Nobody /\ Recorded(u).task = u
                         /\ Recorded(u).host = host[u] /\ Recorded(u).device
      /\ \A u \in Task : host' = host => Recorded(u)' = Recorded(u)
  BY RecordedIsOwner DEF Recorded
<1>1. CASE MakeDir(t)
  BY <1>r, <1>1 DEF MakeDir
<1>2. CASE WriteOwner(t)
  BY <1>r, <1>2 DEF WriteOwner
<1>3. CASE Unclaim(t)
  BY <1>r, <1>3 DEF Unclaim
<1>4. CASE RemoveFiles(t)
  BY <1>r, <1>4 DEF RemoveFiles
<1>5. CASE RemoveDir(t)
  BY <1>r, <1>5 DEF RemoveDir
<1>6. CASE RecordTruncates(t)
  BY <1>r, <1>6 DEF RecordTruncates
<1>7. CASE RecordWrites(t)
  <2>1. lock' = [lock EXCEPT !.owner = Recorded(t)]
    BY <1>7 DEF RecordWrites, Recorded
  <2> QED BY <1>r, <1>7, <2>1 DEF RecordWrites
<1>8. CASE ReleaseRenames(t)
  BY <1>r, <1>8 DEF ReleaseRenames
<1>9. CASE Quarantine(t)
  BY <1>r, <1>9 DEF Quarantine
<1>10. CASE WriteOwnerFails(t)
  BY <1>r, <1>10 DEF WriteOwnerFails
<1>11. CASE Access(t)
  BY <1>r, <1>11 DEF Access
<1>12. CASE ReadOwner(t)
  BY <1>r, <1>12 DEF ReadOwner
<1>13. CASE Probe(t)
  BY <1>r, <1>13 DEF Probe
<1>14. CASE TakeMutex(t)
  BY <1>r, <1>14 DEF TakeMutex
<1>15. CASE RemoveFails(t)
  BY <1>r, <1>15 DEF RemoveFails
<1>16. CASE Unlock(t)
  BY <1>r, <1>16 DEF Unlock
<1>17. CASE EndEarly(t)
  BY <1>r, <1>17 DEF EndEarly
<1>18. CASE Spawn(t)
  BY <1>r, <1>18 DEF Spawn
<1>19. CASE RecordFails(t)
  BY <1>r, <1>19 DEF RecordFails
<1>20. CASE Start(t)
  BY <1>r, <1>20 DEF Start
<1>21. CASE DeviceWrites(t)
  BY <1>r, <1>21 DEF DeviceWrites
<1>22. CASE KillDevice(t)
  BY <1>r, <1>22 DEF KillDevice
<1>23. CASE ReleaseReads(t)
  BY <1>r, <1>23 DEF ReleaseReads
<1>24. CASE DeviceExits(t)
  BY <1>r, <1>24 DEF DeviceExits
<1> QED BY <1>1, <1>2, <1>3, <1>4, <1>5, <1>6, <1>7, <1>8, <1>9, <1>10, <1>11,
       <1>12, <1>13, <1>14, <1>15, <1>16, <1>17, <1>18, <1>19, <1>20, <1>21, <1>22,
       <1>23, <1>24 DEF LockStep, ReadStep

\* Every way out of a call that leaves a directory removes it or has failed.
LEMMA CausesKept ==
  ASSUME IInv, NEW t \in Task, LockStep(t) \/ ReadStep(t) \/ DeviceExits(t)
  PROVE  CausesAgree'
<1> USE DeviceLockAssumption DEF IInv, TypeOK, FilesAgree, WorkAgrees,
      ReclaimAgrees, CausesAgree, LeftoversHaveCause, Works, Inside, InMutex,
      Survives, GiveUp, NoLock, Working, Acquiring, Reclaiming, Holding, Over, Step,
      files, history, Registers
<1>o. \A d \in BOOLEAN : [task |-> t, host |-> host[t], device |-> d] # Nobody
  BY DEF Owner
<1>1. CASE MakeDir(t)
  BY <1>1 DEF MakeDir
<1>2. CASE WriteOwner(t)
  <2>1. /\ lock'.owner # Nobody /\ lock'.exists = lock.exists
        /\ lock'.quarantined = lock.quarantined
    BY <1>o, <1>2 DEF WriteOwner
  <2>2. Step(t, "claim", "held") /\ UNCHANGED <<mutex, Registers, history>>
    BY <1>2 DEF WriteOwner
  <2> QED BY <2>1, <2>2
<1>3. CASE Unclaim(t)
  BY <1>3 DEF Unclaim
<1>4. CASE RemoveFiles(t)
  BY <1>4 DEF RemoveFiles
<1>5. CASE RemoveDir(t)
  BY <1>5 DEF RemoveDir
<1>6. CASE RecordTruncates(t)
  BY <1>6 DEF RecordTruncates
<1>7. CASE RecordWrites(t)
  <2>1. /\ lock'.owner # Nobody /\ lock'.exists = lock.exists
        /\ lock'.quarantined = lock.quarantined
    BY <1>o, <1>7 DEF RecordWrites
  <2>2. Step(t, "recording", "start") /\ UNCHANGED <<mutex, Registers, history>>
    BY <1>7 DEF RecordWrites
  <2> QED BY <2>1, <2>2
<1>8. CASE ReleaseRenames(t)
  BY <1>8 DEF ReleaseRenames
<1>9. CASE Quarantine(t)
  BY <1>9 DEF Quarantine
<1>10. CASE WriteOwnerFails(t)
  BY <1>10 DEF WriteOwnerFails
<1>11. CASE Access(t)
  BY <1>11 DEF Access
<1>12. CASE ReadOwner(t)
  BY <1>12 DEF ReadOwner
<1>13. CASE Probe(t)
  BY <1>13 DEF Probe
<1>14. CASE TakeMutex(t)
  BY <1>14 DEF TakeMutex
<1>15. CASE RemoveFails(t)
  BY <1>15 DEF RemoveFails
<1>16. CASE Unlock(t)
  BY <1>16 DEF Unlock
<1>17. CASE EndEarly(t)
  BY <1>17 DEF EndEarly
<1>18. CASE Spawn(t)
  BY <1>18 DEF Spawn
<1>19. CASE RecordFails(t)
  BY <1>19 DEF RecordFails
<1>20. CASE Start(t)
  BY <1>20 DEF Start
<1>21. CASE DeviceWrites(t)
  BY <1>21 DEF DeviceWrites
<1>22. CASE KillDevice(t)
  BY <1>22 DEF KillDevice
<1>23. CASE ReleaseReads(t)
  BY <1>23 DEF ReleaseReads
<1>24. CASE DeviceExits(t)
  BY <1>24 DEF DeviceExits
<1> QED BY <1>1, <1>2, <1>3, <1>4, <1>5, <1>6, <1>7, <1>8, <1>9, <1>10, <1>11,
       <1>12, <1>13, <1>14, <1>15, <1>16, <1>17, <1>18, <1>19, <1>20, <1>21, <1>22,
       <1>23, <1>24 DEF LockStep, ReadStep

\* A crash leaves the files as they are: it only ends what a live run knew.
LEMMA CrashKeeps ==
  ASSUME IInv, NEW h \in Host, Crash(h)
  PROVE  IInv'
<1> USE DEF IInv, Crash, files, history, Registers
<1>1. TypeOK'
  BY DEF TypeOK
<1>2. FilesAgree' /\ WorkAgrees'
  BY DEF FilesAgree, WorkAgrees, Works
<1>3. ReclaimAgrees'
  BY DEF ReclaimAgrees, Inside, Works, Survives
<1>4. DeviceAgrees'
  BY DEF DeviceAgrees, Recorded
<1>5. CausesAgree'
  BY DEF CausesAgree, LeftoversHaveCause, Works, InMutex
<1> QED BY <1>1, <1>2, <1>3, <1>4, <1>5

\* A stuttering step keeps the invariant.
LEMMA StutterKeeps == IInv /\ UNCHANGED vars => IInv'
BY DEF vars, files, history, IInv, TypeOK, FilesAgree, WorkAgrees, ReclaimAgrees, DeviceAgrees,
   CausesAgree, LeftoversHaveCause, Works, Inside, InMutex, Survives, Recorded

\* Every step keeps the invariant, part by part.
LEMMA NextInv == IInv /\ [Next]_vars => IInv'
<1> SUFFICES ASSUME IInv, [Next]_vars PROVE IInv'
  OBVIOUS
<1>1. ASSUME NEW t \in Task, LockStep(t) \/ ReadStep(t) \/ DeviceExits(t) PROVE IInv'
  BY <1>1, TypeKept, FilesKept, WorkKept, ReclaimKept, DeviceKept, CausesKept DEF IInv
<1> QED BY <1>1, CrashKeeps, StutterKeeps, NextSplits

\* The lock, its reclaimers and their runs agree in every reachable state.
THEOREM InvariantHolds == Spec => []IInv
BY InitInv, NextInv, PTL DEF Spec

-----------------------------------------------------------------------------
\* The state keeps its type.
THEOREM TypeCorrect == Spec => []TypeOK
<1>1. IInv => TypeOK
  BY DEF IInv
<1> QED BY InvariantHolds, <1>1, PTL

\* acquireDeviceLock: two live runs never hold the device together, for any
\* number of runs, hosts and reclaimers, and wherever they crash.
THEOREM OneOwnerHolds == Spec => []OneOwner
<1>1. IInv => OneOwner
  BY DEF IInv, WorkAgrees, Works, Working, OneOwner
<1> QED BY InvariantHolds, <1>1, PTL

\* recordDeviceProcess: a runner that does not go on unrecorded keeps the lock
\* from every later host while its device process may act.
THEOREM ActingIsLockedHolds == ASSUME ~Ignores PROVE Spec => []ActingIsLocked
<1>1. IInv => ActingIsLocked
  <2> SUFFICES ASSUME IInv, NEW t \in Task, device[t] = "acting"
               PROVE  lock.exists /\ (lock.owner # Nobody => lock.owner.task = t)
    BY DEF ActingIsLocked
  <2>1. lock.owner = Recorded(t)
    BY DEF IInv, DeviceAgrees
  <2>2. Recorded(t) # Nobody /\ Recorded(t).task = t
    BY RecordedIsOwner DEF IInv
  <2> QED BY <2>1, <2>2 DEF IInv, FilesAgree, NoLock
<1> QED BY InvariantHolds, <1>1, PTL

\* No early return of create, reclaimable or the run forgets a directory: what
\* is left over has a crashed run or a failed call behind it.
THEOREM LeftoversHaveCauseHolds == Spec => []LeftoversHaveCause
<1>1. IInv => LeftoversHaveCause
  BY DEF IInv, CausesAgree
<1> QED BY InvariantHolds, <1>1, PTL

\* reclaimable looks for quarantine.json twice: no run ever removes it.
THEOREM QuarantineStaysHolds == Spec => QuarantineStays
<1>1. IInv /\ [Next]_vars => [lock.quarantined => lock'.quarantined]_lock
  <2> SUFFICES ASSUME IInv, [Next]_vars, lock.quarantined, lock' # lock
               PROVE  lock'.quarantined
    OBVIOUS
  <2>1. PICK t \in Task : LockStep(t)
    BY NextSplits, LockUnchanged DEF Crash, vars, files
  <2>2. \A u \in Task : ~Works(u) /\ pc[u] \notin {"remove", "rmdir"}
    BY DEF IInv, WorkAgrees, ReclaimAgrees
  <2>3. MakeDir(t)
    BY <2>1, <2>2 DEF LockStep, Works, Working, Holding, Step, WriteOwner, Unclaim, RemoveFiles,
       RemoveDir, RecordTruncates, RecordWrites, ReleaseRenames, Quarantine
  <2> QED BY <2>3 DEF MakeDir, IInv, FilesAgree, NoLock
<1> QED BY InvariantHolds, <1>1, PTL DEF Spec, QuarantineStays

-----------------------------------------------------------------------------
(* The lock implements the lease: every step is one of the lease, or none. *)

\* What a call does to the holders depends on where it is in acquireDeviceLock.
LEMMA HoldersMove ==
  ASSUME TypeOK, NEW t \in Task, NEW from, NEW to, Step(t, from, to)
  PROVE  /\ (from \in Holding <=> to \in Holding) => Holders' = Holders
         /\ from \notin Holding /\ to \in Holding => Holders' = Holders \cup {t}
         /\ from \in Holding /\ to \notin Holding =>
              t \in Holders /\ Holders' = Holders \ {t}
<1>1. /\ pc[t] = from /\ pc'[t] = to /\ host[t] \in alive /\ host' = host /\ alive' = alive
      /\ \A u \in Task : u # t => pc'[u] = pc[u]
  BY DEF TypeOK, Step
<1>2. /\ \A u \in Task : u \in Holders <=> pc[u] \in Holding /\ host[u] \in alive
      /\ \A u \in Task : u \in Holders' <=> pc'[u] \in Holding /\ host'[u] \in alive'
      /\ Holders \subseteq Task /\ Holders' \subseteq Task
  BY DEF Holders
<1> HIDE DEF Holding
<1> QED BY <1>1, <1>2

\* Where each call leads, into the part where the lock is held or out of it.
LEMMA CallsMove ==
  /\ {"mkdir", "claim", "unclaim", "access", "read", "probe", "mutex", "remove", "rmdir",
      "unlock", "again", "busy", "done"} \cap Holding = {}
  /\ {"held", "record", "recording", "start", "running", "stop", "release", "rename",
      "quarantine"} = Holding
  /\ \A t \in Task : GiveUp(t) \notin Holding
BY DEF Holding, GiveUp

\* The device processes that act are the same while no process starts or ends.
LEMMA ActorsSame == device' = device => Actors' = Actors
BY DEF Actors

\* Who works on the lock, or removes it, finds no quarantine.json.
LEMMA Unmarked ==
  ASSUME IInv, NEW t \in Task, Works(t) \/ pc[t] \in {"remove", "rmdir"}
  PROVE  lock.quarantined = FALSE /\ NoLock.quarantined = FALSE
<1>0. NoLock.quarantined = FALSE
  BY DEF NoLock
<1>1. lock.quarantined \in BOOLEAN
  BY DEF IInv, TypeOK
<1>2. ~lock.quarantined
  BY DEF IInv, WorkAgrees, ReclaimAgrees
<1> QED BY <1>0, <1>1, <1>2

\* The calls before the lock is held: the directory they make or remove is not
\* quarantined.
LEMMA AcquireStutters ==
  ASSUME IInv, NEW t \in Task,
         \/ MakeDir(t) \/ WriteOwnerFails(t) \/ Unclaim(t) \/ Access(t) \/ ReadOwner(t)
         \/ Probe(t) \/ TakeMutex(t) \/ RemoveFiles(t) \/ RemoveDir(t) \/ RemoveFails(t)
         \/ Unlock(t)
  PROVE  UNCHANGED Lease!leaseVars
<1>i. TypeOK
  BY DEF IInv
<1>d. Actors' = Actors
  BY ActorsSame DEF MakeDir, WriteOwnerFails, Unclaim, Access, ReadOwner, Probe, TakeMutex,
     RemoveFiles, RemoveDir, RemoveFails, Unlock
<1>h. Holders' = Holders
  <2>1. \E from, to : /\ Step(t, from, to)
                      /\ from \notin Holding /\ to \notin Holding
    BY CallsMove DEF MakeDir, WriteOwnerFails, Unclaim, Access, ReadOwner, Probe, TakeMutex,
       RemoveFiles, RemoveDir, RemoveFails, Unlock
  <2> QED BY <1>i, <2>1, HoldersMove
<1>q. lock'.quarantined = lock.quarantined
  <2>1. CASE MakeDir(t)
    BY <2>1 DEF MakeDir, IInv, TypeOK, FilesAgree, NoLock
  <2>2. CASE Unclaim(t)
    <3>1. lock.quarantined = FALSE /\ NoLock.quarantined = FALSE
      BY <2>2, Unmarked DEF Unclaim, Step, Works, Working
    <3>2. lock' \in {lock, NoLock}
      BY <2>2 DEF Unclaim
    <3> QED BY <3>1, <3>2
  <2>3. CASE RemoveFiles(t)
    <3>1. lock.quarantined = FALSE
      BY <2>3, Unmarked DEF RemoveFiles, Step
    <3> QED BY <1>i, <2>3, <3>1 DEF RemoveFiles, TypeOK
  <2>5. CASE RemoveDir(t)
    <3>1. lock.quarantined = FALSE
      BY <2>5, Unmarked DEF RemoveDir, Step
    <3> QED BY <2>5, <3>1 DEF RemoveDir, NoLock
  <2>4. CASE \/ WriteOwnerFails(t) \/ Access(t) \/ ReadOwner(t) \/ Probe(t) \/ TakeMutex(t)
             \/ RemoveFails(t) \/ Unlock(t)
    BY <2>4, LockUnchanged DEF ReadStep
  <2> QED BY <2>1, <2>2, <2>3, <2>4, <2>5
<1> QED BY <1>d, <1>h, <1>q DEF Lease!leaseVars

\* owner.json is written by the run that made the directory: nobody else is at work
\* on the lock, and no device process is recorded in it.
LEMMA WriteOwnerTakes ==
  ASSUME IInv, ~Ignores, NEW t \in Task, WriteOwner(t)
  PROVE  Lease!Take(t)
<1>1. /\ Step(t, "claim", "held") /\ pc[t] = "claim" /\ host[t] \in alive /\ Works(t)
      /\ device' = device /\ TypeOK
  BY DEF WriteOwner, Step, IInv, Works, Working
<1>2. Holders = {}
  BY <1>1 DEF IInv, WorkAgrees, Works, Working, Holders, Holding
<1>3. Actors = {}
  <2>1. lock.owner = Nobody
    BY <1>1 DEF IInv, WorkAgrees
  <2>2. ASSUME NEW u \in Task, device[u] = "acting" PROVE FALSE
    BY <1>1, <2>1, <2>2, RecordedIsOwner DEF IInv, DeviceAgrees
  <2> QED BY <2>2 DEF Actors
<1>4. ~lock.quarantined /\ lock'.quarantined = lock.quarantined
  BY <1>1 DEF IInv, TypeOK, WorkAgrees, WriteOwner
<1>5. Holders' = Holders \cup {t}
  BY <1>1, HoldersMove, CallsMove
<1> QED BY <1>1, <1>2, <1>3, <1>4, <1>5, ActorsSame DEF Lease!Take

\* A device process that is told what to do is recorded, so it is the only one.
LEMMA StartActs ==
  ASSUME IInv, ~Ignores, NEW t \in Task, Start(t)
  PROVE  Lease!Act(t)
<1>1. /\ Step(t, "start", "running") /\ pc[t] = "start" /\ host[t] \in alive /\ TypeOK
      /\ device[t] = "idle" /\ device' = [device EXCEPT ![t] = "acting"] /\ lock' = lock
  BY DEF Start, Step, IInv, files
<1>2. Actors = {}
  <2>1. lock.owner = Recorded(t)
    BY <1>1 DEF IInv, DeviceAgrees
  <2>2. ASSUME NEW u \in Task, device[u] = "acting" PROVE FALSE
    <3>1. lock.owner = Recorded(u)
      BY <2>2 DEF IInv, DeviceAgrees
    <3>2. Recorded(u).task = u /\ Recorded(t).task = t
      BY <1>1, RecordedIsOwner
    <3>3. u = t
      BY <2>1, <3>1, <3>2
    <3> QED BY <1>1, <2>2, <3>3
  <2> QED BY <2>2 DEF Actors
<1>3. Actors' = {t}
  BY <1>1, <1>2 DEF Actors, TypeOK
<1>4. t \in Holders /\ Holders' = Holders
  <2>1. t \in Holders
    BY <1>1, CallsMove DEF Holders
  <2> QED BY <1>1, <2>1, HoldersMove, CallsMove
<1> QED BY <1>1, <1>2, <1>3, <1>4 DEF Lease!Act

\* The calls of a run that holds the lock and goes on holding it.
LEMMA HoldStutters ==
  ASSUME IInv, NEW t \in Task,
         \/ EndEarly(t) \/ Spawn(t) \/ RecordTruncates(t) \/ RecordWrites(t) \/ RecordFails(t)
         \/ DeviceWrites(t)
  PROVE  UNCHANGED Lease!leaseVars
<1>i. TypeOK
  BY DEF IInv
<1>h. Holders' = Holders
  <2>1. \E from, to : /\ Step(t, from, to)
                      /\ from \in Holding /\ to \in Holding
    BY CallsMove DEF EndEarly, Spawn, RecordTruncates, RecordWrites, RecordFails, DeviceWrites
  <2> QED BY <1>i, <2>1, HoldersMove
<1>d. Actors' = Actors
  <2>1. CASE Spawn(t)
    <3>1. device[t] = "none" /\ device' = [device EXCEPT ![t] = "idle"]
      BY <2>1 DEF Spawn, Step, IInv, DeviceAgrees
    <3> QED BY <1>i, <3>1 DEF Actors, TypeOK
  <2>2. CASE \/ EndEarly(t) \/ RecordTruncates(t) \/ RecordWrites(t) \/ RecordFails(t)
             \/ DeviceWrites(t)
    BY <2>2, ActorsSame DEF EndEarly, RecordTruncates, RecordWrites, RecordFails, DeviceWrites,
       Registers
  <2> QED BY <2>1, <2>2
<1>q. lock'.quarantined = lock.quarantined
  BY <1>i DEF TypeOK, EndEarly, Spawn, RecordTruncates, RecordWrites, RecordFails, DeviceWrites,
     files
<1> QED BY <1>d, <1>h, <1>q DEF Lease!leaseVars

\* A device process that ends, by itself or killed, ceases to act if it did.
LEMMA EndCeases ==
  ASSUME IInv, NEW t \in Task, DeviceExits(t) \/ KillDevice(t)
  PROVE  Lease!Cease(t) \/ UNCHANGED Lease!leaseVars
<1>1. TypeOK /\ lock' = lock /\ device' \in {device, [device EXCEPT ![t] = "gone"]}
  BY DEF IInv, DeviceExits, KillDevice, files
<1>2. Holders' = Holders
  <2>1. CASE DeviceExits(t)
    BY <2>1 DEF DeviceExits, Holders
  <2>2. CASE KillDevice(t)
    <3>1. \E from, to : Step(t, from, to) /\ from \in Holding /\ to \in Holding
      BY <2>2, CallsMove DEF KillDevice
    <3> QED BY <1>1, <3>1, HoldersMove
  <2> QED BY <2>1, <2>2
<1>3. Actors' = Actors \/ (t \in Actors /\ Actors' = Actors \ {t})
  <2>1. CASE device' = device
    BY <2>1, ActorsSame
  <2>2. CASE device' = [device EXCEPT ![t] = "gone"]
    <3>1. Actors' = Actors \ {t}
      BY <1>1, <2>2 DEF Actors, TypeOK
    <3> QED BY <3>1
  <2> QED BY <1>1, <2>1, <2>2
<1> QED BY <1>1, <1>2, <1>3 DEF Lease!Cease, Lease!leaseVars

\* A run that gives the lock up leaves the lease, and leaves it blocked if the lock
\* is quarantined.
LEMMA ReleaseLeaves ==
  ASSUME IInv, NEW t \in Task, ReleaseReads(t) \/ ReleaseRenames(t) \/ Quarantine(t)
  PROVE  Lease!Leave(t) \/ UNCHANGED Lease!leaseVars
<1>1. TypeOK /\ device' = device
  BY DEF IInv, ReleaseReads, ReleaseRenames, Quarantine
<1>2. Holders' = Holders \/ (t \in Holders /\ Holders' = Holders \ {t})
  <2>1. \E from, to : Step(t, from, to) /\ from \in Holding
    BY CallsMove DEF ReleaseReads, ReleaseRenames, Quarantine
  <2> QED BY <1>1, <2>1, HoldersMove
<1>3. ReleaseRenames(t) \/ Quarantine(t) => t \in Holders /\ Holders' = Holders \ {t}
  BY <1>1, HoldersMove, CallsMove DEF ReleaseRenames, Quarantine
<1>4. CASE ReleaseReads(t)
  BY <1>1, <1>2, <1>4, ActorsSame DEF ReleaseReads, files, Lease!Leave, Lease!leaseVars
<1>5. CASE ReleaseRenames(t)
  <2>1. lock'.quarantined = lock.quarantined
    <3>1. lock.quarantined = FALSE /\ NoLock.quarantined = FALSE
      BY <1>5, Unmarked DEF ReleaseRenames, Step, Works, Working, Holding
    <3>2. lock' \in {lock, NoLock}
      BY <1>5 DEF ReleaseRenames
    <3> QED BY <3>1, <3>2
  <2> QED BY <1>1, <1>3, <1>5, <2>1, ActorsSame DEF Lease!Leave
<1>6. CASE Quarantine(t)
  <2>1. lock'.quarantined \in {lock.quarantined, TRUE}
    BY <1>1, <1>6 DEF Quarantine, TypeOK
  <2> QED BY <1>1, <1>3, <1>6, <2>1, ActorsSame DEF Lease!Leave
<1> QED BY <1>4, <1>5, <1>6

\* The host of the run that holds the device crashes, or another one.
LEMMA CrashLeaves ==
  ASSUME IInv, NEW h \in Host, Crash(h)
  PROVE  (\E t \in Task : Lease!Leave(t)) \/ UNCHANGED Lease!leaseVars
<1>1. /\ lock' = lock /\ device' = device /\ pc' = pc /\ host' = host /\ alive' = alive \ {h}
  BY DEF Crash, files
<1>2. Actors' = Actors
  BY <1>1, ActorsSame
<1>3. \A t, u \in Holders : t = u
  BY DEF IInv, WorkAgrees, Works, Working, Holders
<1>4. Holders' \subseteq Holders
  BY <1>1 DEF Holders
<1>5. CASE Holders' = Holders
  BY <1>1, <1>2, <1>5 DEF Lease!leaseVars
<1>6. ASSUME NEW t \in Holders, t \notin Holders'
      PROVE  \E u \in Task : Lease!Leave(u)
  <2>1. t \in Task /\ Holders' = Holders \ {t}
    BY <1>3, <1>4, <1>6 DEF Holders
  <2> QED BY <1>1, <1>2, <2>1 DEF Lease!Leave
<1> QED BY <1>4, <1>5, <1>6

\* Every step of the lock is a step of the lease or none.
LEMMA LeaseStep ==
  ASSUME ~Ignores, IInv, [Next]_vars
  PROVE  [Lease!Next]_Lease!leaseVars
<1>1. ASSUME NEW t \in Task, LockStep(t) \/ ReadStep(t) \/ DeviceExits(t)
      PROVE  [Lease!Next]_Lease!leaseVars
  <2>1. \/ Lease!Take(t) \/ Lease!Act(t) \/ Lease!Cease(t) \/ Lease!Leave(t)
        \/ UNCHANGED Lease!leaseVars
    BY <1>1, AcquireStutters, WriteOwnerTakes, StartActs, HoldStutters, EndCeases, ReleaseLeaves
       DEF LockStep, ReadStep
  <2> QED BY <2>1 DEF Lease!Next
<1>2. ASSUME NEW h \in Host, Crash(h)
      PROVE  [Lease!Next]_Lease!leaseVars
  BY <1>2, CrashLeaves DEF Lease!Next
<1>3. CASE UNCHANGED vars
  <2>1. Holders' = Holders /\ Actors' = Actors /\ lock' = lock
    BY <1>3 DEF Holders, Actors, vars, files
  <2> QED BY <2>1 DEF Lease!leaseVars
<1> QED BY <1>1, <1>2, <1>3, NextSplits

\* acquireDeviceLock, recordDeviceProcess and the runs are one lease of the device,
\* for any number of runs and hosts: it is taken only when nobody holds it, no process
\* of an earlier run may act and no earlier run has left it in doubt.
THEOREM ImplementsLeaseHolds == ASSUME ~Ignores PROVE Spec => ImplementsLease
<1>1. Init => Lease!Init
  BY DEF Init, Lease!Init, Holders, Actors, Holding, NoLock
<1>2. IInv /\ [Next]_vars => [Lease!Next]_Lease!leaseVars
  BY LeaseStep
<1> QED BY <1>1, <1>2, InvariantHolds, PTL DEF Spec, ImplementsLease, Lease!Spec
=============================================================================
