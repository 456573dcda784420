----------------------------- MODULE HelixProofs -----------------------------
(***************************************************************************)
(* What holds of the node daemon for any documents, bundles, failures and  *)
(* crashes: a node that says ready serves the bundle it names, a bundle is *)
(* known good only when it passed the gate, and its document stays on the  *)
(* node.                                                                   *)
(***************************************************************************)
EXTENDS HelixNode, TLAPS

(* A process that has not synced yet runs no server, whatever it restored. *)
StartsEmpty ==
    pc \in {"down", "restored"} => server = None /\ bundle = None

(* From the first save of a sync to its last the snapshot is not ready. *)
QuietWhileApplying ==
    pc \in {"applying", "spawning", "gate", "failed", "rollback"} => ~snap.ready

(* The gate looks at the server of the document in hand. *)
GateServes ==
    pc = "gate" => server = doc /\ bundle = Bundle[doc]

(* The document in hand is on the disk until its sync is over. *)
InHandIsLocal ==
    pc \in {"staged", "applying", "spawning", "gate"} => staged[Bundle[doc]] # None

(* A rollback has found the file of the bundle it goes back to. *)
TargetIsLocal ==
    pc = "rollback" /\ Target # Bootstrap => staged[Target] # None

Serving == StartsEmpty /\ QuietWhileApplying /\ GateServes /\ ReadyIsServed

IInv ==
    /\ TypeOK
    /\ InHandIsLocal
    /\ TargetIsLocal
    /\ Serving
    /\ KnownGoodWasProven
    /\ KnownGoodIsLocal

-----------------------------------------------------------------------------
LEMMA Parameters ==
    /\ \A d \in Documents : Bundle[d] \in Bundles /\ d # None
    /\ None \notin Bundles /\ Bootstrap \notin Bundles
    /\ None # Bootstrap
    /\ MaxChanges \in Nat /\ MaxUpsets \in Nat
<1>1. /\ Bundles \cap {"none", "bundle-bootstrap"} = {}
      /\ "none" \notin Documents
      /\ MaxChanges \in Nat /\ MaxUpsets \in Nat
  BY NodeAssumption DEF NodeAssumption
<1>2. \A d \in Documents : Bundle[d] \in Bundles
  BY DEF Bundles
<1> QED
  BY <1>1, <1>2 DEF None, Bootstrap

LEMMA FreshIsSnapshot == Fresh \in Snapshots
  BY DEF Fresh, Snapshots

LEMMA FailedIsSnapshot ==
    ASSUME NEW s \in Snapshots PROVE Failed(s) \in Snapshots
  BY DEF Failed, Snapshots

LEMMA InitInv == Init => IInv
<1> SUFFICES ASSUME Init PROVE IInv
  OBVIOUS
<1> USE DEF Init, Fresh
<1>1. TypeOK
  <2>1. lingering \in BOOLEAN
    OBVIOUS
  <2> HIDE DEF Fresh
  <2>2. Fresh \in Snapshots
    BY FreshIsSnapshot
  <2> QED
    BY <2>1, <2>2, Parameters DEF TypeOK
<1>2. InHandIsLocal /\ TargetIsLocal
  BY DEF InHandIsLocal, TargetIsLocal
<1>3. Serving
  BY DEF Serving, StartsEmpty, QuietWhileApplying, GateServes, ReadyIsServed
<1>4. KnownGoodWasProven /\ KnownGoodIsLocal
  BY DEF KnownGoodWasProven, KnownGoodIsLocal
<1> QED
  BY <1>1, <1>2, <1>3, <1>4 DEF IInv

-----------------------------------------------------------------------------
LEMMA TypeStep ==
    TypeOK /\ TargetIsLocal /\ [Next]_vars => TypeOK'
<1> SUFFICES ASSUME TypeOK, TargetIsLocal, [Next]_vars PROVE TypeOK'
  OBVIOUS
<1> USE DEF TypeOK, Snapshots
<1>1. CASE UNCHANGED vars
  BY <1>1 DEF vars, plane, disk, supervisor
<1>2. ASSUME NEW d \in Documents, Assign(d) PROVE TypeOK'
  BY <1>2, Parameters DEF Assign, disk, supervisor
<1>3. CASE Restore
  BY <1>3, Parameters DEF Restore, Save, plane, disk, supervisor
<1>4. CASE PollFails
  <2>1. Failed(snap) \in Snapshots
    BY FailedIsSnapshot
  <2> HIDE DEF Snapshots
  <2> QED
    BY <1>4, <2>1, Parameters DEF PollFails, Save, Upset, plane, disk, supervisor
<1>5. CASE KeepRunning
  BY <1>5, Parameters DEF KeepRunning, Save, IsActive, Matches, plane, disk, supervisor
<1>6. CASE Stage
  BY <1>6, Parameters DEF Stage, plane, disk, supervisor
<1>7. CASE BeginApply
  BY <1>7, Parameters DEF BeginApply, Save, Applying, plane, disk, supervisor
<1>8. CASE Pause
  BY <1>8, Parameters DEF Pause, Save, plane, disk, supervisor
<1>9. CASE StopToApply
  <2>1. lingering' \in BOOLEAN
    BY <1>9, Zenon DEF StopServer, StopToApply
  <2> QED
    BY <1>9, <2>1, Parameters DEF StopToApply, Upset, StopServer, plane, disk, supervisor
<1>10. CASE Spawn
  BY <1>10, Parameters DEF Spawn, plane, disk, supervisor
<1>11. CASE SpawnFails
  BY <1>11, Parameters DEF SpawnFails, Upset, plane, disk, supervisor
<1>12. CASE Succeed
  BY <1>12, Parameters DEF Succeed, Save, plane, disk, supervisor
<1>13. CASE TargetMissing
  BY <1>13, Parameters DEF TargetMissing, Save, Failed, Target, plane, disk, supervisor
<1>14. CASE StopToRollBack
  <2>1. lingering' \in BOOLEAN
    BY <1>14, Zenon DEF StopServer, StopToRollBack
  <2> QED
    BY <1>14, <2>1, Parameters DEF StopToRollBack, Upset, StopServer, Target, plane, disk, supervisor
<1>15. CASE RollBackToBootstrap
  BY <1>15, Parameters DEF RollBackToBootstrap, Save, Target, RolledBack, plane, disk, supervisor
<1>16. CASE RollBack
  BY <1>16, Parameters DEF RollBack, Save, Target, RolledBack, plane, disk, supervisor, TargetIsLocal
<1>17. CASE RollBackFails
  <2>1. Failed(snap) \in Snapshots
    BY FailedIsSnapshot
  <2> HIDE DEF Snapshots
  <2> QED
    BY <1>17, <2>1, Parameters DEF RollBackFails, Save, Upset, Target, plane, disk, supervisor
<1>18. CASE RefuseDocument
  BY <1>18, Parameters DEF RefuseDocument, Upset, plane, disk, supervisor
<1>19. CASE VersionUnreadable
  <2>1. Failed(snap) \in Snapshots
    BY FailedIsSnapshot
  <2> HIDE DEF Snapshots
  <2> QED
    BY <1>19, <2>1, Parameters DEF VersionUnreadable, Save, Upset, plane, disk, supervisor
<1>20. CASE GateTimesOut
  BY <1>20, Parameters DEF GateTimesOut, Upset, plane, disk, supervisor
<1>21. CASE ListenersClose
  <2>1. lingering' \in BOOLEAN
    BY <1>21, Zenon DEF ListenersClose
  <2> QED
    BY <1>21, <2>1, Parameters DEF ListenersClose, plane, disk, supervisor
<1>22. CASE Crash
  <2>1. Fresh \in Snapshots
    BY FreshIsSnapshot
  <2>2. lingering' \in BOOLEAN
    BY <1>22, Zenon DEF Crash, Die
  <2> HIDE DEF Snapshots
  <2> QED
    BY <1>22, <2>1, <2>2, Parameters DEF Crash, Die, Upset, plane, disk, supervisor
<1>23. CASE CrashInSave
  <2>1. Fresh \in Snapshots
    BY FreshIsSnapshot
  <2>2. lingering' \in BOOLEAN
    BY <1>23, Zenon DEF CrashInSave, Die
  <2> HIDE DEF Snapshots
  <2> QED
    BY <1>23, <2>1, <2>2, Parameters DEF CrashInSave, Die, Upset, plane, disk, supervisor
<1>24. CASE CrashInStage
  <2>1. Fresh \in Snapshots
    BY FreshIsSnapshot
  <2>2. lingering' \in BOOLEAN
    BY <1>24, Zenon DEF CrashInStage, Die
  <2> HIDE DEF Snapshots
  <2> QED
    BY <1>24, <2>1, <2>2, Parameters DEF CrashInStage, Die, Upset, plane, disk, supervisor
<1> QED
  BY <1>1, <1>2, <1>3, <1>4, <1>5, <1>6, <1>7, <1>8, <1>9, <1>10, <1>11, <1>12, <1>13, <1>14, <1>15, <1>16, <1>17, <1>18, <1>19, <1>20, <1>21, <1>22, <1>23, <1>24 DEF Next, Sync

-----------------------------------------------------------------------------
LEMMA StagedStep ==
    TypeOK /\ InHandIsLocal /\ TargetIsLocal /\ [Next]_vars => (InHandIsLocal /\ TargetIsLocal)'
<1> SUFFICES ASSUME TypeOK, InHandIsLocal, TargetIsLocal, [Next]_vars PROVE (InHandIsLocal /\ TargetIsLocal)'
  OBVIOUS
<1> USE DEF TypeOK, Snapshots, InHandIsLocal, TargetIsLocal, Target
<1>1. CASE UNCHANGED vars
  BY <1>1 DEF vars, plane, disk, supervisor
<1>2. ASSUME NEW d \in Documents, Assign(d) PROVE (InHandIsLocal /\ TargetIsLocal)'
  BY <1>2, Parameters DEF Assign, disk, supervisor
<1>3. CASE Restore
  BY <1>3, Parameters DEF Restore, Save, plane, disk, supervisor
<1>4. CASE PollFails
  BY <1>4, Parameters DEF PollFails, Save, Failed, Upset, plane, disk, supervisor
<1>5. CASE KeepRunning
  BY <1>5, Parameters DEF KeepRunning, Save, IsActive, Matches, plane, disk, supervisor
<1>6. CASE Stage
  BY <1>6, Parameters DEF Stage, plane, disk, supervisor
<1>7. CASE BeginApply
  BY <1>7, Parameters DEF BeginApply, Save, Applying, plane, disk, supervisor
<1>8. CASE Pause
  BY <1>8, Parameters DEF Pause, Save, plane, disk, supervisor
<1>9. CASE StopToApply
  BY <1>9, Parameters DEF StopToApply, Upset, StopServer, plane, disk, supervisor
<1>10. CASE Spawn
  BY <1>10, Parameters DEF Spawn, plane, disk, supervisor
<1>11. CASE SpawnFails
  BY <1>11, Parameters DEF SpawnFails, Upset, plane, disk, supervisor
<1>12. CASE Succeed
  BY <1>12, Parameters DEF Succeed, Save, plane, disk, supervisor
<1>13. CASE TargetMissing
  BY <1>13, Parameters DEF TargetMissing, Save, Failed, Target, plane, disk, supervisor
<1>14. CASE StopToRollBack
  BY <1>14, Parameters DEF StopToRollBack, Upset, StopServer, Target, plane, disk, supervisor
<1>15. CASE RollBackToBootstrap
  BY <1>15, Parameters DEF RollBackToBootstrap, Save, Target, RolledBack, plane, disk, supervisor
<1>16. CASE RollBack
  BY <1>16, Parameters DEF RollBack, Save, Target, RolledBack, plane, disk, supervisor
<1>17. CASE RollBackFails
  BY <1>17, Parameters DEF RollBackFails, Save, Failed, Upset, Target, plane, disk, supervisor
<1>18. CASE RefuseDocument
  BY <1>18, Parameters DEF RefuseDocument, Upset, plane, disk, supervisor
<1>19. CASE VersionUnreadable
  BY <1>19, Parameters DEF VersionUnreadable, Save, Failed, Upset, plane, disk, supervisor
<1>20. CASE GateTimesOut
  BY <1>20, Parameters DEF GateTimesOut, Upset, plane, disk, supervisor
<1>21. CASE ListenersClose
  BY <1>21, Parameters DEF ListenersClose, plane, disk, supervisor
<1>22. CASE Crash
  BY <1>22, Parameters DEF Crash, Die, Upset, Fresh, plane, disk, supervisor
<1>23. CASE CrashInSave
  BY <1>23, Parameters DEF CrashInSave, Die, Upset, Fresh, plane, disk, supervisor
<1>24. CASE CrashInStage
  BY <1>24, Parameters DEF CrashInStage, Die, Upset, Fresh, plane, disk, supervisor
<1> QED
  BY <1>1, <1>2, <1>3, <1>4, <1>5, <1>6, <1>7, <1>8, <1>9, <1>10, <1>11, <1>12, <1>13, <1>14, <1>15, <1>16, <1>17, <1>18, <1>19, <1>20, <1>21, <1>22, <1>23, <1>24 DEF Next, Sync

-----------------------------------------------------------------------------
LEMMA ServingStep ==
    TypeOK /\ TargetIsLocal /\ Serving /\ [Next]_vars => Serving'
<1> SUFFICES ASSUME TypeOK, TargetIsLocal, Serving, [Next]_vars PROVE Serving'
  OBVIOUS
<1> USE DEF TypeOK, Snapshots, TargetIsLocal, Serving, StartsEmpty, QuietWhileApplying, GateServes, ReadyIsServed
<1>1. CASE UNCHANGED vars
  BY <1>1 DEF vars, plane, disk, supervisor
<1>2. ASSUME NEW d \in Documents, Assign(d) PROVE Serving'
  BY <1>2, Parameters DEF Assign, disk, supervisor
<1>3. CASE Restore
  BY <1>3, Parameters DEF Restore, Save, plane, disk, supervisor
<1>4. CASE PollFails
  BY <1>4, Parameters DEF PollFails, Save, Failed, Upset, plane, disk, supervisor
<1>5. CASE KeepRunning
  BY <1>5, Parameters DEF KeepRunning, Save, IsActive, Matches, plane, disk, supervisor
<1>6. CASE Stage
  BY <1>6, Parameters DEF Stage, plane, disk, supervisor
<1>7. CASE BeginApply
  BY <1>7, Parameters DEF BeginApply, Save, Applying, plane, disk, supervisor
<1>8. CASE Pause
  BY <1>8, Parameters DEF Pause, Save, plane, disk, supervisor
<1>9. CASE StopToApply
  BY <1>9, Parameters DEF StopToApply, Upset, StopServer, plane, disk, supervisor
<1>10. CASE Spawn
  BY <1>10, Parameters DEF Spawn, plane, disk, supervisor
<1>11. CASE SpawnFails
  BY <1>11, Parameters DEF SpawnFails, Upset, plane, disk, supervisor
<1>12. CASE Succeed
  BY <1>12, Parameters DEF Succeed, Save, plane, disk, supervisor
<1>13. CASE TargetMissing
  BY <1>13, Parameters DEF TargetMissing, Save, Failed, Target, plane, disk, supervisor
<1>14. CASE StopToRollBack
  BY <1>14, Parameters DEF StopToRollBack, Upset, StopServer, Target, plane, disk, supervisor
<1>15. CASE RollBackToBootstrap
  BY <1>15, Parameters DEF RollBackToBootstrap, Save, Target, RolledBack, plane, disk, supervisor
<1>16. CASE RollBack
  BY <1>16, Parameters DEF RollBack, Save, Target, RolledBack, plane, disk, supervisor
<1>17. CASE RollBackFails
  BY <1>17, Parameters DEF RollBackFails, Save, Failed, Upset, Target, plane, disk, supervisor
<1>18. CASE RefuseDocument
  BY <1>18, Parameters DEF RefuseDocument, Upset, plane, disk, supervisor
<1>19. CASE VersionUnreadable
  BY <1>19, Parameters DEF VersionUnreadable, Save, Failed, Upset, plane, disk, supervisor
<1>20. CASE GateTimesOut
  BY <1>20, Parameters DEF GateTimesOut, Upset, plane, disk, supervisor
<1>21. CASE ListenersClose
  BY <1>21, Parameters DEF ListenersClose, plane, disk, supervisor
<1>22. CASE Crash
  BY <1>22, Parameters DEF Crash, Die, Upset, Fresh, plane, disk, supervisor
<1>23. CASE CrashInSave
  BY <1>23, Parameters DEF CrashInSave, Die, Upset, Fresh, plane, disk, supervisor
<1>24. CASE CrashInStage
  BY <1>24, Parameters DEF CrashInStage, Die, Upset, Fresh, plane, disk, supervisor
<1> QED
  BY <1>1, <1>2, <1>3, <1>4, <1>5, <1>6, <1>7, <1>8, <1>9, <1>10, <1>11, <1>12, <1>13, <1>14, <1>15, <1>16, <1>17, <1>18, <1>19, <1>20, <1>21, <1>22, <1>23, <1>24 DEF Next, Sync

-----------------------------------------------------------------------------
LEMMA ProvenStep ==
    TypeOK /\ KnownGoodWasProven /\ [Next]_vars => KnownGoodWasProven'
<1> SUFFICES ASSUME TypeOK, KnownGoodWasProven, [Next]_vars PROVE KnownGoodWasProven'
  OBVIOUS
<1> USE DEF TypeOK, Snapshots, KnownGoodWasProven
<1>1. CASE UNCHANGED vars
  BY <1>1 DEF vars, plane, disk, supervisor
<1>2. ASSUME NEW d \in Documents, Assign(d) PROVE KnownGoodWasProven'
  BY <1>2, Parameters DEF Assign, disk, supervisor
<1>3. CASE Restore
  BY <1>3, Parameters DEF Restore, Save, plane, disk, supervisor
<1>4. CASE PollFails
  BY <1>4, Parameters DEF PollFails, Save, Failed, Upset, plane, disk, supervisor
<1>5. CASE KeepRunning
  BY <1>5, Parameters DEF KeepRunning, Save, IsActive, Matches, plane, disk, supervisor
<1>6. CASE Stage
  BY <1>6, Parameters DEF Stage, plane, disk, supervisor
<1>7. CASE BeginApply
  BY <1>7, Parameters DEF BeginApply, Save, Applying, plane, disk, supervisor
<1>8. CASE Pause
  BY <1>8, Parameters DEF Pause, Save, plane, disk, supervisor
<1>9. CASE StopToApply
  BY <1>9, Parameters DEF StopToApply, Upset, StopServer, plane, disk, supervisor
<1>10. CASE Spawn
  BY <1>10, Parameters DEF Spawn, plane, disk, supervisor
<1>11. CASE SpawnFails
  BY <1>11, Parameters DEF SpawnFails, Upset, plane, disk, supervisor
<1>12. CASE Succeed
  BY <1>12, Parameters DEF Succeed, Save, plane, disk, supervisor
<1>13. CASE TargetMissing
  BY <1>13, Parameters DEF TargetMissing, Save, Failed, Target, plane, disk, supervisor
<1>14. CASE StopToRollBack
  BY <1>14, Parameters DEF StopToRollBack, Upset, StopServer, Target, plane, disk, supervisor
<1>15. CASE RollBackToBootstrap
  BY <1>15, Parameters DEF RollBackToBootstrap, Save, Target, RolledBack, plane, disk, supervisor
<1>16. CASE RollBack
  BY <1>16, Parameters DEF RollBack, Save, Target, RolledBack, plane, disk, supervisor
<1>17. CASE RollBackFails
  BY <1>17, Parameters DEF RollBackFails, Save, Failed, Upset, Target, plane, disk, supervisor
<1>18. CASE RefuseDocument
  BY <1>18, Parameters DEF RefuseDocument, Upset, plane, disk, supervisor
<1>19. CASE VersionUnreadable
  BY <1>19, Parameters DEF VersionUnreadable, Save, Failed, Upset, plane, disk, supervisor
<1>20. CASE GateTimesOut
  BY <1>20, Parameters DEF GateTimesOut, Upset, plane, disk, supervisor
<1>21. CASE ListenersClose
  BY <1>21, Parameters DEF ListenersClose, plane, disk, supervisor
<1>22. CASE Crash
  BY <1>22, Parameters DEF Crash, Die, Upset, Fresh, plane, disk, supervisor
<1>23. CASE CrashInSave
  BY <1>23, Parameters DEF CrashInSave, Die, Upset, Fresh, plane, disk, supervisor
<1>24. CASE CrashInStage
  BY <1>24, Parameters DEF CrashInStage, Die, Upset, Fresh, plane, disk, supervisor
<1> QED
  BY <1>1, <1>2, <1>3, <1>4, <1>5, <1>6, <1>7, <1>8, <1>9, <1>10, <1>11, <1>12, <1>13, <1>14, <1>15, <1>16, <1>17, <1>18, <1>19, <1>20, <1>21, <1>22, <1>23, <1>24 DEF Next, Sync

-----------------------------------------------------------------------------
LEMMA LocalStep ==
    TypeOK /\ InHandIsLocal /\ KnownGoodIsLocal /\ [Next]_vars => KnownGoodIsLocal'
<1> SUFFICES ASSUME TypeOK, InHandIsLocal, KnownGoodIsLocal, [Next]_vars PROVE KnownGoodIsLocal'
  OBVIOUS
<1> USE DEF TypeOK, Snapshots, KnownGoodIsLocal
<1>1. CASE UNCHANGED vars
  BY <1>1 DEF vars, plane, disk, supervisor
<1>2. ASSUME NEW d \in Documents, Assign(d) PROVE KnownGoodIsLocal'
  BY <1>2, Parameters DEF Assign, disk, supervisor
<1>3. CASE Restore
  BY <1>3, Parameters DEF Restore, Save, plane, disk, supervisor
<1>4. CASE PollFails
  BY <1>4, Parameters DEF PollFails, Save, Failed, Upset, plane, disk, supervisor
<1>5. CASE KeepRunning
  BY <1>5, Parameters DEF KeepRunning, Save, IsActive, Matches, plane, disk, supervisor
<1>6. CASE Stage
  BY <1>6, Parameters DEF Stage, plane, disk, supervisor
<1>7. CASE BeginApply
  BY <1>7, Parameters DEF BeginApply, Save, Applying, plane, disk, supervisor
<1>8. CASE Pause
  BY <1>8, Parameters DEF Pause, Save, plane, disk, supervisor
<1>9. CASE StopToApply
  BY <1>9, Parameters DEF StopToApply, Upset, StopServer, plane, disk, supervisor
<1>10. CASE Spawn
  BY <1>10, Parameters DEF Spawn, plane, disk, supervisor
<1>11. CASE SpawnFails
  BY <1>11, Parameters DEF SpawnFails, Upset, plane, disk, supervisor
<1>12. CASE Succeed
  BY <1>12, Parameters DEF Succeed, Save, plane, disk, supervisor, InHandIsLocal
<1>13. CASE TargetMissing
  BY <1>13, Parameters DEF TargetMissing, Save, Failed, Target, plane, disk, supervisor
<1>14. CASE StopToRollBack
  BY <1>14, Parameters DEF StopToRollBack, Upset, StopServer, Target, plane, disk, supervisor
<1>15. CASE RollBackToBootstrap
  BY <1>15, Parameters DEF RollBackToBootstrap, Save, Target, RolledBack, plane, disk, supervisor
<1>16. CASE RollBack
  BY <1>16, Parameters DEF RollBack, Save, Target, RolledBack, plane, disk, supervisor
<1>17. CASE RollBackFails
  BY <1>17, Parameters DEF RollBackFails, Save, Failed, Upset, Target, plane, disk, supervisor
<1>18. CASE RefuseDocument
  BY <1>18, Parameters DEF RefuseDocument, Upset, plane, disk, supervisor
<1>19. CASE VersionUnreadable
  BY <1>19, Parameters DEF VersionUnreadable, Save, Failed, Upset, plane, disk, supervisor
<1>20. CASE GateTimesOut
  BY <1>20, Parameters DEF GateTimesOut, Upset, plane, disk, supervisor
<1>21. CASE ListenersClose
  BY <1>21, Parameters DEF ListenersClose, plane, disk, supervisor
<1>22. CASE Crash
  BY <1>22, Parameters DEF Crash, Die, Upset, Fresh, plane, disk, supervisor
<1>23. CASE CrashInSave
  BY <1>23, Parameters DEF CrashInSave, Die, Upset, Fresh, plane, disk, supervisor
<1>24. CASE CrashInStage
  BY <1>24, Parameters DEF CrashInStage, Die, Upset, Fresh, plane, disk, supervisor
<1> QED
  BY <1>1, <1>2, <1>3, <1>4, <1>5, <1>6, <1>7, <1>8, <1>9, <1>10, <1>11, <1>12, <1>13, <1>14, <1>15, <1>16, <1>17, <1>18, <1>19, <1>20, <1>21, <1>22, <1>23, <1>24 DEF Next, Sync

-----------------------------------------------------------------------------
(* The conjunction is inductive. *)
THEOREM Inductive == Spec => []IInv
<1>1. IInv /\ [Next]_vars => IInv'
  BY TypeStep, StagedStep, ServingStep, ProvenStep, LocalStep DEF IInv
<1> QED
  BY InitInv, <1>1, PTL DEF Spec

(* Type correctness of the node daemon, for any documents and bundles. *)
THEOREM TypeCorrect == Spec => []TypeOK
<1>1. IInv => TypeOK
  BY DEF IInv
<1> QED
  BY Inductive, <1>1, PTL

(* What the node calls ready is served by a server of this process, after    *)
(* any failures, rollbacks and restarts.                                     *)
THEOREM WhatIsReadyIsServed == Spec => []ReadyIsServed
<1>1. IInv => ReadyIsServed
  BY DEF IInv, Serving
<1> QED
  BY Inductive, <1>1, PTL

(* A bundle is known good only after one of its documents passed the gate. *)
THEOREM KnownGoodIsEarned == Spec => []KnownGoodWasProven
<1>1. IInv => KnownGoodWasProven
  BY DEF IInv
<1> QED
  BY Inductive, <1>1, PTL

(* The node has the document to roll back to, unless a crash tore its file. *)
THEOREM KnownGoodIsAtHand == Spec => []KnownGoodIsLocal
<1>1. IInv => KnownGoodIsLocal
  BY DEF IInv
<1> QED
  BY Inductive, <1>1, PTL
=============================================================================
