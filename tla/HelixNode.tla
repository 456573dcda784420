----------------------------- MODULE HelixNode -----------------------------
(***************************************************************************)
(* The helix node daemon: src/services/helix-node (lib.rs, runtime/).      *)
(*                                                                         *)
(* One control loop polls the control plane for the assignment document of *)
(* the node, applies it behind a health gate, and on failure rolls back to *)
(* the last known good bundle.  It keeps a snapshot of its state in memory *)
(* and in a file, and the documents it has staged in one file per bundle   *)
(* version.  Documents of one version may differ (ports, credentials).     *)
(* The daemon may crash between any two steps, and in the middle of        *)
(* replacing a file, which it removes before it renames the new one.       *)
(***************************************************************************)
EXTENDS Naturals

CONSTANTS
    Documents,      \* assignment documents (the runtime fingerprints)
    Bundle,         \* the bundle version of each document
    Paused,         \* the documents whose desired state is not "active"
    MaxChanges,     \* how often the control plane assigns another document
    MaxUpsets       \* failed polls, launches and gates, late closes, crashes

Bundles == {Bundle[d] : d \in Documents}

ASSUME NodeAssumption ==
    /\ Documents # {}
    /\ Bundle = [d \in Documents |-> Bundle[d]]
    /\ Bundles \cap {"none", "bundle-bootstrap"} = {}
    /\ "none" \notin Documents
    /\ Paused \subseteq Documents
    /\ MaxChanges \in Nat /\ MaxUpsets \in Nat

None == "none"
Bootstrap == "bundle-bootstrap"

VARIABLES
    assigned,       \* the document the control plane hands out
    changes,        \* how often it has changed
    pc,             \* where the control loop is
    doc,            \* the document in hand
    current,        \* the snapshot as it was when the document came
    snap,           \* RuntimeCoordinator.snapshot
    file,           \* runtime-state.json; a missing one reads as Fresh
    staged,         \* assignments/<bundle version>.json
    server,         \* the document the running server was spawned from
    bundle,         \* ProcessSupervisor.current_bundle
    lingering,      \* are the sockets of a stopped server still bound?
    upsets,         \* upsets so far
    proven,         \* documents that have passed the health gate
    torn            \* bundle versions whose file a crash has removed

plane == <<assigned, changes>>
disk == <<file, staged, torn>>
supervisor == <<server, bundle, lingering>>
vars == <<plane, pc, doc, current, snap, disk, supervisor, upsets, proven>>

Snapshots ==
    [fingerprint : Documents \cup {None}, active : Bundles \cup {None},
     lkg : Bundles \cup {None, Bootstrap},
     apply : {"idle", "applying", "failed", "rolled-back"}, ready : BOOLEAN]

Fresh == [fingerprint |-> None, active |-> None, lkg |-> None,
          apply |-> "idle", ready |-> FALSE]

Init ==
    /\ assigned \in Documents
    /\ changes = 0
    /\ pc = "down"
    /\ doc = assigned
    /\ current = Fresh
    /\ snap = Fresh
    /\ file = Fresh
    /\ staged = [b \in Bundles |-> None]
    /\ server = None
    /\ bundle = None
    /\ lingering = FALSE
    /\ upsets = 0
    /\ proven = {}
    /\ torn = {}

Upset == upsets < MaxUpsets /\ upsets' = upsets + 1

(* The snapshot is written to memory and to the file. *)
Save(s) ==
    /\ snap' = s
    /\ file' = s
    /\ UNCHANGED <<staged, torn>>

Assign(d) ==
    /\ changes < MaxChanges
    /\ changes' = changes + 1
    /\ d # assigned
    /\ assigned' = d
    /\ UNCHANGED <<pc, doc, current, snap, disk, supervisor, upsets, proven>>

(* build_state: nothing runs, the snapshot says what it said before. *)
Restore ==
    /\ pc = "down"
    /\ pc' = "restored"
    /\ Save(file)
    /\ UNCHANGED <<plane, doc, current, supervisor, upsets, proven>>

(***************************************************************************)
(* spawn_control_loop and sync_assignment                                  *)
(***************************************************************************)

(* record_runtime_error *)
Failed(s) == [s EXCEPT !.apply = "failed", !.ready = FALSE]

PollFails ==
    /\ pc \in {"restored", "rest"}
    /\ pc' = "rest"
    /\ Upset
    /\ Save(Failed(snap))
    /\ UNCHANGED <<plane, doc, current, supervisor, proven>>

(* Variant: the version alone tells documents apart. *)
MatchesVersion(d) ==
    snap.ready /\ snap.active = Bundle[d]

Matches(d) ==
    /\ snap.ready
    /\ snap.fingerprint = d
    /\ snap.active = Bundle[d]

(* Variant: the snapshot alone decides. *)
IsActiveBySnapshot(d) == Matches(d)

(* The server of this process runs what the snapshot, perhaps an older *)
(* process's, says is active.                                          *)
IsActive(d) ==
    Matches(d) /\ bundle = Bundle[d]

KeepRunning ==
    /\ pc \in {"restored", "rest"}
    /\ IsActive(assigned)
    /\ pc' = "rest"
    /\ doc' = assigned
    /\ Save([snap EXCEPT !.apply = "idle"])
    /\ UNCHANGED <<plane, current, supervisor, upsets, proven>>

(* Variant: the document is filed under the version of the one before. *)
StageUnderOldName ==
    /\ pc \in {"restored", "rest"}
    /\ ~IsActive(assigned)
    /\ pc' = "staged"
    /\ doc' = assigned
    /\ current' = snap
    /\ staged' = [staged EXCEPT ![Bundle[doc]] = assigned]
    /\ torn' = torn \ {Bundle[assigned]}
    /\ UNCHANGED <<plane, snap, file, supervisor, upsets, proven>>

(* Variant: the files of other versions are cleaned up. *)
StageAlone ==
    /\ pc \in {"restored", "rest"}
    /\ ~IsActive(assigned)
    /\ pc' = "staged"
    /\ doc' = assigned
    /\ current' = snap
    /\ staged' = [b \in Bundles |-> IF b = Bundle[assigned] THEN assigned ELSE None]
    /\ torn' = torn \ {Bundle[assigned]}
    /\ UNCHANGED <<plane, snap, file, supervisor, upsets, proven>>

Stage ==
    /\ pc \in {"restored", "rest"}
    /\ ~IsActive(assigned)
    /\ pc' = "staged"
    /\ doc' = assigned
    /\ current' = snap
    /\ staged' = [staged EXCEPT ![Bundle[assigned]] = assigned]
    /\ torn' = torn \ {Bundle[assigned]}
    /\ UNCHANGED <<plane, snap, file, supervisor, upsets, proven>>

(* Variant: the new bundle counts as known good before the gate. *)
ApplyingAsGood ==
    [current EXCEPT !.fingerprint = doc, !.apply = "applying", !.ready = FALSE,
                    !.lkg = Bundle[doc]]

Applying ==
    [current EXCEPT !.fingerprint = doc, !.apply = "applying", !.ready = FALSE]

BeginApply ==
    /\ pc = "staged"
    /\ pc' = "applying"
    /\ Save(Applying)
    /\ UNCHANGED <<plane, doc, current, supervisor, upsets, proven>>

(* A document that is not "active" is only noted: the server is left alone. *)
Pause ==
    /\ pc = "applying"
    /\ doc \in Paused
    /\ pc' = "rest"
    /\ Save([snap EXCEPT !.apply = "idle"])
    /\ UNCHANGED <<plane, doc, current, supervisor, upsets, proven>>

(* The daemon is too old for the document, or the document names no port. *)
RefuseDocument ==
    /\ pc = "applying"
    /\ doc \notin Paused
    /\ Upset
    /\ pc' = "failed"
    /\ UNCHANGED <<plane, doc, current, snap, disk, supervisor, proven>>

(* The document names a minimum version that cannot be parsed: the error     *)
(* ends the sync without a rollback, and the server is left alone.           *)
VersionUnreadable ==
    /\ pc = "applying"
    /\ doc \notin Paused
    /\ Upset
    /\ pc' = "rest"
    /\ Save(Failed(snap))
    /\ UNCHANGED <<plane, doc, current, supervisor, proven>>

(***************************************************************************)
(* ProcessSupervisor                                                       *)
(***************************************************************************)

(* stop_current_server signals the accept loops and does not wait until    *)
(* they drop their sockets: these may be bound a little longer.            *)
StopServer ==
    /\ server' = None
    /\ \/ lingering' = lingering /\ UNCHANGED upsets
       \/ server # None /\ lingering' = TRUE /\ Upset

ListenersClose ==
    /\ lingering
    /\ lingering' = FALSE
    /\ UNCHANGED <<plane, pc, doc, current, snap, disk, server, bundle, upsets, proven>>

StopToApply ==
    /\ pc = "applying"
    /\ doc \notin Paused
    /\ pc' = "spawning"
    /\ StopServer
    /\ UNCHANGED <<plane, doc, current, snap, disk, bundle, proven>>

Spawn ==
    /\ pc = "spawning"
    /\ ~lingering
    /\ pc' = "gate"
    /\ server' = doc
    /\ bundle' = Bundle[doc]
    /\ UNCHANGED <<plane, doc, current, snap, disk, lingering, upsets, proven>>

(* The address is in use, by the sockets of the old server or otherwise. *)
SpawnFails ==
    /\ pc = "spawning"
    /\ IF lingering THEN UNCHANGED upsets ELSE Upset
    /\ pc' = "failed"
    /\ UNCHANGED <<plane, doc, current, snap, disk, supervisor, proven>>

Succeed ==
    /\ pc = "gate"
    /\ pc' = "rest"
    /\ proven' = proven \cup {doc}
    /\ Save([fingerprint |-> doc, active |-> Bundle[doc], lkg |-> Bundle[doc],
             apply |-> "idle", ready |-> TRUE])
    /\ UNCHANGED <<plane, doc, current, supervisor, upsets>>

GateTimesOut ==
    /\ pc = "gate"
    /\ Upset
    /\ pc' = "failed"
    /\ UNCHANGED <<plane, doc, current, snap, disk, supervisor, proven>>

(***************************************************************************)
(* handle_apply_failure and rollback_to_last_known_good                    *)
(***************************************************************************)

(* The control plane records no known good bundle of a node, so a document *)
(* always names the bootstrap as the one to recover to.                    *)
Target == IF current.lkg = None THEN Bootstrap ELSE current.lkg

TargetMissing ==
    /\ pc = "failed"
    /\ Target # Bootstrap
    /\ staged[Target] = None
    /\ pc' = "rest"
    /\ Save(Failed(snap))
    /\ UNCHANGED <<plane, doc, current, supervisor, upsets, proven>>

StopToRollBack ==
    /\ pc = "failed"
    /\ Target # Bootstrap => staged[Target] # None
    /\ pc' = "rollback"
    /\ StopServer
    /\ UNCHANGED <<plane, doc, current, snap, disk, bundle, proven>>

RolledBack(active) ==
    [fingerprint |-> doc, active |-> active, lkg |-> Target,
     apply |-> "rolled-back", ready |-> active # None]

RollBackToBootstrap ==
    /\ pc = "rollback"
    /\ Target = Bootstrap
    /\ pc' = "rest"
    /\ bundle' = None
    /\ Save(RolledBack(None))
    /\ UNCHANGED <<plane, doc, current, server, lingering, upsets, proven>>

RollBack ==
    /\ pc = "rollback"
    /\ Target # Bootstrap
    /\ ~lingering
    /\ pc' = "rest"
    /\ server' = staged[Target]
    /\ bundle' = Target
    /\ Save(RolledBack(Target))
    /\ UNCHANGED <<plane, doc, current, lingering, upsets, proven>>

(* No server runs then, but current_bundle still names the old one. *)
RollBackFails ==
    /\ pc = "rollback"
    /\ Target # Bootstrap
    /\ IF lingering THEN UNCHANGED upsets ELSE Upset
    /\ pc' = "rest"
    /\ Save(Failed(snap))
    /\ UNCHANGED <<plane, doc, current, supervisor, proven>>

(***************************************************************************)
(* The daemon is killed: between two steps, or when the old file is removed *)
(* and the new one not yet renamed over it (bundle_store.rs).               *)
(***************************************************************************)
Die ==
    /\ pc # "down"
    /\ Upset
    /\ pc' = "down"
    /\ snap' = Fresh
    /\ server' = None
    /\ bundle' = None
    /\ lingering' = FALSE
    /\ UNCHANGED <<plane, doc, current, proven>>

Crash ==
    Die /\ UNCHANGED disk

CrashInSave ==
    /\ Die
    /\ pc \in {"restored", "rest", "staged", "applying", "gate", "failed", "rollback"}
    /\ file' = Fresh
    /\ UNCHANGED <<staged, torn>>

CrashInStage ==
    /\ Die
    /\ pc \in {"restored", "rest"}
    /\ ~IsActive(assigned)
    /\ staged' = [staged EXCEPT ![Bundle[assigned]] = None]
    /\ torn' = torn \cup {Bundle[assigned]}
    /\ UNCHANGED file

Sync ==
    \/ KeepRunning
    \/ Stage
    \/ BeginApply
    \/ Pause
    \/ StopToApply
    \/ Spawn
    \/ SpawnFails
    \/ Succeed
    \/ TargetMissing
    \/ StopToRollBack
    \/ RollBackToBootstrap
    \/ RollBack
    \/ RollBackFails

Next ==
    \/ \E d \in Documents : Assign(d)
    \/ Restore
    \/ PollFails
    \/ Sync
    \/ RefuseDocument
    \/ VersionUnreadable
    \/ GateTimesOut
    \/ ListenersClose
    \/ Crash
    \/ CrashInSave
    \/ CrashInStage

(* The service manager starts the daemon again, the loop goes on polling, *)
(* and the sockets of a stopped server are closed.                        *)
Fairness ==
    /\ WF_vars(Restore)
    /\ WF_vars(Sync)
    /\ WF_vars(ListenersClose)

Spec == Init /\ [][Next]_vars /\ Fairness

(***************************************************************************)
(* Properties                                                              *)
(***************************************************************************)

(* Every variable has its type, and a file holds a document of its version *)
(* (bundle_store.rs 26-35).                                                *)
TypeOK ==
    /\ assigned \in Documents /\ doc \in Documents
    /\ changes \in 0..MaxChanges /\ upsets \in 0..MaxUpsets
    /\ pc \in {"down", "restored", "rest", "staged", "applying", "spawning",
               "gate", "failed", "rollback"}
    /\ current \in Snapshots /\ snap \in Snapshots /\ file \in Snapshots
    /\ staged \in [Bundles -> Documents \cup {None}]
    /\ \A b \in Bundles : staged[b] # None => Bundle[staged[b]] = b
    /\ server \in Documents \cup {None}
    /\ bundle \in Bundles \cup {None}
    /\ lingering \in BOOLEAN
    /\ proven \subseteq Documents /\ torn \subseteq Bundles

(* What a heartbeat calls ready is served: by a server of this process, with  *)
(* the bundle the snapshot calls active.  After a restart the snapshot still  *)
(* says ready of a server that is gone, so a sync must not take it at its     *)
(* word (mod.rs 117-119, 70-79).                                              *)
ReadyIsServed ==
    pc = "rest" /\ snap.ready =>
        /\ server # None
        /\ Bundle[server] = snap.active
        /\ bundle = snap.active

(* A bundle is known good only after a document of its version has passed the *)
(* health gate, in memory and on disk, through failures, rollbacks and        *)
(* restarts (mod.rs 217-239, 354-392, rollback.rs 32-49).                     *)
KnownGoodWasProven ==
    \A s \in {snap, file, current} :
        s.lkg \notin {None, Bootstrap} => \E d \in proven : Bundle[d] = s.lkg

(* The bundle to roll back to is on the disk of the node; only a crash while  *)
(* its file is replaced can take it away (bundle_store.rs 86-99).             *)
KnownGoodIsLocal ==
    \A s \in {snap, file, current} :
        s.lkg \notin {None, Bootstrap} => staged[s.lkg] # None \/ s.lkg \in torn

(* Once the control plane stays with a document and the upsets are over, the  *)
(* node serves that very document and reports ready, whatever state failures  *)
(* and crashes have left it in (lib.rs 45-145, mod.rs 106-244).                *)
Converges ==
    <>[](assigned \notin Paused =>
            server = assigned /\ snap.ready /\ snap.active = Bundle[assigned])

=============================================================================
