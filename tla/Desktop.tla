------------------------------ MODULE Desktop ------------------------------
(***************************************************************************)
(* The connection of the desktop client: src/apps/desktop-client/src-tauri *)
(* (ipc/mod.rs, engine/manager.rs, engine/sysproxy.rs).                    *)
(*                                                                         *)
(* A connect and a disconnect are asynchronous commands that run side by   *)
(* side on a thread pool.  Each takes the next number of one counter, and  *)
(* a connect compares its number with the counter at a few points to find  *)
(* out that a later command has superseded it.  What they share is the     *)
(* status the window shows, the slot of the process manager with the VPN   *)
(* core, the flag by which a stop tells the core's watchdog that the exit  *)
(* is intended, and the proxy setting of the operating system.  The locks  *)
(* are held for one access each, so the commands and the watchdogs         *)
(* interleave between accesses, as the actions of this module do.          *)
(*                                                                         *)
(* A command is identified with its number, and a core with the connect    *)
(* that launched it.  The model is of the stable cores (sing-box, xray)    *)
(* run as a child process; the Helix sidecar, its fallback, and the        *)
(* elevated process of Windows are not in it.                              *)
(***************************************************************************)
EXTENDS Naturals

CONSTANTS
    MaxRequests,    \* connect and disconnect commands
    MaxMishaps      \* cores that die by themselves or that the client lets go of

ASSUME DesktopAssumption == MaxRequests \in Nat /\ MaxMishaps \in Nat

Requests == 1..MaxRequests

NoCore == 0

VARIABLES
    attempt,        \* AppState.connection_attempt
    pc,             \* where each command is
    after,          \* where a command goes on when its stop of the core is over
    hand,           \* the core a command has taken out of the slot to kill it
    status,         \* ConnectionStatus.status
    slot,           \* ProcessManager.child
    alive,          \* the cores that run
    expectedExit,   \* ProcessManager.expected_exit
    watchdog,       \* the watchdog task of each core
    proxy,          \* does the operating system send its traffic to the core?
    abandoned,      \* cores the client has let go of without ending them (history)
    mishaps         \* cores that died by themselves or were let go of so far

core == <<slot, alive, expectedExit, watchdog, abandoned>>
commands == <<attempt, pc, after, hand>>
vars == <<commands, core, status, proxy, mishaps>>

Statuses == {"disconnected", "connecting", "connected", "disconnecting", "error"}

(* The phases of a connect, of a disconnect, and of a stop in either. *)
Connecting == {"begun", "announced", "preparing", "refused", "started",
               "proxying", "probing", "ready", "current", "failed", "failing"}
Disconnecting == {"invalidated", "noticed", "resetting", "clearing", "cleared",
                  "unreset"}
Stopping == {"stop", "take", "kill"}

(* A disconnect that went through ends as "disconnected" or "undone"; *)
(* everything else ends as "returned".                                *)
Over == {"returned", "disconnected", "undone"}

Phases == {"idle"} \cup Connecting \cup Disconnecting \cup Stopping \cup Over

Init ==
    /\ attempt = 0
    /\ pc = [r \in Requests |-> "idle"]
    /\ after = [r \in Requests |-> "returned"]
    /\ hand = [r \in Requests |-> NoCore]
    /\ status = "disconnected"
    /\ slot = NoCore
    /\ alive = {}
    /\ expectedExit = FALSE
    /\ watchdog = [r \in Requests |-> "none"]
    /\ proxy = FALSE
    /\ abandoned = {}
    /\ mishaps = 0

Current(r) == attempt = r

Goto(r, phase) == pc' = [pc EXCEPT ![r] = phase]

(* A command r moves on and changes nothing else than what its action says. *)
Step(r, from, to) ==
    /\ pc[r] = from
    /\ Goto(r, to)
    /\ UNCHANGED <<attempt, hand, mishaps>>

(* Command r goes on as `next` once it has stopped the core. *)
StopThen(r, next) ==
    /\ Goto(r, "stop")
    /\ after' = [after EXCEPT ![r] = next]
    /\ UNCHANGED <<attempt, hand, mishaps, core, status, proxy>>

(***************************************************************************)
(* The commands arrive                                                     *)
(***************************************************************************)
(* Variant: the command takes the value of the counter before its increment. *)
BeginOffByOne(phase) ==
    /\ attempt < MaxRequests
    /\ attempt' = attempt + 1
    /\ Goto(attempt, phase)
    /\ UNCHANGED <<after, hand, core, status, proxy, mishaps>>

Begin(phase) ==
    /\ attempt < MaxRequests
    /\ attempt' = attempt + 1
    /\ Goto(attempt + 1, phase)
    /\ UNCHANGED <<after, hand, core, status, proxy, mishaps>>

Connect == Begin("begun")
Disconnect == Begin("invalidated")

(***************************************************************************)
(* connect_profile_internal                                                *)
(***************************************************************************)

(* The status says "connecting" before the attempt first looks whether it is *)
(* still the current one.                                                    *)
Announce(r) ==
    /\ Step(r, "begun", "announced")
    /\ status' = "connecting"
    /\ UNCHANGED <<after, core, proxy>>

CheckAnnounced(r) ==
    /\ Step(r, "announced", IF Current(r) THEN "preparing" ELSE "returned")
    /\ UNCHANGED <<after, core, status, proxy>>

(* The profile, the store, the TUN driver, the binary or the configuration: an *)
(* error on the way to the launch, or in the store before "connected".         *)
Fail(r) ==
    /\ \E from \in {"begun", "announced", "preparing", "current"} : Step(r, from, "failed")
    /\ UNCHANGED <<after, core, status, proxy>>

(* Variant: the slot is not looked at before the launch. *)
LaunchAnyway(r) ==
    /\ Step(r, "preparing", "started")
    /\ slot' = r
    /\ alive' = alive \cup {r}
    /\ expectedExit' = FALSE
    /\ watchdog' = [watchdog EXCEPT ![r] = "ticking"]
    /\ UNCHANGED <<after, abandoned, status, proxy>>

(* Variant: the flag of the last stop is left as it is. *)
LaunchWithOldFlag(r) ==
    /\ Step(r, "preparing", "started")
    /\ slot = NoCore
    /\ slot' = r
    /\ alive' = alive \cup {r}
    /\ watchdog' = [watchdog EXCEPT ![r] = "ticking"]
    /\ UNCHANGED <<after, expectedExit, abandoned, status, proxy>>

(* ProcessManager.start, under the lock of the slot. *)
Launch(r) ==
    /\ Step(r, "preparing", "started")
    /\ slot = NoCore
    /\ slot' = r
    /\ alive' = alive \cup {r}
    /\ expectedExit' = FALSE
    /\ watchdog' = [watchdog EXCEPT ![r] = "ticking"]
    /\ UNCHANGED <<after, abandoned, status, proxy>>

LaunchRefused(r) ==
    /\ Step(r, "preparing", "refused")
    /\ slot # NoCore
    /\ UNCHANGED <<after, core, status, proxy>>

(* command.spawn fails after the flag is reset. *)
SpawnFails(r) ==
    /\ Step(r, "preparing", "refused")
    /\ slot = NoCore
    /\ expectedExit' = FALSE
    /\ UNCHANGED <<after, slot, alive, watchdog, abandoned, status, proxy>>

(* The core runs, but its output cannot be captured, as is always so under   *)
(* pkexec: the error drops the handle, which does not end the process.       *)
CaptureFails(r) ==
    /\ pc[r] = "preparing"
    /\ Goto(r, "refused")
    /\ slot = NoCore
    /\ mishaps < MaxMishaps
    /\ mishaps' = mishaps + 1
    /\ expectedExit' = FALSE
    /\ alive' = alive \cup {r}
    /\ abandoned' = abandoned \cup {r}
    /\ UNCHANGED <<attempt, hand, after, slot, watchdog, status, proxy>>

(* Written by a superseded attempt too. *)
Refuse(r) ==
    /\ Step(r, "refused", "failed")
    /\ status' = "error"
    /\ UNCHANGED <<after, core, proxy>>

(* Variant: a superseded attempt returns without stopping the core it started. *)
CheckStartedAndLeave(r) ==
    /\ Step(r, "started", IF Current(r) THEN "proxying" ELSE "returned")
    /\ UNCHANGED <<after, core, status, proxy>>

CheckStarted(r) ==
    /\ pc[r] = "started"
    /\ \/ /\ Current(r)
          /\ Step(r, "started", "proxying")
          /\ UNCHANGED <<after, core, status, proxy>>
       \/ ~Current(r) /\ StopThen(r, "returned")

(* set_system_proxy when the user asked for it and there is no TUN device, *)
(* clear_system_proxy otherwise; an error of either is only logged.        *)
SetProxy(r) ==
    /\ Step(r, "proxying", "probing")
    /\ proxy' \in BOOLEAN
    /\ UNCHANGED <<after, core, status>>

(* The probes go through the port of the proxy, whichever core listens on it. *)
ProbeSucceeds(r) ==
    /\ Step(r, "probing", "ready")
    /\ alive # {}
    /\ UNCHANGED <<after, core, status, proxy>>

ProbeFails(r) ==
    /\ pc[r] = "probing"
    /\ StopThen(r, "failed")

CheckReady(r) ==
    /\ pc[r] = "ready"
    /\ \/ /\ Current(r)
          /\ Step(r, "ready", "current")
          /\ UNCHANGED <<after, core, status, proxy>>
       \/ ~Current(r) /\ StopThen(r, "returned")

Connected(r) ==
    /\ Step(r, "current", "returned")
    /\ status' = "connected"
    /\ UNCHANGED <<after, core, proxy>>

(* Errors of a superseded attempt are dropped. *)
CheckFailed(r) ==
    /\ Step(r, "failed", IF Current(r) THEN "failing" ELSE "returned")
    /\ UNCHANGED <<after, core, status, proxy>>

ReportFailure(r) ==
    /\ Step(r, "failing", "returned")
    /\ status' = "error"
    /\ UNCHANGED <<after, core, proxy>>

(***************************************************************************)
(* disconnect_internal and reset_connection_state                          *)
(***************************************************************************)
ReadStatus(r) ==
    /\ Step(r, "invalidated",
            IF status \in {"disconnected", "disconnecting"} THEN "returned" ELSE "noticed")
    /\ UNCHANGED <<after, core, status, proxy>>

(* The store cannot be read: the caller hears of it, the status does not. *)
GiveUp(r) ==
    /\ Step(r, "noticed", "returned")
    /\ UNCHANGED <<after, core, status, proxy>>

BeginReset(r) ==
    /\ Step(r, "noticed", "resetting")
    /\ status' = "disconnecting"
    /\ UNCHANGED <<after, core, proxy>>

IsRunning(r) ==
    /\ pc[r] = "resetting"
    /\ \/ slot # NoCore /\ StopThen(r, "clearing")
       \/ /\ slot = NoCore
          /\ Step(r, "resetting", "clearing")
          /\ UNCHANGED <<after, core, status, proxy>>

(* The store cannot be read or written: the core is left alone. *)
ResetFails(r) ==
    /\ Step(r, "resetting", "unreset")
    /\ UNCHANGED <<after, core, status, proxy>>

ClearProxy(r) ==
    /\ Step(r, "clearing", "cleared")
    /\ proxy' = FALSE
    /\ UNCHANGED <<after, core, status>>

Disconnected(r) ==
    /\ Step(r, "cleared", "disconnected")
    /\ status' = "disconnected"
    /\ UNCHANGED <<after, core, proxy>>

DisconnectFails(r) ==
    /\ Step(r, "unreset", "undone")
    /\ status' = "error"
    /\ UNCHANGED <<after, core, proxy>>

(***************************************************************************)
(* ProcessManager.stop                                                     *)
(***************************************************************************)
ExpectExit(r) ==
    /\ Step(r, "stop", "take")
    /\ expectedExit' = TRUE
    /\ UNCHANGED <<after, slot, alive, watchdog, abandoned, status, proxy>>

Take(r) ==
    /\ pc[r] = "take"
    /\ slot # NoCore
    /\ Goto(r, "kill")
    /\ hand' = [hand EXCEPT ![r] = slot]
    /\ slot' = NoCore
    /\ UNCHANGED <<attempt, after, alive, expectedExit, watchdog, abandoned, status, proxy, mishaps>>

(* An error of a stop is heeded by a disconnect only. *)
AfterError(r) == IF after[r] = "clearing" THEN "unreset" ELSE after[r]

(* "VPN core is not running" *)
NothingToTake(r) ==
    /\ Step(r, "take", AfterError(r))
    /\ slot = NoCore
    /\ UNCHANGED <<after, core, status, proxy>>

Kill(r) ==
    /\ pc[r] = "kill"
    /\ Goto(r, after[r])
    /\ alive' = alive \ {hand[r]}
    /\ hand' = [hand EXCEPT ![r] = NoCore]
    /\ UNCHANGED <<attempt, after, slot, expectedExit, watchdog, abandoned, status, proxy,
                   mishaps>>

(* child.kill() fails: the core is out of the slot and runs on. *)
KillFails(r) ==
    /\ pc[r] = "kill"
    /\ Goto(r, AfterError(r))
    /\ mishaps < MaxMishaps
    /\ mishaps' = mishaps + 1
    /\ abandoned' = abandoned \cup {hand[r]}
    /\ hand' = [hand EXCEPT ![r] = NoCore]
    /\ UNCHANGED <<attempt, after, slot, alive, expectedExit, watchdog, status, proxy>>

(***************************************************************************)
(* The watchdog of core c                                                  *)
(***************************************************************************)
Watch(c, from, to) ==
    /\ watchdog[c] = from
    /\ watchdog' = [watchdog EXCEPT ![c] = to]
    /\ UNCHANGED <<commands, expectedExit, alive, abandoned, mishaps>>

Look(c) ==
    /\ Watch(c, "ticking", IF expectedExit THEN "gone" ELSE "looked")
    /\ UNCHANGED <<slot, status, proxy>>

(* The watchdog looks into the slot, whoever's core is in it by now. *)
SeesCore(c) ==
    /\ Watch(c, "looked", "ticking")
    /\ slot \in alive
    /\ UNCHANGED <<slot, status, proxy>>

SeesExit(c) ==
    /\ Watch(c, "looked", "reporting")
    /\ slot \notin alive
    /\ slot' = NoCore
    /\ UNCHANGED <<status, proxy>>

(* handle_unexpected_runtime_exit *)
ClearsProxy(c) ==
    /\ Watch(c, "reporting", "telling")
    /\ proxy' = FALSE
    /\ UNCHANGED <<slot, status>>

TellsExit(c) ==
    /\ Watch(c, "telling", "gone")
    /\ status' = "error"
    /\ UNCHANGED <<slot, proxy>>

Crash(c) ==
    /\ c \in alive
    /\ mishaps < MaxMishaps
    /\ mishaps' = mishaps + 1
    /\ alive' = alive \ {c}
    /\ UNCHANGED <<commands, slot, expectedExit, watchdog, abandoned, status, proxy>>

ConnectStep(r) ==
    \/ Announce(r)
    \/ CheckAnnounced(r)
    \/ Launch(r)
    \/ LaunchRefused(r)
    \/ SpawnFails(r)
    \/ CaptureFails(r)
    \/ Refuse(r)
    \/ CheckStarted(r)
    \/ SetProxy(r)
    \/ ProbeSucceeds(r)
    \/ ProbeFails(r)
    \/ CheckReady(r)
    \/ Connected(r)
    \/ Fail(r)
    \/ CheckFailed(r)
    \/ ReportFailure(r)

DisconnectStep(r) ==
    \/ ReadStatus(r)
    \/ GiveUp(r)
    \/ BeginReset(r)
    \/ IsRunning(r)
    \/ ResetFails(r)
    \/ ClearProxy(r)
    \/ Disconnected(r)
    \/ DisconnectFails(r)

Stop(r) ==
    \/ ExpectExit(r)
    \/ Take(r)
    \/ NothingToTake(r)
    \/ Kill(r)
    \/ KillFails(r)

Watchdog(c) ==
    \/ Look(c)
    \/ SeesCore(c)
    \/ SeesExit(c)
    \/ ClearsProxy(c)
    \/ TellsExit(c)

Next ==
    \/ Connect
    \/ Disconnect
    \/ \E r \in Requests : ConnectStep(r) \/ DisconnectStep(r) \/ Stop(r)
    \/ \E c \in Requests : Watchdog(c) \/ Crash(c)

Spec == Init /\ [][Next]_vars

(***************************************************************************)
(* Properties                                                              *)
(***************************************************************************)

(* Every variable has its type, and only a connect that has been begun has *)
(* a core or a watchdog (ipc/mod.rs, engine/manager.rs).                   *)
TypeOK ==
    /\ attempt \in 0..MaxRequests
    /\ pc \in [Requests -> Phases]
    /\ \A r \in Requests : pc[r] = "idle" <=> r > attempt
    /\ after \in [Requests -> {"returned", "failed", "clearing"}]
    /\ hand \in [Requests -> 0..attempt]
    /\ \A r \in Requests : pc[r] = "kill" => hand[r] # NoCore
    /\ status \in Statuses
    /\ slot \in 0..attempt
    /\ alive \subseteq 1..attempt
    /\ expectedExit \in BOOLEAN
    /\ watchdog \in [Requests -> {"none", "ticking", "looked", "reporting", "telling", "gone"}]
    /\ \A c \in Requests : watchdog[c] # "none" => c \in 1..attempt
    /\ proxy \in BOOLEAN
    /\ abandoned \subseteq 1..attempt
    /\ mishaps \in 0..MaxMishaps

(* The core in the slot has a watchdog that will notice its death, unless a   *)
(* stop is about to take it: expected_exit is one flag for all cores, set by  *)
(* stop and reset by start.  Without a watchdog a dead core stays in the slot *)
(* and every later connect is refused as "already running"                    *)
(* (manager.rs 284-290, 599-640, 673-696).                                    *)
Watched ==
    slot # NoCore =>
        \/ watchdog[slot] \in {"ticking", "looked"}
        \/ \E r \in Requests : pc[r] = "take"

(* No core runs out of reach: each is in the slot, or in the hand of the      *)
(* command that is killing it (manager.rs 284-287, 592, 693-700).  The code   *)
(* lets go of a core in two places: when it cannot capture the output of one  *)
(* it has spawned (509-520), and when a kill fails (700); "abandoned" names   *)
(* these and no other.                                                        *)
NoOrphan ==
    \A c \in alive \ abandoned :
        \/ slot = c
        \/ \E r \in Requests : pc[r] = "kill" /\ hand[r] = c

AtRest ==
    /\ \A r \in Requests : pc[r] \in Over \cup {"idle"}
    /\ \A c \in Requests : watchdog[c] \in {"none", "gone"} \/ slot \in alive

(* The user's last word is a disconnect, it went through, and all is quiet. *)
SignedOff ==
    AtRest /\ attempt # 0 /\ pc[attempt] = "disconnected"

(* After it no core is left, not even one that an earlier connect launched    *)
(* while the disconnect was under way: that connect finds itself superseded   *)
(* and stops it (ipc/mod.rs 1216-1219, 1306-1309, 1381-1384, 274-276).  Only  *)
(* an abandoned core, which no command can reach, survives the disconnect.    *)
NoCoreAfterDisconnect ==
    SignedOff => slot = NoCore /\ alive \subseteq abandoned

(* The system proxy does not "remain active in the OS while `sing-box` is     *)
(* dead" (docs/desktop_app/phase18_prompt.md): when all is quiet and the      *)
(* proxy is set, a core serves it.  A connect whose probes fail stops its     *)
(* core and leaves the proxy set (ipc/mod.rs 1349-1377).                      *)
ProxyOnlyWithCore ==
    AtRest => (proxy => slot \in alive)
=============================================================================
