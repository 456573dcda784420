---------------------------- MODULE DesktopProofs ----------------------------
(***************************************************************************)
(* What holds of the desktop connection for any number of commands and     *)
(* mishaps: a core in the slot is watched, no core runs out of reach, and  *)
(* a disconnect that went through leaves none behind, but for the cores    *)
(* the client has let go of.                                               *)
(*                                                                         *)
(* The steps of a command differ only in what they do to the core, so each *)
(* lemma splits Next into the few ways a step may touch what the lemma is  *)
(* about.                                                                  *)
(***************************************************************************)
EXTENDS Desktop, TLAPS

(* The flag is up while a core is in the slot only until a stop takes it. *)
FlagIsMeant ==
    slot # NoCore /\ expectedExit => \E r \in Requests : pc[r] = "take"

(* Command r will still stop whatever core it finds in the slot: it stops   *)
(* already, or it will notice that a later command has superseded it.       *)
WillStop(r) ==
    \/ pc[r] \in {"stop", "take"}
    \/ r # attempt /\ pc[r] \in {"started", "proxying", "probing", "ready"}

(* The last command is a disconnect that has passed its own stop. *)
PastStop ==
    /\ attempt # 0
    /\ \/ pc[attempt] \in {"clearing", "cleared", "disconnected"}
       \/ pc[attempt] = "kill" /\ after[attempt] = "clearing"

(* Whatever is in the slot then belongs to a connect that will stop it. *)
LeftoverIsDoomed ==
    PastStop /\ slot # NoCore => \E r \in Requests : WillStop(r)

IInv == TypeOK /\ FlagIsMeant /\ Watched /\ NoOrphan /\ LeftoverIsDoomed

-----------------------------------------------------------------------------
LEMMA InitInv == Init => IInv
<1> SUFFICES ASSUME Init PROVE IInv
  OBVIOUS
<1> USE DEF Init, NoCore
<1>1. MaxRequests \in Nat /\ MaxMishaps \in Nat
  BY DesktopAssumption DEF DesktopAssumption
<1>2. TypeOK
  <2>1. pc \in [Requests -> Phases] /\ \A r \in Requests : pc[r] = "idle" <=> r > attempt
    BY <1>1 DEF Requests, Phases
  <2>2. status \in Statuses /\ alive \subseteq 1..attempt
    BY DEF Statuses
  <2>3. /\ after \in [Requests -> {"returned", "failed", "clearing"}]
        /\ hand \in [Requests -> 0..attempt]
        /\ \A r \in Requests : pc[r] # "kill"
    OBVIOUS
  <2>4. /\ watchdog \in [Requests -> {"none", "ticking", "looked", "reporting", "telling", "gone"}]
        /\ \A c \in Requests : watchdog[c] # "none" => c \in 1..attempt
    OBVIOUS
  <2>5. /\ attempt \in 0..MaxRequests
        /\ slot \in 0..attempt
        /\ abandoned \subseteq 1..attempt
        /\ mishaps \in 0..MaxMishaps
    BY <1>1
  <2>6. expectedExit \in BOOLEAN /\ proxy \in BOOLEAN
    OBVIOUS
  <2> QED
    BY <2>1, <2>2, <2>3, <2>4, <2>5, <2>6 DEF TypeOK
<1>3. FlagIsMeant /\ Watched /\ NoOrphan /\ LeftoverIsDoomed
  BY DEF FlagIsMeant, Watched, NoOrphan, LeftoverIsDoomed, PastStop
<1> QED
  BY <1>2, <1>3 DEF IInv

-----------------------------------------------------------------------------
LEMMA TypeStep ==
    TypeOK /\ [Next]_vars => TypeOK'
<1> SUFFICES ASSUME TypeOK, [Next]_vars PROVE TypeOK'
  OBVIOUS
<1> USE DEF TypeOK, NoCore, Requests, Statuses, Phases, Connecting, Disconnecting, Stopping, Over
<1>0. MaxRequests \in Nat /\ MaxMishaps \in Nat
  BY DesktopAssumption DEF DesktopAssumption
<1>1. CASE UNCHANGED vars
  BY <1>1 DEF vars, core, commands
<1>2. ASSUME NEW phase \in {"begun", "invalidated"}, Begin(phase) PROVE TypeOK'
  BY <1>0, <1>2 DEF Begin, Goto, core
<1>3. ASSUME NEW r \in Requests, ConnectStep(r) PROVE TypeOK'
  <2>1. CASE Announce(r)
    BY <1>0, <2>1 DEF Announce, Step, Goto, core
  <2>2. CASE CheckAnnounced(r)
    BY <1>0, <2>2 DEF CheckAnnounced, Step, Goto, core, Current
  <2>3. CASE Launch(r)
    <3>1. r \in 1..attempt
      BY <1>0, <2>3 DEF Launch, Step
    <3>2. /\ pc' \in [Requests -> Phases]
          /\ \A q \in Requests : pc'[q] = "idle" <=> q > attempt'
          /\ \A q \in Requests : pc'[q] = "kill" => pc[q] = "kill"
      BY <2>3, <3>1 DEF Launch, Step, Goto
    <3>3. slot' \in 0..attempt' /\ alive' \subseteq 1..attempt'
      BY <1>0, <2>3, <3>1 DEF Launch, Step
    <3>4. /\ watchdog' \in [Requests -> {"none", "ticking", "looked", "reporting", "telling", "gone"}]
          /\ \A c \in Requests : watchdog'[c] # "none" => c \in 1..attempt'
      BY <2>3, <3>1 DEF Launch, Step
    <3> QED
      BY <2>3, <3>2, <3>3, <3>4 DEF Launch, Step
  <2>4. CASE LaunchRefused(r)
    BY <1>0, <2>4 DEF LaunchRefused, Step, Goto, core
  <2>5. CASE SpawnFails(r)
    BY <1>0, <2>5 DEF SpawnFails, Step, Goto, core
  <2>6. CASE Refuse(r)
    BY <1>0, <2>6 DEF Refuse, Step, Goto, core
  <2>7. CASE CheckStarted(r)
    BY <1>0, <2>7 DEF CheckStarted, Step, StopThen, Goto, core, Current
  <2>8. CASE SetProxy(r)
    BY <1>0, <2>8 DEF SetProxy, Step, Goto, core
  <2>9. CASE ProbeSucceeds(r)
    BY <1>0, <2>9 DEF ProbeSucceeds, Step, Goto, core
  <2>10. CASE ProbeFails(r)
    BY <1>0, <2>10 DEF ProbeFails, StopThen, Goto, core
  <2>11. CASE CheckReady(r)
    BY <1>0, <2>11 DEF CheckReady, Step, StopThen, Goto, core, Current
  <2>12. CASE Connected(r)
    BY <1>0, <2>12 DEF Connected, Step, Goto, core
  <2>13. CASE Fail(r)
    BY <1>0, <2>13 DEF Fail, Step, Goto, core
  <2>14. CASE CheckFailed(r)
    BY <1>0, <2>14 DEF CheckFailed, Step, Goto, core, Current
  <2>15. CASE ReportFailure(r)
    BY <1>0, <2>15 DEF ReportFailure, Step, Goto, core
  <2>16. CASE CaptureFails(r)
    <3>1. r \in 1..attempt
      BY <1>0, <2>16 DEF CaptureFails
    <3>2. /\ pc' \in [Requests -> Phases]
          /\ \A q \in Requests : pc'[q] = "idle" <=> q > attempt'
          /\ \A q \in Requests : pc'[q] = "kill" => pc[q] = "kill"
      BY <2>16, <3>1 DEF CaptureFails, Goto
    <3>3. alive' \subseteq 1..attempt' /\ abandoned' \subseteq 1..attempt'
      BY <2>16, <3>1 DEF CaptureFails
    <3>4. mishaps' \in 0..MaxMishaps
      BY <1>0, <2>16 DEF CaptureFails
    <3> QED
      BY <2>16, <3>2, <3>3, <3>4 DEF CaptureFails
  <2> QED
    BY <1>3, <2>1, <2>2, <2>3, <2>4, <2>5, <2>6, <2>7, <2>8, <2>9, <2>10, <2>11, <2>12, <2>13, <2>14, <2>15, <2>16 DEF ConnectStep
<1>4. ASSUME NEW r \in Requests, DisconnectStep(r) PROVE TypeOK'
  <2>1. CASE ReadStatus(r)
    BY <1>0, <2>1 DEF ReadStatus, Step, Goto, core
  <2>2. CASE GiveUp(r)
    BY <1>0, <2>2 DEF GiveUp, Step, Goto, core
  <2>3. CASE BeginReset(r)
    BY <1>0, <2>3 DEF BeginReset, Step, Goto, core
  <2>4. CASE IsRunning(r)
    BY <1>0, <2>4 DEF IsRunning, Step, StopThen, Goto, core
  <2>5. CASE ResetFails(r)
    BY <1>0, <2>5 DEF ResetFails, Step, Goto, core
  <2>6. CASE ClearProxy(r)
    BY <1>0, <2>6 DEF ClearProxy, Step, Goto, core
  <2>7. CASE Disconnected(r)
    BY <1>0, <2>7 DEF Disconnected, Step, Goto, core
  <2>8. CASE DisconnectFails(r)
    BY <1>0, <2>8 DEF DisconnectFails, Step, Goto, core
  <2> QED
    BY <1>4, <2>1, <2>2, <2>3, <2>4, <2>5, <2>6, <2>7, <2>8 DEF DisconnectStep
<1>5. ASSUME NEW r \in Requests, Stop(r) PROVE TypeOK'
  <2>1. CASE ExpectExit(r)
    BY <1>0, <2>1 DEF ExpectExit, Step, Goto, core
  <2>2. CASE Take(r)
    BY <1>0, <2>2 DEF Take, Goto, core
  <2>3. CASE NothingToTake(r)
    BY <1>0, <2>3 DEF NothingToTake, AfterError, Step, Goto, core
  <2>4. CASE Kill(r)
    <3>1. /\ pc' \in [Requests -> Phases]
          /\ \A q \in Requests : pc'[q] = "idle" <=> q > attempt'
          /\ \A q \in Requests : pc'[q] = "kill" => pc[q] = "kill" /\ q # r
      BY <2>4 DEF Kill, Goto
    <3>2. /\ hand' \in [Requests -> 0..attempt']
          /\ \A q \in Requests : q # r => hand'[q] = hand[q]
      BY <1>0, <2>4 DEF Kill
    <3> QED
      BY <2>4, <3>1, <3>2 DEF Kill
  <2>5. CASE KillFails(r)
    <3>1. /\ pc' \in [Requests -> Phases]
          /\ \A q \in Requests : pc'[q] = "idle" <=> q > attempt'
          /\ \A q \in Requests : pc'[q] = "kill" => pc[q] = "kill" /\ q # r
      BY <2>5 DEF KillFails, AfterError, Goto
    <3>2. /\ hand' \in [Requests -> 0..attempt']
          /\ \A q \in Requests : q # r => hand'[q] = hand[q]
      BY <1>0, <2>5 DEF KillFails
    <3>3. abandoned' \subseteq 1..attempt'
      <4>1. hand[r] \in 0..attempt /\ hand[r] # 0 /\ attempt \in Nat
        BY <1>0, <2>5 DEF KillFails
      <4>2. hand[r] \in 1..attempt
        BY <4>1
      <4>3. abandoned' = abandoned \cup {hand[r]} /\ attempt' = attempt
        BY <2>5 DEF KillFails
      <4> QED
        BY <4>2, <4>3
    <3>4. mishaps' \in 0..MaxMishaps
      BY <1>0, <2>5 DEF KillFails
    <3> QED
      BY <2>5, <3>1, <3>2, <3>3, <3>4 DEF KillFails
  <2> QED
    BY <1>5, <2>1, <2>2, <2>3, <2>4, <2>5 DEF Stop
<1>6. ASSUME NEW r \in Requests, Watchdog(r) PROVE TypeOK'
  <2>1. CASE Look(r)
    BY <1>0, <2>1 DEF Look, Watch, commands
  <2>2. CASE SeesCore(r)
    BY <1>0, <2>2 DEF SeesCore, Watch, commands
  <2>3. CASE SeesExit(r)
    BY <1>0, <2>3 DEF SeesExit, Watch, commands
  <2>4. CASE ClearsProxy(r)
    BY <1>0, <2>4 DEF ClearsProxy, Watch, commands
  <2>5. CASE TellsExit(r)
    BY <1>0, <2>5 DEF TellsExit, Watch, commands
  <2> QED
    BY <1>6, <2>1, <2>2, <2>3, <2>4, <2>5 DEF Watchdog
<1>7. ASSUME NEW r \in Requests, Crash(r) PROVE TypeOK'
  BY <1>0, <1>7 DEF Crash, commands
<1> QED
  BY <1>1, <1>2, <1>3, <1>4, <1>5, <1>6, <1>7 DEF Next, Connect, Disconnect

LEMMA WatchedStep ==
    TypeOK /\ FlagIsMeant /\ Watched /\ [Next]_vars => (FlagIsMeant /\ Watched)'
<1> SUFFICES ASSUME TypeOK, FlagIsMeant, Watched, [Next]_vars PROVE (FlagIsMeant /\ Watched)'
  OBVIOUS
<1> USE DEF TypeOK, NoCore, FlagIsMeant, Watched
<1>0. MaxRequests \in Nat /\ MaxMishaps \in Nat
  BY DesktopAssumption DEF DesktopAssumption
<1>1. CASE UNCHANGED vars
  BY <1>1 DEF vars, core, commands
<1>2. ASSUME NEW phase \in {"begun", "invalidated"}, Begin(phase) PROVE (FlagIsMeant /\ Watched)'
  BY <1>0, <1>2 DEF Begin, Goto, core
<1>3. ASSUME NEW r \in Requests, ConnectStep(r) PROVE (FlagIsMeant /\ Watched)'
  <2>1. CASE Announce(r)
    BY <1>0, <2>1 DEF Announce, Step, Goto, core
  <2>2. CASE CheckAnnounced(r)
    BY <1>0, <2>2 DEF CheckAnnounced, Step, Goto, core, Current
  <2>3. CASE Launch(r)
    BY <1>0, <2>3 DEF Launch, Step, Goto, core
  <2>4. CASE LaunchRefused(r)
    BY <1>0, <2>4 DEF LaunchRefused, Step, Goto, core
  <2>5. CASE SpawnFails(r)
    BY <1>0, <2>5 DEF SpawnFails, Step, Goto, core
  <2>6. CASE Refuse(r)
    BY <1>0, <2>6 DEF Refuse, Step, Goto, core
  <2>7. CASE CheckStarted(r)
    BY <1>0, <2>7 DEF CheckStarted, Step, StopThen, Goto, core, Current
  <2>8. CASE SetProxy(r)
    BY <1>0, <2>8 DEF SetProxy, Step, Goto, core
  <2>9. CASE ProbeSucceeds(r)
    BY <1>0, <2>9 DEF ProbeSucceeds, Step, Goto, core
  <2>10. CASE ProbeFails(r)
    BY <1>0, <2>10 DEF ProbeFails, StopThen, Goto, core
  <2>11. CASE CheckReady(r)
    BY <1>0, <2>11 DEF CheckReady, Step, StopThen, Goto, core, Current
  <2>12. CASE Connected(r)
    BY <1>0, <2>12 DEF Connected, Step, Goto, core
  <2>13. CASE Fail(r)
    BY <1>0, <2>13 DEF Fail, Step, Goto, core
  <2>14. CASE CheckFailed(r)
    BY <1>0, <2>14 DEF CheckFailed, Step, Goto, core, Current
  <2>15. CASE ReportFailure(r)
    BY <1>0, <2>15 DEF ReportFailure, Step, Goto, core
  <2>16. CASE CaptureFails(r)
    BY <1>0, <2>16 DEF CaptureFails, Goto, core
  <2> QED
    BY <1>3, <2>1, <2>2, <2>3, <2>4, <2>5, <2>6, <2>7, <2>8, <2>9, <2>10, <2>11, <2>12, <2>13, <2>14, <2>15, <2>16 DEF ConnectStep
<1>4. ASSUME NEW r \in Requests, DisconnectStep(r) PROVE (FlagIsMeant /\ Watched)'
  <2>1. CASE ReadStatus(r)
    BY <1>0, <2>1 DEF ReadStatus, Step, Goto, core
  <2>2. CASE GiveUp(r)
    BY <1>0, <2>2 DEF GiveUp, Step, Goto, core
  <2>3. CASE BeginReset(r)
    BY <1>0, <2>3 DEF BeginReset, Step, Goto, core
  <2>4. CASE IsRunning(r)
    BY <1>0, <2>4 DEF IsRunning, Step, StopThen, Goto, core
  <2>5. CASE ResetFails(r)
    BY <1>0, <2>5 DEF ResetFails, Step, Goto, core
  <2>6. CASE ClearProxy(r)
    BY <1>0, <2>6 DEF ClearProxy, Step, Goto, core
  <2>7. CASE Disconnected(r)
    BY <1>0, <2>7 DEF Disconnected, Step, Goto, core
  <2>8. CASE DisconnectFails(r)
    BY <1>0, <2>8 DEF DisconnectFails, Step, Goto, core
  <2> QED
    BY <1>4, <2>1, <2>2, <2>3, <2>4, <2>5, <2>6, <2>7, <2>8 DEF DisconnectStep
<1>5. ASSUME NEW r \in Requests, Stop(r) PROVE (FlagIsMeant /\ Watched)'
  <2>1. CASE ExpectExit(r)
    BY <1>0, <2>1 DEF ExpectExit, Step, Goto, core
  <2>2. CASE Take(r)
    BY <1>0, <2>2 DEF Take, Goto, core
  <2>3. CASE NothingToTake(r)
    BY <1>0, <2>3 DEF NothingToTake, AfterError, Step, Goto, core
  <2>4. CASE Kill(r)
    BY <1>0, <2>4 DEF Kill, Goto, core
  <2>5. CASE KillFails(r)
    BY <1>0, <2>5 DEF KillFails, AfterError, Goto, core
  <2> QED
    BY <1>5, <2>1, <2>2, <2>3, <2>4, <2>5 DEF Stop
<1>6. ASSUME NEW r \in Requests, Watchdog(r) PROVE (FlagIsMeant /\ Watched)'
  <2>1. CASE Look(r)
    BY <1>0, <2>1 DEF Look, Watch, commands
  <2>2. CASE SeesCore(r)
    BY <1>0, <2>2 DEF SeesCore, Watch, commands
  <2>3. CASE SeesExit(r)
    BY <1>0, <2>3 DEF SeesExit, Watch, commands
  <2>4. CASE ClearsProxy(r)
    BY <1>0, <2>4 DEF ClearsProxy, Watch, commands
  <2>5. CASE TellsExit(r)
    BY <1>0, <2>5 DEF TellsExit, Watch, commands
  <2> QED
    BY <1>6, <2>1, <2>2, <2>3, <2>4, <2>5 DEF Watchdog
<1>7. ASSUME NEW r \in Requests, Crash(r) PROVE (FlagIsMeant /\ Watched)'
  BY <1>0, <1>7 DEF Crash, commands
<1> QED
  BY <1>1, <1>2, <1>3, <1>4, <1>5, <1>6, <1>7 DEF Next, Connect, Disconnect

LEMMA OrphanStep ==
    TypeOK /\ NoOrphan /\ [Next]_vars => NoOrphan'
<1> SUFFICES ASSUME TypeOK, NoOrphan, [Next]_vars PROVE NoOrphan'
  OBVIOUS
<1> USE DEF TypeOK, NoCore, NoOrphan
<1>0. MaxRequests \in Nat /\ MaxMishaps \in Nat
  BY DesktopAssumption DEF DesktopAssumption
<1>1. CASE UNCHANGED vars
  BY <1>1 DEF vars, core, commands
<1>2. ASSUME NEW phase \in {"begun", "invalidated"}, Begin(phase) PROVE NoOrphan'
  BY <1>0, <1>2 DEF Begin, Goto, core
<1>3. ASSUME NEW r \in Requests, ConnectStep(r) PROVE NoOrphan'
  <2>1. CASE Announce(r)
    BY <1>0, <2>1 DEF Announce, Step, Goto, core
  <2>2. CASE CheckAnnounced(r)
    BY <1>0, <2>2 DEF CheckAnnounced, Step, Goto, core, Current
  <2>3. CASE Launch(r)
    BY <1>0, <2>3 DEF Launch, Step, Goto, core
  <2>4. CASE LaunchRefused(r)
    BY <1>0, <2>4 DEF LaunchRefused, Step, Goto, core
  <2>5. CASE SpawnFails(r)
    BY <1>0, <2>5 DEF SpawnFails, Step, Goto, core
  <2>6. CASE Refuse(r)
    BY <1>0, <2>6 DEF Refuse, Step, Goto, core
  <2>7. CASE CheckStarted(r)
    BY <1>0, <2>7 DEF CheckStarted, Step, StopThen, Goto, core, Current
  <2>8. CASE SetProxy(r)
    BY <1>0, <2>8 DEF SetProxy, Step, Goto, core
  <2>9. CASE ProbeSucceeds(r)
    BY <1>0, <2>9 DEF ProbeSucceeds, Step, Goto, core
  <2>10. CASE ProbeFails(r)
    BY <1>0, <2>10 DEF ProbeFails, StopThen, Goto, core
  <2>11. CASE CheckReady(r)
    BY <1>0, <2>11 DEF CheckReady, Step, StopThen, Goto, core, Current
  <2>12. CASE Connected(r)
    BY <1>0, <2>12 DEF Connected, Step, Goto, core
  <2>13. CASE Fail(r)
    BY <1>0, <2>13 DEF Fail, Step, Goto, core
  <2>14. CASE CheckFailed(r)
    BY <1>0, <2>14 DEF CheckFailed, Step, Goto, core, Current
  <2>15. CASE ReportFailure(r)
    BY <1>0, <2>15 DEF ReportFailure, Step, Goto, core
  <2>16. CASE CaptureFails(r)
    BY <1>0, <2>16 DEF CaptureFails, Goto, core
  <2> QED
    BY <1>3, <2>1, <2>2, <2>3, <2>4, <2>5, <2>6, <2>7, <2>8, <2>9, <2>10, <2>11, <2>12, <2>13, <2>14, <2>15, <2>16 DEF ConnectStep
<1>4. ASSUME NEW r \in Requests, DisconnectStep(r) PROVE NoOrphan'
  <2>1. CASE ReadStatus(r)
    BY <1>0, <2>1 DEF ReadStatus, Step, Goto, core
  <2>2. CASE GiveUp(r)
    BY <1>0, <2>2 DEF GiveUp, Step, Goto, core
  <2>3. CASE BeginReset(r)
    BY <1>0, <2>3 DEF BeginReset, Step, Goto, core
  <2>4. CASE IsRunning(r)
    BY <1>0, <2>4 DEF IsRunning, Step, StopThen, Goto, core
  <2>5. CASE ResetFails(r)
    BY <1>0, <2>5 DEF ResetFails, Step, Goto, core
  <2>6. CASE ClearProxy(r)
    BY <1>0, <2>6 DEF ClearProxy, Step, Goto, core
  <2>7. CASE Disconnected(r)
    BY <1>0, <2>7 DEF Disconnected, Step, Goto, core
  <2>8. CASE DisconnectFails(r)
    BY <1>0, <2>8 DEF DisconnectFails, Step, Goto, core
  <2> QED
    BY <1>4, <2>1, <2>2, <2>3, <2>4, <2>5, <2>6, <2>7, <2>8 DEF DisconnectStep
<1>5. ASSUME NEW r \in Requests, Stop(r) PROVE NoOrphan'
  <2>1. CASE ExpectExit(r)
    BY <1>0, <2>1 DEF ExpectExit, Step, Goto, core
  <2>2. CASE Take(r)
    BY <1>0, <2>2 DEF Take, Goto, core
  <2>3. CASE NothingToTake(r)
    BY <1>0, <2>3 DEF NothingToTake, AfterError, Step, Goto, core
  <2>4. CASE Kill(r)
    BY <1>0, <2>4 DEF Kill, Goto, core
  <2>5. CASE KillFails(r)
    BY <1>0, <2>5 DEF KillFails, AfterError, Goto, core
  <2> QED
    BY <1>5, <2>1, <2>2, <2>3, <2>4, <2>5 DEF Stop
<1>6. ASSUME NEW r \in Requests, Watchdog(r) PROVE NoOrphan'
  <2>1. CASE Look(r)
    BY <1>0, <2>1 DEF Look, Watch, commands
  <2>2. CASE SeesCore(r)
    BY <1>0, <2>2 DEF SeesCore, Watch, commands
  <2>3. CASE SeesExit(r)
    BY <1>0, <2>3 DEF SeesExit, Watch, commands
  <2>4. CASE ClearsProxy(r)
    BY <1>0, <2>4 DEF ClearsProxy, Watch, commands
  <2>5. CASE TellsExit(r)
    BY <1>0, <2>5 DEF TellsExit, Watch, commands
  <2> QED
    BY <1>6, <2>1, <2>2, <2>3, <2>4, <2>5 DEF Watchdog
<1>7. ASSUME NEW r \in Requests, Crash(r) PROVE NoOrphan'
  BY <1>0, <1>7 DEF Crash, commands
<1> QED
  BY <1>1, <1>2, <1>3, <1>4, <1>5, <1>6, <1>7 DEF Next, Connect, Disconnect

LEMMA LeftoverStep ==
    TypeOK /\ LeftoverIsDoomed /\ [Next]_vars => LeftoverIsDoomed'
<1> SUFFICES ASSUME TypeOK, LeftoverIsDoomed, [Next]_vars PROVE LeftoverIsDoomed'
  OBVIOUS
<1> USE DEF TypeOK, NoCore, LeftoverIsDoomed, PastStop, WillStop
<1>0. MaxRequests \in Nat /\ MaxMishaps \in Nat
  BY DesktopAssumption DEF DesktopAssumption
<1>1. CASE UNCHANGED vars
  BY <1>1 DEF vars, core, commands
<1>2. ASSUME NEW phase \in {"begun", "invalidated"}, Begin(phase) PROVE LeftoverIsDoomed'
  <2>1. attempt + 1 \in Requests
    BY <1>0, <1>2 DEF Begin, Requests
  <2>2. pc'[attempt'] = phase
    BY <1>2, <2>1 DEF Begin, Goto
  <2> QED
    BY <2>2
<1>3. ASSUME NEW r \in Requests, ConnectStep(r) PROVE LeftoverIsDoomed'
  <2>1. CASE Announce(r)
    BY <1>0, <2>1 DEF Announce, Step, Goto, core
  <2>2. CASE CheckAnnounced(r)
    BY <1>0, <2>2 DEF CheckAnnounced, Step, Goto, core, Current
  <2>3. CASE Launch(r)
    BY <1>0, <2>3 DEF Launch, Step, Goto, core
  <2>4. CASE LaunchRefused(r)
    BY <1>0, <2>4 DEF LaunchRefused, Step, Goto, core
  <2>5. CASE SpawnFails(r)
    BY <1>0, <2>5 DEF SpawnFails, Step, Goto, core
  <2>6. CASE Refuse(r)
    BY <1>0, <2>6 DEF Refuse, Step, Goto, core
  <2>7. CASE CheckStarted(r)
    BY <1>0, <2>7 DEF CheckStarted, Step, StopThen, Goto, core, Current
  <2>8. CASE SetProxy(r)
    BY <1>0, <2>8 DEF SetProxy, Step, Goto, core
  <2>9. CASE ProbeSucceeds(r)
    BY <1>0, <2>9 DEF ProbeSucceeds, Step, Goto, core
  <2>10. CASE ProbeFails(r)
    BY <1>0, <2>10 DEF ProbeFails, StopThen, Goto, core
  <2>11. CASE CheckReady(r)
    BY <1>0, <2>11 DEF CheckReady, Step, StopThen, Goto, core, Current
  <2>12. CASE Connected(r)
    BY <1>0, <2>12 DEF Connected, Step, Goto, core
  <2>13. CASE Fail(r)
    BY <1>0, <2>13 DEF Fail, Step, Goto, core
  <2>14. CASE CheckFailed(r)
    BY <1>0, <2>14 DEF CheckFailed, Step, Goto, core, Current
  <2>15. CASE ReportFailure(r)
    BY <1>0, <2>15 DEF ReportFailure, Step, Goto, core
  <2>16. CASE CaptureFails(r)
    BY <1>0, <2>16 DEF CaptureFails, Goto, core
  <2> QED
    BY <1>3, <2>1, <2>2, <2>3, <2>4, <2>5, <2>6, <2>7, <2>8, <2>9, <2>10, <2>11, <2>12, <2>13, <2>14, <2>15, <2>16 DEF ConnectStep
<1>4. ASSUME NEW r \in Requests, DisconnectStep(r) PROVE LeftoverIsDoomed'
  <2>1. CASE ReadStatus(r)
    BY <1>0, <2>1 DEF ReadStatus, Step, Goto, core
  <2>2. CASE GiveUp(r)
    BY <1>0, <2>2 DEF GiveUp, Step, Goto, core
  <2>3. CASE BeginReset(r)
    BY <1>0, <2>3 DEF BeginReset, Step, Goto, core
  <2>4. CASE IsRunning(r)
    BY <1>0, <2>4 DEF IsRunning, Step, StopThen, Goto, core
  <2>5. CASE ResetFails(r)
    BY <1>0, <2>5 DEF ResetFails, Step, Goto, core
  <2>6. CASE ClearProxy(r)
    BY <1>0, <2>6 DEF ClearProxy, Step, Goto, core
  <2>7. CASE Disconnected(r)
    BY <1>0, <2>7 DEF Disconnected, Step, Goto, core
  <2>8. CASE DisconnectFails(r)
    BY <1>0, <2>8 DEF DisconnectFails, Step, Goto, core
  <2> QED
    BY <1>4, <2>1, <2>2, <2>3, <2>4, <2>5, <2>6, <2>7, <2>8 DEF DisconnectStep
<1>5. ASSUME NEW r \in Requests, Stop(r) PROVE LeftoverIsDoomed'
  <2>1. CASE ExpectExit(r)
    BY <1>0, <2>1 DEF ExpectExit, Step, Goto, core
  <2>2. CASE Take(r)
    BY <1>0, <2>2 DEF Take, Goto, core
  <2>3. CASE NothingToTake(r)
    BY <1>0, <2>3 DEF NothingToTake, AfterError, Step, Goto, core
  <2>4. CASE Kill(r)
    BY <1>0, <2>4 DEF Kill, Goto, core
  <2>5. CASE KillFails(r)
    BY <1>0, <2>5 DEF KillFails, AfterError, Goto, core
  <2> QED
    BY <1>5, <2>1, <2>2, <2>3, <2>4, <2>5 DEF Stop
<1>6. ASSUME NEW r \in Requests, Watchdog(r) PROVE LeftoverIsDoomed'
  <2>1. CASE Look(r)
    BY <1>0, <2>1 DEF Look, Watch, commands
  <2>2. CASE SeesCore(r)
    BY <1>0, <2>2 DEF SeesCore, Watch, commands
  <2>3. CASE SeesExit(r)
    BY <1>0, <2>3 DEF SeesExit, Watch, commands
  <2>4. CASE ClearsProxy(r)
    BY <1>0, <2>4 DEF ClearsProxy, Watch, commands
  <2>5. CASE TellsExit(r)
    BY <1>0, <2>5 DEF TellsExit, Watch, commands
  <2> QED
    BY <1>6, <2>1, <2>2, <2>3, <2>4, <2>5 DEF Watchdog
<1>7. ASSUME NEW r \in Requests, Crash(r) PROVE LeftoverIsDoomed'
  BY <1>0, <1>7 DEF Crash, commands
<1> QED
  BY <1>1, <1>2, <1>3, <1>4, <1>5, <1>6, <1>7 DEF Next, Connect, Disconnect

-----------------------------------------------------------------------------
(* The conjunction is inductive. *)
THEOREM Inductive == Spec => []IInv
<1>1. IInv /\ [Next]_vars => IInv'
  BY TypeStep, WatchedStep, OrphanStep, LeftoverStep DEF IInv
<1> QED
  BY InitInv, <1>1, PTL DEF Spec

(* Type correctness of the connection, for any number of commands. *)
THEOREM TypeCorrect == Spec => []TypeOK
<1>1. IInv => TypeOK
  BY DEF IInv
<1> QED
  BY Inductive, <1>1, PTL

(* The core in the slot always has a watchdog that will notice its death, or *)
(* a stop that is about to take it.                                          *)
THEOREM CoreIsWatched == Spec => []Watched
<1>1. IInv => Watched
  BY DEF IInv
<1> QED
  BY Inductive, <1>1, PTL

(* No core runs out of reach of the process manager, but for the ones it has *)
(* let go of: their output could not be captured, or their kill failed.      *)
THEOREM NoCoreIsOrphaned == Spec => []NoOrphan
<1>1. IInv => NoOrphan
  BY DEF IInv
<1> QED
  BY Inductive, <1>1, PTL

(* A disconnect that went through and that no later command followed leaves  *)
(* no core once all is quiet, whatever connects it overlapped with; a core   *)
(* the client has let go of before it cannot end.                            *)
THEOREM DisconnectIsFinal == Spec => []NoCoreAfterDisconnect
<1>1. IInv => NoCoreAfterDisconnect
  <2> SUFFICES ASSUME IInv, SignedOff PROVE slot = NoCore /\ alive \subseteq abandoned
    BY DEF NoCoreAfterDisconnect
  <2>1. \A r \in Requests : pc[r] \in {"returned", "disconnected", "undone", "idle"}
    BY DEF SignedOff, AtRest, Over
  <2>2. slot = NoCore
    <3>1. PastStop
      BY DEF SignedOff, PastStop
    <3>2. \A r \in Requests : ~WillStop(r)
      BY <2>1 DEF WillStop
    <3> QED
      BY <3>1, <3>2 DEF IInv, LeftoverIsDoomed
  <2>3. alive \subseteq abandoned
    BY <2>1, <2>2 DEF IInv, NoOrphan, TypeOK, NoCore
  <2> QED
    BY <2>2, <2>3
<1> QED
  BY Inductive, <1>1, PTL
=============================================================================
