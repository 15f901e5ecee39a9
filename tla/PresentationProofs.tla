-------------------------- MODULE PresentationProofs --------------------------
(***************************************************************************)
(* What Presentation guarantees for any number of faults.                  *)
(*                                                                         *)
(* Bounded is why the counter of direct starts never passes its limit,     *)
(* although a login writes what it read before: whoever decides for a      *)
(* direct session has read a number below the limit.  Closing is why no    *)
(* slicer outlives its session: a daemon that has ended was asked to, so   *)
(* that passes which begin from then on stop what there is, and the one    *)
(* that was about to start a slicer has ended before the daemon could.     *)
(***************************************************************************)
EXTENDS Presentation, TLAPS

Bounded == login.at # "out" /\ login.session = "direct" => login.tried < DIRECT_START_ATTEMPTS

Closing ==
    /\ daemon.at \notin {"running", "ended"} => slicer = "none" /\ pass = "idle"
    /\ daemon.at = "ended" => daemon.exit # None /\ slicer = "none" /\ pass # "start"

Typed == TypeOK /\ Bounded

----------------------------------------------------------------------------
(* Counting a fault stays within the bound.                                *)
LEMMA CountIsTyped ==
    ASSUME TypeOK, Count \/ Uncounted
    PROVE  faults' \in 0 .. MaxFaults
  <1>1. faults \in 0 .. MaxFaults /\ MaxFaults \in Nat
    BY PresentationAssumption, Zenon DEF TypeOK
  <1>2. QED
    BY <1>1 DEF Count, Uncounted

(* A write of the marker keeps the types, whether it succeeds or not.      *)
LEMMA MarkerIsTyped ==
    ASSUME TypeOK, WriteFallback
    PROVE  marker' \in BOOLEAN /\ faults' \in 0 .. MaxFaults
  <1>1. Count \/ Uncounted
    BY DEF WriteFallback
  <1>2. marker' \in BOOLEAN
    BY Zenon DEF TypeOK, WriteFallback
  <1>3. QED
    BY <1>1, <1>2, CountIsTyped

(* A daemon that is not there is one of its states.                        *)
LEMMA DownIsTyped == Down \in DaemonState
  BY DEF Down, DaemonState, Optional, CRASH_BUDGET_EXITS

----------------------------------------------------------------------------
LEMMA TypedInit == Init => Typed
  <1> SUFFICES ASSUME Init PROVE Typed
    OBVIOUS
  <1>1. login \in LoginState /\ daemon \in DaemonState
    BY DownIsTyped DEF Init, LoggedOut, LoginState, Optional, DIRECT_START_ATTEMPTS
  <1>2. faults \in 0 .. MaxFaults
    BY PresentationAssumption DEF Init
  <1>3. attempts \in 0 .. DIRECT_START_ATTEMPTS
    BY DEF Init, DIRECT_START_ATTEMPTS
  <1>4. QED
    BY <1>1, <1>2, <1>3 DEF Init, Typed, TypeOK, Bounded, LoggedOut, Optional

LEMMA LoginTyped == Typed /\ Login => Typed'
  <1> SUFFICES ASSUME Typed, Login PROVE Typed'
    OBVIOUS
  <1>0. login \in LoginState /\ attempts \in 0 .. DIRECT_START_ATTEMPTS
    BY DEF Typed, TypeOK
  <1>1. CASE LoginDecides
    <2>1. login' \in LoginState
      BY <1>0, <1>1 DEF LoginDecides, LoginState, Modes, Optional
    <2>2. Bounded'
      BY <1>1 DEF Bounded, LoginDecides, WantsDirect
    <2>3. marker' \in BOOLEAN
      BY <1>1 DEF LoginDecides, Typed, TypeOK
    <2>4. QED
      BY <1>1, <2>1, <2>2, <2>3, CountIsTyped DEF Typed, TypeOK, LoginDecides
  <1>2. CASE LoginRecords
    <2>1. login' \in LoginState
      BY <1>0, <1>2 DEF LoginRecords, LoginState
    <2>2. session' \in Optional(Modes)
      BY <1>0, <1>2 DEF LoginRecords, LoginState
    <2>3. Bounded'
      <3>1. login'.session = login.session /\ login'.tried = login.tried
        BY <1>0, <1>2 DEF LoginRecords, LoginState
      <3>2. QED
        BY <1>2, <3>1 DEF Typed, Bounded, LoginRecords
    <2>4. QED
      BY <1>2, <2>1, <2>2, <2>3, CountIsTyped DEF Typed, TypeOK, LoginRecords
  <1>3. CASE LoginStarts
    <2>1. attempts \in 0 .. 3 /\ login.tried \in 0 .. 3
      BY DEF Typed, TypeOK, LoginState, DIRECT_START_ATTEMPTS
    <2>2. attempts' \in 0 .. 3
      BY <1>3, <2>1 DEF Typed, Bounded, LoginStarts, DIRECT_START_ATTEMPTS
    <2>3. login' \in LoginState
      BY <1>3 DEF LoginStarts, LoginState, LoggedOut, Optional, DIRECT_START_ATTEMPTS
    <2>4. QED
      BY <1>3, <2>2, <2>3, CountIsTyped
         DEF Typed, TypeOK, Bounded, LoginStarts, LoggedOut, Optional, DIRECT_START_ATTEMPTS
  <1>4. QED
    BY <1>1, <1>2, <1>3 DEF Login

LEMMA StartTyped == Typed /\ Start => Typed'
  <1> SUFFICES ASSUME Typed, Start PROVE Typed'
    OBVIOUS
  <1>0. daemon \in DaemonState /\ {file, session} \subseteq Optional(Modes)
    BY DEF Typed, TypeOK, Optional
  <1>1. CASE ReadFile
    <2>1. daemon' \in DaemonState
      BY <1>0, <1>1, DownIsTyped DEF ReadFile, DaemonState, Optional
    <2>2. QED
      BY <1>1, <2>1, CountIsTyped DEF Typed, TypeOK, Bounded, ReadFile, files
  <1>2. CASE Connect
    <2>1. daemon' \in DaemonState
      BY <1>0, <1>2 DEF Connect, DaemonState
    <2>2. QED
      BY <1>2, <2>1, CountIsTyped DEF Typed, TypeOK, Bounded, Connect, files
  <1>3. CASE Resolve
    <2>1. daemon' \in DaemonState
      <3>1. ASSUME NEW r \in {"direct", "wayland"}
            PROVE  [daemon EXCEPT !.at = "running", !.mode = r] \in DaemonState
        BY <1>0, <3>1 DEF DaemonState, Optional, Modes
      <3>2. [daemon EXCEPT !.at = "ended", !.exit = "switch"] \in DaemonState
        BY <1>0 DEF DaemonState, Optional, Exits
      <3>3. QED
        BY <1>3, <3>1, <3>2 DEF Resolve, Resolution
    <2>2. QED
      BY <1>3, <2>1, CountIsTyped DEF Typed, TypeOK, Bounded, Resolve, files
  <1>4. CASE ResolveFails
    BY <1>4, CountIsTyped, DownIsTyped
       DEF Typed, TypeOK, Bounded, ResolveFails, Gone, files
  <1>5. CASE PreflightRefuses
    <2>1. daemon' \in DaemonState
      BY <1>0, <1>5 DEF PreflightRefuses, DaemonState, Optional, Exits
    <2>2. QED
      BY <1>5, <2>1, MarkerIsTyped DEF Typed, TypeOK, Bounded, PreflightRefuses
  <1>6. QED
    BY <1>1, <1>2, <1>3, <1>4, <1>5 DEF Start

LEMMA PassTyped == Typed /\ Pass => Typed'
  <1> SUFFICES ASSUME Typed, Pass PROVE Typed'
    OBVIOUS
  <1>0. daemon \in DaemonState /\ {file, session} \subseteq Optional(Modes)
    BY DEF Typed, TypeOK, Optional
  <1>1. CASE PassLooks
    BY <1>1, CountIsTyped DEF Typed, TypeOK, Bounded, PassLooks, files
  <1>2. CASE PassFallsBack
    <2>1. daemon' \in DaemonState
      BY <1>0, <1>2 DEF PassFallsBack, Requested, DaemonState, Optional, Exits
    <2>2. QED
      BY <1>2, <2>1, CountIsTyped DEF Typed, TypeOK, Bounded, PassFallsBack, files
  <1>3. CASE PassEnds
    <2>1. daemon' \in DaemonState
      BY <1>0, <1>3 DEF PassEnds, DaemonState
    <2>2. QED
      BY <1>3, <2>1, CountIsTyped DEF Typed, TypeOK, Bounded, PassEnds, files
  <1>4. CASE PassCannotStart
    BY <1>4, MarkerIsTyped DEF Typed, TypeOK, Bounded, PassCannotStart
  <1>5. ASSUME NEW recent \in 1 .. CRASH_BUDGET_EXITS, PassReaps(recent)
        PROVE  Typed'
    <2>1. daemon' \in DaemonState
      <3>1. recent \in 0 .. CRASH_BUDGET_EXITS
        BY <1>5 DEF CRASH_BUDGET_EXITS
      <3>2. Reaped(recent)
        BY <1>5 DEF PassReaps
      <3>3. QED
        BY <1>0, <3>1, <3>2 DEF Reaped, DaemonState
    <2>2. marker' \in BOOLEAN /\ faults' \in 0 .. MaxFaults
      BY <1>5, MarkerIsTyped, CountIsTyped DEF Typed, TypeOK, PassReaps
    <2>3. QED
      BY <1>5, <2>1, <2>2 DEF Typed, TypeOK, Bounded, PassReaps
  <1>6. QED
    BY <1>1, <1>2, <1>3, <1>4, <1>5 DEF Pass

LEMMA SessionTyped ==
    ASSUME Typed,
           Present \/ SlicerBreaks \/ Confirm \/ NoticeLoss \/ ShutDown \/ Finish \/ RestartDaemon
    PROVE  Typed'
  <1>0. daemon \in DaemonState
    BY DEF Typed, TypeOK
  <1>1. CASE Present
    <2>1. daemon' \in DaemonState
      BY <1>0, <1>1 DEF Present, DaemonState
    <2>2. QED
      BY <1>1, <2>1, CountIsTyped DEF Typed, TypeOK, Bounded, Present, files
  <1>2. CASE SlicerBreaks
    BY <1>2, CountIsTyped DEF Typed, TypeOK, Bounded, SlicerBreaks, SlicerExits, files
  <1>3. CASE Confirm
    <2>1. daemon' \in DaemonState
      BY <1>0, <1>3 DEF Confirm, DaemonState
    <2>2. attempts' \in 0 .. DIRECT_START_ATTEMPTS
      BY <1>3 DEF Confirm, DIRECT_START_ATTEMPTS
    <2>3. QED
      BY <1>3, <2>1, <2>2, CountIsTyped DEF Typed, TypeOK, Bounded, Confirm
  <1>4. CASE NoticeLoss
    <2>1. daemon' \in DaemonState
      BY <1>0, <1>4 DEF NoticeLoss, Requested, DaemonState, Optional, Exits
    <2>2. QED
      BY <1>4, <2>1, CountIsTyped DEF Typed, TypeOK, Bounded, NoticeLoss, files
  <1>5. CASE ShutDown
    <2>1. daemon' \in DaemonState
      BY <1>0, <1>5 DEF ShutDown, DaemonState
    <2>2. QED
      BY <1>5, <2>1, CountIsTyped DEF Typed, TypeOK, Bounded, ShutDown, files
  <1>6. CASE Finish
    BY <1>6, CountIsTyped, DownIsTyped
       DEF Typed, TypeOK, Bounded, Finish, EndCompositor, Gone, Optional, files
  <1>7. CASE RestartDaemon
    BY <1>7, CountIsTyped, DownIsTyped DEF Typed, TypeOK, Bounded, RestartDaemon, Gone, files
  <1>8. QED
    BY <1>1, <1>2, <1>3, <1>4, <1>5, <1>6, <1>7

LEMMA FaultTyped == Typed /\ Fault => Typed'
  <1> SUFFICES ASSUME Typed, Fault PROVE Typed'
    OBVIOUS
  <1>0. daemon \in DaemonState /\ {file, session} \subseteq Optional(Modes)
    BY DEF Typed, TypeOK, Optional
  <1>1. CASE SlicerCrashes
    BY <1>1, CountIsTyped DEF Typed, TypeOK, Bounded, SlicerCrashes, SlicerExits, files
  <1>2. CASE FinishInVain
    BY <1>2, CountIsTyped, DownIsTyped
       DEF Typed, TypeOK, Bounded, FinishInVain, EndCompositor, Gone, Optional, files
  <1>3. CASE CompositorCrashes
    <2>1. daemon' \in DaemonState
      BY <1>0, <1>3 DEF CompositorCrashes, Detached, DaemonState
    <2>2. QED
      <3>1. compositor' \in Optional({"headless", "drm"})
        BY <1>3 DEF CompositorCrashes, Optional
      <3>2. QED
        BY <1>3, <2>1, <3>1, CountIsTyped DEF Typed, TypeOK, Bounded, CompositorCrashes, files
  <1>4. CASE KillDaemon
    BY <1>4, CountIsTyped, DownIsTyped DEF Typed, TypeOK, Bounded, KillDaemon, Gone, files
  <1>5. CASE Edit
    BY <1>5, CountIsTyped DEF Typed, TypeOK, Bounded, Edit, files
  <1>6. CASE RestartSession
    <2>1. daemon' \in DaemonState
      BY <1>0, <1>6 DEF RestartSession, Detached, DaemonState
    <2>2. login' \in LoginState
      BY <1>6 DEF RestartSession, LoggedOut, LoginState, Optional, DIRECT_START_ATTEMPTS
    <2>3. QED
      BY <1>6, <2>1, <2>2, CountIsTyped
         DEF Typed, TypeOK, Bounded, RestartSession, LoggedOut, Optional, files
  <1>7. CASE Reboot
    <2>1. login' \in LoginState
      BY <1>7 DEF Reboot, LoggedOut, LoginState, Optional, DIRECT_START_ATTEMPTS
    <2>2. attempts' \in 0 .. DIRECT_START_ATTEMPTS
      BY <1>7 DEF Reboot, DIRECT_START_ATTEMPTS
    <2>3. QED
      BY <1>7, <2>1, <2>2, CountIsTyped, DownIsTyped
         DEF Typed, TypeOK, Bounded, Reboot, Gone, LoggedOut, Optional
  <1>8. QED
    BY <1>1, <1>2, <1>3, <1>4, <1>5, <1>6, <1>7 DEF Fault

LEMMA TypedStep == Typed /\ [Next]_vars => Typed'
  <1>1. ASSUME Typed, UNCHANGED vars PROVE Typed'
    BY <1>1 DEF Typed, TypeOK, Bounded, vars, files
  <1>2. QED
    BY <1>1, LoginTyped, StartTyped, PassTyped, SessionTyped, FaultTyped DEF Next, Stay

(* Over any crashes, edits, restarts and failed writes every variable      *)
(* keeps its type, and no boot starts more direct sessions than it may.    *)
THEOREM PresentationTypeCorrect == Spec => []TypeOK
  <1>1. Typed => TypeOK
    BY DEF Typed
  <1>2. QED
    BY <1>1, TypedInit, TypedStep, PTL DEF Spec

----------------------------------------------------------------------------
LEMMA ClosingInit == Init => Closing
  BY DEF Init, Closing, Down

(* What ends the process takes its slicer and its passes along.            *)
LEMMA GoneIsClosed == ASSUME Gone PROVE Closing'
  BY DEF Gone, Closing, Down

LEMMA ClosingStep == Typed /\ Closing /\ [Next]_vars => Closing'
  <1> SUFFICES ASSUME Typed, Closing, [Next]_vars PROVE Closing'
    OBVIOUS
  <1>0. daemon \in DaemonState
    BY DEF Typed, TypeOK
  <1>1. CASE Login \/ Edit
    BY <1>1 DEF Closing, Login, LoginDecides, LoginRecords, LoginStarts, Edit
  <1>2. CASE ResolveFails \/ Finish \/ FinishInVain \/ KillDaemon \/ RestartDaemon \/ Reboot
    BY <1>2, GoneIsClosed
       DEF ResolveFails, Finish, FinishInVain, EndCompositor, KillDaemon, RestartDaemon, Reboot
  <1>3. CASE ReadFile \/ Connect \/ Resolve \/ PreflightRefuses
    BY <1>0, <1>3, PresentationAssumption
       DEF Closing, ReadFile, Connect, Resolve, PreflightRefuses, Down, DaemonState, Exits
  <1>4. CASE Pass
    <2>1. CASE PassLooks
      BY <1>0, <1>4, <2>1 DEF Closing, PassLooks, Presenting, Ending, DaemonState
    <2>2. CASE PassFallsBack
      BY <1>0, <2>2, PresentationAssumption
         DEF Closing, PassFallsBack, Requested, DaemonState, Exits
    <2>3. CASE PassEnds
      <3>1. daemon'.at = daemon.at /\ daemon'.exit = daemon.exit
        BY <1>0, <2>3 DEF PassEnds, DaemonState
      <3>2. pass \in {"start", "stop"} /\ pass' = "idle"
        BY <2>3 DEF PassEnds
      <3>3. pass = "stop" => slicer' = "none"
        BY <2>3 DEF PassEnds
      <3>4. QED
        BY <3>1, <3>2, <3>3 DEF Closing
    <2>4. CASE PassCannotStart
      BY <1>0, <2>4 DEF Closing, PassCannotStart, Presenting, Ending, DaemonState
    <2>5. ASSUME NEW recent \in 1 .. CRASH_BUDGET_EXITS, PassReaps(recent)
          PROVE  Closing'
      BY <1>0, <2>5 DEF Closing, PassReaps, Reaped, Presenting, Ending, DaemonState
    <2>6. QED
      BY <1>4, <2>1, <2>2, <2>3, <2>4, <2>5 DEF Pass
  <1>5. CASE Present \/ SlicerBreaks \/ SlicerCrashes
    BY <1>0, <1>5 DEF Closing, Present, SlicerBreaks, SlicerCrashes, SlicerExits, DaemonState
  <1>6. CASE Confirm \/ NoticeLoss
    BY <1>0, <1>6, PresentationAssumption
       DEF Closing, Confirm, NoticeLoss, Requested, DaemonState, Exits
  <1>7. CASE ShutDown
    BY <1>0, <1>7 DEF Closing, ShutDown, Ending, DaemonState
  <1>8. CASE CompositorCrashes \/ RestartSession
    BY <1>0, <1>8 DEF Closing, CompositorCrashes, RestartSession, Detached, DaemonState
  <1>9. CASE UNCHANGED vars
    BY <1>9 DEF Closing, vars
  <1>10. QED
    BY <1>1, <1>2, <1>3, <1>4, <1>5, <1>6, <1>7, <1>8, <1>9 DEF Next, Start, Fault, Stay

(* A direct session that is ending, also beside a pass that was about to   *)
(* start a slicer, leaves none to the next compositor.                     *)
THEOREM NoSlicerIsLeft == Spec => []SlicerGoesFirst
  <1>1. Closing => SlicerGoesFirst
    BY DEF Closing, SlicerGoesFirst
  <1>2. QED
    BY <1>1, ClosingInit, ClosingStep, TypedInit, TypedStep, PTL DEF Spec

===============================================================================
