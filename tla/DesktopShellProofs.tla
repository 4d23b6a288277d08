------------------------- MODULE DesktopShellProofs -------------------------
(***************************************************************************)
(* Proofs about DesktopShell, for any set of windows and any number of     *)
(* connection attempts.                                                    *)
(*                                                                         *)
(* That no gateway process is left behind rests on what serverProcess      *)
(* remembers: it is set by spawn and cleared only by a close event while   *)
(* quitting, so that a quit which finds it empty has nothing to take down. *)
(***************************************************************************)
EXTENDS DesktopShell, TLAPS

Bookkeeping ==
    /\ Alive => serverProcess
    /\ app \in {"starting", "up", "failed"} /\ ~dev => serverProcess
    /\ app = "up" => tray
    /\ tray => mainWindow # Undefined
    /\ app = "launching" => ~tray

IInv == TypeOK /\ Bookkeeping /\ NoOrphanServer /\ HideHasWindow /\ Reachable

-----------------------------------------------------------------------------
(* Windows *)

WindowType ==
    /\ live \subseteq Win /\ visible \subseteq live
    /\ mainWindow \in live \union {Null, Undefined}
    /\ HideHasWindow
    /\ tray => mainWindow # Undefined

LEMMA CreateKeeps ==
    ASSUME WindowType, createWindow
    PROVE  WindowType'
<1>1. PICK w \in Win \ live :
        /\ live' = live \union {w} /\ visible' = visible \union {w} /\ mainWindow' = w
  BY DEF createWindow
<1> QED
  BY <1>1, WinAssumption DEF WindowType, HideHasWindow

LEMMA CloseKeeps ==
    ASSUME WindowType, NEW w \in live, Close(w), tray' = tray, isQuitting' = isQuitting
    PROVE  WindowType'
BY WinAssumption DEF WindowType, HideHasWindow, Close

LEMMA SameWindows ==
    ASSUME WindowType, UNCHANGED <<windows, tray>>, isQuitting => isQuitting'
    PROVE  WindowType'
BY DEF WindowType, HideHasWindow, windows

LEMMA HiddenWindows ==
    ASSUME WindowType, visible' \subseteq visible, UNCHANGED <<live, mainWindow, tray>>,
           isQuitting => isQuitting'
    PROVE  WindowType'
BY DEF WindowType, HideHasWindow

-----------------------------------------------------------------------------
(* Everything else *)

Rest ==
    /\ dev \in BOOLEAN /\ other \in BOOLEAN /\ isQuitting \in BOOLEAN /\ tray \in BOOLEAN
    /\ app \in {"launching", "starting", "up", "failed", "exited"}
    /\ server \in {"none", "missing", "booting", "serving", "dead", "closed"}
    /\ code \in {"zero", "error", "signal"}
    /\ serverProcess \in BOOLEAN /\ shutting \in BOOLEAN
    /\ currentAttempt \in Nat /\ asking \in Nat /\ waiting \in Nat
    /\ startDialog \in Dialog /\ crashDialog \in Dialog
    /\ Alive => serverProcess
    /\ app \in {"starting", "up", "failed"} /\ ~dev => serverProcess
    /\ app = "up" => tray
    /\ app = "launching" => ~tray
    /\ NoOrphanServer /\ Reachable

LEMMA Parts == IInv <=> WindowType /\ Rest
BY DEF IInv, TypeOK, Bookkeeping, WindowType, Rest

LEMMA WindowSteps ==
    ASSUME IInv, (\E w \in Win : UserCloses(w)) \/ TrayShows \/ Activate
    PROVE  IInv'
<1>1. WindowType /\ Rest
  BY Parts
<1>2. Rest'
  BY <1>1 DEF Rest, UserCloses, TrayShows, Activate, fixed, process, check, dialogs, Alive,
              NoOrphanServer, Reachable
<1>3. WindowType'
  <2>1. CASE \E w \in Win : UserCloses(w)
    BY <1>1, <2>1, CloseKeeps DEF UserCloses, WindowType
  <2>2. CASE TrayShows
    <3>1. CASE mainWindow = Null /\ createWindow
      BY <1>1, <3>1, CreateKeeps
    <3>2. CASE /\ mainWindow # Null
               /\ UNCHANGED <<live, mainWindow>>
               /\ \/ visible' = visible \union {mainWindow}
                  \/ mainWindow \in visible /\ visible' = visible \ {mainWindow}
      BY <1>1, <2>2, <3>2 DEF TrayShows, WindowType, HideHasWindow
    <3> QED
      BY <2>2, <3>1, <3>2 DEF TrayShows
  <2>3. CASE Activate
    BY <1>1, <2>3, CreateKeeps DEF Activate
  <2> QED
    BY <2>1, <2>2, <2>3
<1> QED
  BY <1>2, <1>3 DEF IInv, TypeOK, Bookkeeping, WindowType, Rest

LEMMA StartSteps ==
    ASSUME IInv, startServer \/ SpawnError \/ Check
    PROVE  IInv'
<1>1. WindowType /\ Rest
  BY Parts
<1> USE DEF fixed, process, check, windows, dialogs
<1>2. CASE startServer
  <2>1. WindowType'
    BY <1>1, <1>2, SameWindows DEF startServer
  <2>2. Rest'
    BY <1>1, <1>2 DEF startServer, Rest, Alive, NoOrphanServer, Reachable
  <2> QED
    BY <2>1, <2>2 DEF IInv, TypeOK, Bookkeeping, WindowType, Rest
<1>3. CASE SpawnError
  <2>1. WindowType'
    BY <1>1, <1>3, SameWindows DEF SpawnError
  <2>2. Rest'
    BY <1>1, <1>3 DEF SpawnError, Reject, Rest, Running, Alive, NoOrphanServer, Reachable,
       Dialog
  <2> QED
    BY <2>1, <2>2 DEF IInv, TypeOK, Bookkeeping, WindowType, Rest
<1>4. CASE tryConnect
  <2>1. WindowType'
    BY <1>1, <1>4, SameWindows DEF tryConnect
  <2>2. waiting - 1 \in Nat
    BY <1>1, <1>4 DEF tryConnect, Rest
  <2>3. Rest'
    BY <1>1, <1>4, <2>2 DEF tryConnect, Rest, Alive, NoOrphanServer, Reachable
  <2> QED
    BY <2>1, <2>3 DEF IInv, TypeOK, Bookkeeping, WindowType, Rest
<1>5. CASE Connected
  <2>1. WindowType'
    BY <1>1, <1>5, SameWindows, CreateKeeps DEF Connected, Resolve
  <2>2. asking - 1 \in Nat
    BY <1>1, <1>5 DEF Connected, Rest
  <2>3. Rest'
    <3>1. /\ UNCHANGED <<dev, other, isQuitting, server, code, serverProcess, shutting>>
          /\ UNCHANGED <<currentAttempt, waiting, startDialog, crashDialog>>
          /\ asking' = asking - 1 /\ app \notin {"launching", "exited"}
      BY <1>5 DEF Connected, fixed, process, dialogs, Running
    <3>2. (app = "starting" /\ app' = "up" /\ tray' = TRUE) \/ UNCHANGED <<app, tray>>
      BY <1>5 DEF Connected, Resolve
    <3>3. CASE app = "starting" /\ app' = "up" /\ tray' = TRUE
      BY <1>1, <2>2, <3>1, <3>3 DEF Rest, Alive, NoOrphanServer, Reachable
    <3>4. CASE UNCHANGED <<app, tray>>
      BY <1>1, <2>2, <3>1, <3>4 DEF Rest, Alive, NoOrphanServer, Reachable
    <3> QED
      BY <3>2, <3>3, <3>4
  <2> QED
    BY <2>1, <2>3 DEF IInv, TypeOK, Bookkeeping, WindowType, Rest
<1>6. ASSUME NEW n \in Nat, Running, asking > 0, asking' = asking - 1, Retry(n),
             UNCHANGED <<fixed, isQuitting, process, currentAttempt, windows, tray, crashDialog>>
      PROVE  IInv'
  <2>1. WindowType'
    BY <1>1, <1>6, SameWindows
  <2>2. asking - 1 \in Nat /\ waiting + n \in Nat
    BY <1>1, <1>6 DEF Rest
  <2>3. Rest'
    BY <1>1, <1>6, <2>2
       DEF Retry, Reject, Rest, Running, Alive, NoOrphanServer, Reachable, Dialog
  <2> QED
    BY <2>1, <2>3 DEF IInv, TypeOK, Bookkeeping, WindowType, Rest
<1>7. CASE ConnectFails \/ ConnectTimesOut
  BY <1>6, <1>7 DEF ConnectFails, ConnectTimesOut
<1> QED
  BY <1>2, <1>3, <1>4, <1>5, <1>7 DEF Check

LEMMA QuitSteps ==
    ASSUME IInv, TrayQuits \/ SystemQuits \/ StartDialogAnswered \/ CrashDialogAnswered
    PROVE  IInv'
<1>1. WindowType /\ Rest
  BY Parts
<1>2. /\ visible' \subseteq visible /\ UNCHANGED <<live, mainWindow, tray>>
      /\ isQuitting => isQuitting'
  BY DEF TrayQuits, SystemQuits, StartDialogAnswered, CrashDialogAnswered, Quit
<1>3. WindowType'
  BY <1>1, <1>2, HiddenWindows
<1>4. ASSUME NEW q, Quit(q), UNCHANGED <<fixed, server, code, serverProcess, check, tray>>,
             isQuitting' \in BOOLEAN, startDialog' \in Dialog, crashDialog' \in Dialog
      PROVE  Rest'
  <2> USE DEF fixed, check, Rest, Alive, NoOrphanServer, Reachable
  <2>1. CASE serverProcess
    <3>1. shutting' = TRUE /\ app' = app
      BY <1>4, <2>1 DEF Quit
    <3> QED
      BY <1>1, <1>4, <2>1, <3>1
  <2>2. CASE ~serverProcess
    <3>1. shutting' = shutting /\ (app' = app \/ app' = "exited")
      BY <1>4, <2>2 DEF Quit
    <3>2. CASE app' = app
      BY <1>1, <1>4, <2>2, <3>1, <3>2
    <3>3. CASE app' = "exited"
      BY <1>1, <1>4, <2>2, <3>1, <3>3
    <3> QED
      BY <3>1, <3>2, <3>3
  <2> QED
    BY <2>1, <2>2
<1>5. startDialog \in Dialog /\ crashDialog \in Dialog /\ isQuitting \in BOOLEAN
  BY <1>1 DEF Rest
<1>6. Rest'
  <2>1. CASE TrayQuits
    BY <1>4, <1>5, <2>1 DEF TrayQuits, dialogs
  <2>2. CASE SystemQuits
    BY <1>4, <1>5, <2>2 DEF SystemQuits, dialogs
  <2>3. CASE StartDialogAnswered
    <3>1. CASE startDialog' = "log" /\ UNCHANGED <<app, shutting>>
      BY <1>1, <2>3, <3>1
         DEF StartDialogAnswered, fixed, check, Rest, Alive, NoOrphanServer, Reachable, Dialog
    <3>2. CASE startDialog' = "none" /\ Quit(isQuitting)
      BY <1>4, <1>5, <2>3, <3>2 DEF StartDialogAnswered, Dialog
    <3> QED
      BY <2>3, <3>1, <3>2 DEF StartDialogAnswered
  <2>4. CASE CrashDialogAnswered
    <3>1. CASE crashDialog' = "log" /\ UNCHANGED <<app, isQuitting, shutting>>
      BY <1>1, <2>4, <3>1
         DEF CrashDialogAnswered, fixed, check, Rest, Alive, NoOrphanServer, Reachable, Dialog
    <3>2. CASE crashDialog' = "none" /\ isQuitting' = TRUE /\ Quit(TRUE)
      BY <1>4, <1>5, <2>4, <3>2 DEF CrashDialogAnswered, Dialog
    <3> QED
      BY <2>4, <3>1, <3>2 DEF CrashDialogAnswered
  <2> QED
    BY <2>1, <2>2, <2>3, <2>4
<1> QED
  BY <1>3, <1>6 DEF IInv, TypeOK, Bookkeeping, WindowType, Rest

LEMMA ServerSteps ==
    ASSUME IInv, KillTimer \/ ServerCloses \/ ServerListens \/ ServerDies \/ OtherStarts
    PROVE  IInv'
<1>1. WindowType /\ Rest
  BY Parts
<1>2. CASE KillTimer \/ ServerListens \/ ServerDies \/ OtherStarts
  <2>1. WindowType'
    BY <1>1, <1>2, SameWindows DEF KillTimer, ServerListens, ServerDies, OtherStarts
  <2>2. Rest'
    <3> USE DEF fixed, process, check, dialogs, Rest, Running, Alive, NoOrphanServer, Reachable
    <3>1. CASE KillTimer
      BY <1>1, <3>1 DEF KillTimer
    <3>2. CASE ServerListens
      BY <1>1, <3>2 DEF ServerListens
    <3>3. CASE ServerDies
      BY <1>1, <3>3 DEF ServerDies
    <3>4. CASE OtherStarts
      BY <1>1, <3>4 DEF OtherStarts
    <3> QED
      BY <1>2, <3>1, <3>2, <3>3, <3>4
  <2> QED
    BY <2>1, <2>2 DEF IInv, TypeOK, Bookkeeping, WindowType, Rest
<1>3. CASE ServerCloses
  <2>1. WindowType'
    <3>1. CASE mainWindow \in live /\ Close(mainWindow)
      BY <1>1, <1>3, <3>1, CloseKeeps DEF ServerCloses
    <3>2. CASE UNCHANGED windows
      BY <1>1, <1>3, <3>2, SameWindows DEF ServerCloses
    <3> QED
      BY <1>3, <3>1, <3>2 DEF ServerCloses
  <2>2. Rest'
    <3>1. /\ UNCHANGED <<dev, other, isQuitting, code, shutting, tray, startDialog>>
          /\ UNCHANGED <<currentAttempt, asking, waiting>>
          /\ server' = "closed" /\ app \notin {"launching", "exited"}
      BY <1>3 DEF ServerCloses, fixed, check, Running
    <3>2. crashDialog' \in {crashDialog, "ask"}
      BY <1>3 DEF ServerCloses
    <3>3. \/ serverProcess' = FALSE /\ app' = "exited"
          \/ UNCHANGED <<serverProcess, app>>
      BY <1>3 DEF ServerCloses
    <3>4. crashDialog' \in Dialog
      BY <1>1, <3>2 DEF Rest, Dialog
    <3>5. ~Alive'
      BY <3>1 DEF Alive
    <3>6. CASE serverProcess' = FALSE /\ app' = "exited"
      BY <1>1, <3>1, <3>4, <3>5, <3>6 DEF Rest, NoOrphanServer, Reachable
    <3>7. CASE UNCHANGED <<serverProcess, app>>
      BY <1>1, <3>1, <3>4, <3>5, <3>7 DEF Rest, NoOrphanServer, Reachable
    <3> QED
      BY <3>3, <3>6, <3>7
  <2> QED
    BY <2>1, <2>2 DEF IInv, TypeOK, Bookkeeping, WindowType, Rest
<1> QED
  BY <1>2, <1>3

-----------------------------------------------------------------------------
(* Theorems *)

LEMMA Initially == Init => IInv
<1> SUFFICES ASSUME Init PROVE IInv
  OBVIOUS
<1>1. TypeOK
  BY DEF Init, TypeOK, Dialog
<1>2. Bookkeeping /\ NoOrphanServer /\ Reachable
  BY DEF Init, Bookkeeping, NoOrphanServer, Reachable, Alive
<1>3. HideHasWindow
  BY DEF Init, HideHasWindow
<1> QED
  BY <1>1, <1>2, <1>3 DEF IInv

LEMMA Preserved == IInv /\ [Next]_vars => IInv'
<1> SUFFICES ASSUME IInv, [Next]_vars PROVE IInv'
  OBVIOUS
<1>1. CASE UNCHANGED vars
  BY <1>1 DEF vars, fixed, process, check, windows, dialogs, IInv, TypeOK, Bookkeeping,
              NoOrphanServer, HideHasWindow, Reachable, Alive
<1> QED
  BY <1>1, WindowSteps, StartSteps, QuitSteps, ServerSteps DEF Next

LEMMA Inductive == Spec => []IInv
BY Initially, Preserved, PTL DEF Spec

\* Every variable keeps its type, whatever the order of the callbacks of main.js.
THEOREM TypeCorrect == Spec => []TypeOK
<1>1. IInv => TypeOK
  BY DEF IInv
<1> QED
  BY <1>1, Inductive, PTL

\* The gateway never outlives the application: before-quit finds serverProcess set as long
\* as the process lives.
THEOREM NoOrphan == Spec => []NoOrphanServer
<1>1. IInv => NoOrphanServer
  BY DEF IInv
<1> QED
  BY <1>1, Inductive, PTL

\* The close handler always has a window to hide, however many windows were created.
THEOREM HideTheorem == Spec => []HideHasWindow
<1>1. IInv => HideHasWindow
  BY DEF IInv
<1> QED
  BY <1>1, Inductive, PTL

\* After start-up there is a tray icon or a dialog, or the application is quitting.
THEOREM ReachableTheorem == Spec => []Reachable
<1>1. IInv => Reachable
  BY DEF IInv
<1> QED
  BY <1>1, Inductive, PTL

=============================================================================
