---------------------------- MODULE DesktopShell ----------------------------
(***************************************************************************)
(* The desktop application (electron/main.js): it starts the gateway as a  *)
(* child process, waits until something answers on its port, shows a window*)
(* and a tray icon, and takes the gateway down when it quits.              *)
(*                                                                         *)
(* The main process runs one callback at a time, and each action is one    *)
(* callback with the promise reactions that follow it at once.  The user,  *)
(* the gateway process and the timers decide their order.  What Electron   *)
(* and Node do themselves is taken from their documented behaviour:        *)
(* app.quit() asks every window to close unless before-quit was prevented, *)
(* app.exit() asks nobody; a request destroyed in its timeout handler emits*)
(* error as well; a binary that cannot be spawned emits error, then close. *)
(***************************************************************************)
EXTENDS Naturals

CONSTANTS
    Win,          \* windows that may exist at once
    Null,         \* mainWindow was destroyed
    Undefined,    \* mainWindow was never assigned
    MaxRetries    \* maxRetries of checkServerAvailability

ASSUME WinAssumption == Null \notin Win /\ Undefined \notin Win /\ Null # Undefined
ASSUME RetryAssumption == MaxRetries \in Nat \ {0}

VARIABLES
    dev,          \* NODE_ENV === 'development': no child process
    other,        \* another program answers on the port (in development, the Vite server)
    app,          \* "launching", "starting", "up", "failed" or "exited"
    isQuitting,   \* app.isQuitting
    server,       \* the child process, and "closed" once its close event was delivered
    code,         \* the exit code it has then: "zero", "error" or "signal"
    serverProcess,\* whether the variable holds a process
    shutting,     \* before-quit has set its timer and added its close listener
    currentAttempt,
    asking,       \* requests of checkServerAvailability under way
    waiting,      \* retries of it that are scheduled
    live,         \* windows that exist
    visible,      \* those on the screen
    mainWindow,
    tray,         \* whether the tray icon exists
    startDialog,  \* "none", "ask" (quit or see the log) or "log" (saved; quit)
    crashDialog

check   == <<currentAttempt, asking, waiting>>
windows == <<live, visible, mainWindow>>
dialogs == <<startDialog, crashDialog>>
process == <<server, code, serverProcess, shutting>>
fixed   == <<dev, other>>
vars    == <<fixed, app, isQuitting, process, check, windows, tray, dialogs>>

Running == app \notin {"launching", "exited"}
Alive   == server \in {"booting", "serving"}

\* Something accepts connections on the port that is checked.
Listening == other \/ server = "serving"

Init ==
    /\ dev \in BOOLEAN /\ other \in BOOLEAN
    /\ app = "launching" /\ isQuitting = FALSE
    /\ server = "none" /\ code = "zero" /\ serverProcess = FALSE /\ shutting = FALSE
    /\ currentAttempt = 0 /\ asking = 0 /\ waiting = 0
    /\ live = {} /\ visible = {} /\ mainWindow = Undefined /\ tray = FALSE
    /\ startDialog = "none" /\ crashDialog = "none"

-----------------------------------------------------------------------------
(* Windows *)

createWindow ==
    \E w \in Win \ live :
        /\ live' = live \union {w} /\ visible' = visible \union {w}
        /\ mainWindow' = w

\* The close event of window w: hidden instead, as long as the application is not quitting.
\* What is hidden is mainWindow, whichever window it is.
CloseAnyway(w) ==
    /\ live' = live \ {w} /\ visible' = visible \ {w} /\ mainWindow' = Null
CloseKeepingRef(w) ==
    IF isQuitting
    THEN live' = live \ {w} /\ visible' = visible \ {w} /\ UNCHANGED mainWindow
    ELSE visible' = visible \ {mainWindow} /\ UNCHANGED <<live, mainWindow>>
Close(w) ==
    IF isQuitting
    THEN live' = live \ {w} /\ visible' = visible \ {w} /\ mainWindow' = Null
    ELSE visible' = visible \ {mainWindow} /\ UNCHANGED <<live, mainWindow>>

UserCloses(w) ==
    /\ Running /\ w \in visible
    /\ Close(w)
    /\ UNCHANGED <<fixed, app, isQuitting, process, check, tray, dialogs>>

\* The tray menu's Show, and a click on the icon, which hides a window that is shown.
TrayShows ==
    /\ Running /\ tray
    /\ IF mainWindow = Null
       THEN createWindow
       ELSE /\ UNCHANGED <<live, mainWindow>>
            /\ \/ visible' = visible \union {mainWindow}
               \/ mainWindow \in visible /\ visible' = visible \ {mainWindow}
    /\ UNCHANGED <<fixed, app, isQuitting, process, check, tray, dialogs>>

\* activate (the dock icon): also while the gateway is still starting.
Activate ==
    /\ Running /\ live = {}
    /\ createWindow
    /\ UNCHANGED <<fixed, app, isQuitting, process, check, tray, dialogs>>

-----------------------------------------------------------------------------
(* Start-up *)

\* whenReady: startServer spawns the binary, which may not be there, and both modes send
\* the first request of checkServerAvailability.
startServer ==
    /\ app = "launching"
    /\ app' = "starting"
    /\ IF dev THEN UNCHANGED <<server, serverProcess>>
              ELSE server' \in {"booting", "missing"} /\ serverProcess' = TRUE
    /\ currentAttempt' = 1 /\ asking' = 1 /\ waiting' = 0
    /\ UNCHANGED <<fixed, isQuitting, code, shutting, windows, tray, dialogs>>

\* The promise of startServer is rejected: the catch of whenReady shows a dialog.  Once it
\* is settled this does nothing.
Reject ==
    IF app = "starting"
    THEN app' = "failed" /\ startDialog' = "ask"
    ELSE UNCHANGED <<app, startDialog>>

\* The promise is resolved: createTray, createWindow.
Resolve ==
    IF app = "starting"
    THEN app' = "up" /\ tray' = TRUE /\ createWindow
    ELSE UNCHANGED <<app, tray, windows>>

\* The error event of a binary that could not be spawned; its close event is next.
SpawnError ==
    /\ Running /\ server = "missing"
    /\ server' = "dead" /\ code' = "error"
    /\ Reject
    /\ UNCHANGED <<fixed, isQuitting, serverProcess, shutting, check, windows, tray, crashDialog>>

tryConnect ==
    /\ Running /\ waiting > 0
    /\ waiting' = waiting - 1 /\ asking' = asking + 1
    /\ currentAttempt' = currentAttempt + 1
    /\ UNCHANGED <<fixed, app, isQuitting, process, windows, tray, dialogs>>

Connected ==
    /\ Running /\ asking > 0 /\ Listening
    /\ asking' = asking - 1
    /\ Resolve
    /\ UNCHANGED <<fixed, isQuitting, process, currentAttempt, waiting, dialogs>>

\* A request that failed is tried again n times over, up to the limit of attempts.
RetryForEver(n) ==
    IF currentAttempt >= MaxRetries THEN UNCHANGED <<waiting, app, startDialog>>
    ELSE waiting' = waiting + n /\ UNCHANGED <<app, startDialog>>
Retry(n) ==
    IF currentAttempt >= MaxRetries
    THEN Reject /\ UNCHANGED waiting
    ELSE waiting' = waiting + n /\ UNCHANGED <<app, startDialog>>

\* Refused, or reset.
ConnectFails ==
    /\ Running /\ asking > 0
    /\ asking' = asking - 1
    /\ Retry(1)
    /\ UNCHANGED <<fixed, isQuitting, process, currentAttempt, windows, tray, crashDialog>>

\* Accepted, and no answer in ten seconds: timeout and error each schedule a retry.
ConnectTimesOut ==
    /\ Running /\ asking > 0 /\ Listening
    /\ asking' = asking - 1
    /\ Retry(2)
    /\ UNCHANGED <<fixed, isQuitting, process, currentAttempt, windows, tray, crashDialog>>

-----------------------------------------------------------------------------
(* Quitting *)

\* app.quit() once app.isQuitting is q.  before-quit prevents it while there is a process,
\* sends SIGTERM and sets a timer.  Otherwise every window is asked to close.
Quit(q) ==
    IF serverProcess
    THEN shutting' = TRUE /\ UNCHANGED <<app, visible>>
    ELSE /\ UNCHANGED shutting
         /\ IF q \/ live = {} THEN app' = "exited" /\ UNCHANGED visible
                              ELSE visible' = visible \ {mainWindow} /\ UNCHANGED app

TrayQuits ==
    /\ Running /\ tray
    /\ isQuitting' = TRUE
    /\ Quit(TRUE)
    /\ UNCHANGED <<fixed, server, code, serverProcess, check, live, mainWindow, tray, dialogs>>

\* Quit from the system's menu or at log-out, which sets no flag; also before whenReady.
SystemQuits ==
    /\ app # "exited"
    /\ Quit(isQuitting)
    /\ UNCHANGED <<fixed, isQuitting, server, code, serverProcess, check, live, mainWindow,
                   tray, dialogs>>

\* The five seconds of before-quit are over.
KillTimerOnlyExits ==
    /\ Running /\ shutting
    /\ app' = "exited"
    /\ UNCHANGED <<fixed, isQuitting, process, check, windows, tray, dialogs>>
KillTimerOnlyKills ==
    /\ Running /\ shutting /\ Alive
    /\ server' = "dead" /\ code' = "signal"
    /\ UNCHANGED <<fixed, app, isQuitting, serverProcess, shutting, check, windows, tray, dialogs>>
KillTimer ==
    /\ Running /\ shutting
    /\ IF serverProcess /\ Alive THEN server' = "dead" /\ code' = "signal"
                                 ELSE UNCHANGED <<server, code>>
    /\ app' = "exited"
    /\ UNCHANGED <<fixed, isQuitting, serverProcess, shutting, check, windows, tray, dialogs>>

\* The close event of the child process.  startServer's listener reports an error code and
\* closes the window otherwise; the listener of before-quit ends the application.
ServerClosesForgotten ==
    /\ Running /\ server = "dead"
    /\ server' = "closed"
    /\ IF code = "error"
       THEN crashDialog' = "ask" /\ UNCHANGED windows
       ELSE /\ UNCHANGED crashDialog
            /\ IF mainWindow \in live THEN Close(mainWindow) ELSE UNCHANGED windows
    /\ serverProcess' = FALSE
    /\ IF shutting THEN app' = "exited" ELSE UNCHANGED app
    /\ UNCHANGED <<fixed, isQuitting, code, shutting, check, tray, startDialog>>
ServerCloses ==
    /\ Running /\ server = "dead"
    /\ server' = "closed"
    /\ IF code = "error"
       THEN crashDialog' = "ask" /\ UNCHANGED windows
       ELSE /\ UNCHANGED crashDialog
            /\ IF mainWindow \in live THEN Close(mainWindow) ELSE UNCHANGED windows
    /\ IF shutting THEN serverProcess' = FALSE /\ app' = "exited"
                   ELSE UNCHANGED <<serverProcess, app>>
    /\ UNCHANGED <<fixed, isQuitting, code, shutting, check, tray, startDialog>>

\* The two dialogs: quit, or save the log and confirm.  Only the crash dialog sets the flag.
StartDialogAnswered ==
    /\ Running /\ startDialog # "none"
    /\ \/ startDialog = "ask" /\ startDialog' = "log" /\ UNCHANGED <<app, shutting, visible>>
       \/ startDialog' = "none" /\ Quit(isQuitting)
    /\ UNCHANGED <<fixed, isQuitting, server, code, serverProcess, check, live, mainWindow,
                   tray, crashDialog>>

CrashDialogAnswered ==
    /\ Running /\ crashDialog # "none"
    /\ \/ crashDialog = "ask" /\ crashDialog' = "log"
          /\ UNCHANGED <<app, isQuitting, shutting, visible>>
       \/ crashDialog' = "none" /\ isQuitting' = TRUE /\ Quit(TRUE)
    /\ UNCHANGED <<fixed, server, code, serverProcess, check, live, mainWindow, tray, startDialog>>

-----------------------------------------------------------------------------
(* The gateway process and the port *)

\* The gateway listens; with the port taken it cannot.
ServerListens ==
    /\ server = "booting" /\ ~other
    /\ server' = "serving"
    /\ UNCHANGED <<fixed, app, isQuitting, code, serverProcess, shutting, check, windows,
                   tray, dialogs>>

\* It ends: by itself, by a crash or by a signal, of ours or not.
ServerDies ==
    /\ Alive
    /\ server' = "dead" /\ code' \in {"zero", "error", "signal"}
    /\ UNCHANGED <<fixed, app, isQuitting, serverProcess, shutting, check, windows, tray, dialogs>>

OtherStarts ==
    /\ ~other /\ server # "serving" /\ other' = TRUE
    /\ UNCHANGED <<dev, app, isQuitting, process, check, windows, tray, dialogs>>

Check == tryConnect \/ Connected \/ ConnectFails \/ ConnectTimesOut

Next ==
    \/ startServer \/ SpawnError \/ Check \/ KillTimer \/ ServerCloses
    \/ TrayShows \/ TrayQuits \/ SystemQuits \/ Activate
    \/ StartDialogAnswered \/ CrashDialogAnswered
    \/ ServerListens \/ ServerDies \/ OtherStarts
    \/ \E w \in Win : UserCloses(w)

Spec == Init /\ [][Next]_vars

(***************************************************************************)
(* Fairness.  Timers fire, a request ends (it has a timeout), and events   *)
(* are delivered.  Nothing is assumed of the user or of the gateway: it may*)
(* never listen, and may ignore SIGTERM.                                   *)
(***************************************************************************)
Fairness ==
    /\ WF_vars(startServer) /\ WF_vars(SpawnError) /\ WF_vars(Check)
    /\ WF_vars(KillTimer) /\ WF_vars(ServerCloses)

FairSpec == Spec /\ Fairness

-----------------------------------------------------------------------------
(* Properties *)

Dialog == {"none", "ask", "log"}

\* Every variable keeps its type.
TypeOK ==
    /\ dev \in BOOLEAN /\ other \in BOOLEAN /\ isQuitting \in BOOLEAN /\ tray \in BOOLEAN
    /\ app \in {"launching", "starting", "up", "failed", "exited"}
    /\ server \in {"none", "missing", "booting", "serving", "dead", "closed"}
    /\ code \in {"zero", "error", "signal"}
    /\ serverProcess \in BOOLEAN /\ shutting \in BOOLEAN
    /\ currentAttempt \in Nat /\ asking \in Nat /\ waiting \in Nat
    /\ live \subseteq Win /\ visible \subseteq live
    /\ mainWindow \in live \union {Null, Undefined}
    /\ startDialog \in Dialog /\ crashDialog \in Dialog

\* The gateway never outlives the application: whichever way it was asked to quit, and
\* although the gateway may ignore SIGTERM, no process is left behind that would keep the
\* port and the database of the next start.
NoOrphanServer == app = "exited" => ~Alive

\* The close handler of a window hides mainWindow, which is then a window that exists, also
\* when a second window was created before start-up ended.
HideHasWindow == live # {} /\ ~isQuitting => mainWindow \in live

\* Outside of development the user is never left without a way to the application: after
\* start-up there is a tray icon or a dialog, or it is about to exit.
Reachable ==
    app \in {"up", "failed"} /\ ~dev => tray \/ startDialog # "none" \/ shutting

\* Who chose to quit, in the tray or a dialog, or by a quit that found a gateway to take
\* down, sees the application exit, also when the gateway crashed before and its close
\* event does not come again.
QuitExits == isQuitting \/ shutting ~> app = "exited"

\* Start-up comes to an end: the attempts run out although each timeout starts two.
StartupEnds == app = "starting" ~> app # "starting"

=============================================================================
