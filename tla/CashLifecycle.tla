---------------------------- MODULE CashLifecycle ----------------------------
(***************************************************************************)
(* The start-up and shutdown of the Qt client (src/qt/cash.cpp).           *)
(*                                                                         *)
(* Two threads talk through queued signal connections:                     *)
(*  - the GUI thread runs main(): it creates the window, requests          *)
(*    initialisation, runs the event loop (exec #1), requests shutdown,    *)
(*    runs the event loop again (exec #2) and destroys CashApplication,    *)
(*    whose destructor emits stopThread and waits for the core thread;     *)
(*  - the core thread runs the CashCore slots initialize, shutdown and     *)
(*    restart one at a time, in the order they were queued.                *)
(* guiQ holds the signals queued to the GUI thread, coreQ the slots queued *)
(* to the core thread. QCoreApplication::quit only leaves an event loop    *)
(* that is running; called between the two loops it is lost.              *)
(*                                                                         *)
(* The environment may request a shutdown at any time (StartShutdown from  *)
(* a signal handler, the RPC "stop" or the splash screen), the user may    *)
(* quit from the window and may click a restart button while the window   *)
(* is shown. Node start-up and shutdown are abstracted to their outcome.  *)
(***************************************************************************)
EXTENDS Integers, Sequences, CashTranslations

CONSTANT MAX_RESTART_CLICKS   \* bound on the user's restart clicks

ASSUME MAX_RESTART_CLICKS \in Nat

VARIABLES
    main,              \* where main() is on the GUI thread
    guiQ,              \* signals queued from the core thread to the GUI thread
    coreQ,             \* slots queued to the core thread
    corePc,            \* "idle", "restart_quit" (inside restart) or "finished"
    coreThread,        \* CashApplication::coreThread has been created
    stopThread,        \* stopThread was emitted: the core event loop must end
    executing_restart, \* the static flag of CashCore::restart
    returnValue,       \* CashApplication::returnValue
    exitCode,          \* the process exit status, NoCode while running
    windowShown,       \* the main window is visible
    pollActive,        \* pollShutdownTimer is running
    shutdownRequested, \* the StartShutdown() flag
    node,              \* what the core has done to the node
    initOutcome,       \* the result of CashCore::initialize (history)
    launched,          \* new instances started by QProcess::startDetached
    clicks,            \* restart clicks so far
    locale,            \* the locale inputs of main (system, QSettings, -lang, files)
    translators        \* the application's installed translators, in search order

vars == <<main, guiQ, coreQ, corePc, coreThread, stopThread, executing_restart,
          returnValue, exitCode, windowShown, pollActive, shutdownRequested,
          node, initOutcome, launched, clicks, locale, translators>>

NoCode == -1

Loops == {"exec1", "exec2"}

MainPcs == {"setup", "exec1", "after1", "exec2", "after2", "waiting",
            "exited", "killed"}

CoreSlots == {"initialize", "shutdown", "restart"}

GuiEvent == [slot : {"initializeResult"}, retval : {0, 1}]
              \cup [slot : {"shutdownResult", "runawayException"}]

NodeStates == {"down", "running", "failed", "prepared", "shutdown"}

\* Emitting a signal over a queued connection posts an event to the GUI thread.
EmitToGui(e) == guiQ' = Append(guiQ, e)

\* QApplication::quit(): leaves the event loop main() is running, if any.
Quit == main' = IF main = "exec1" THEN "after1" ELSE "after2"

QuitIfRunning == IF main \in Loops THEN Quit ELSE UNCHANGED main

\* The process is gone after ::exit; no thread takes another step.
Alive == main \notin {"exited", "killed"}

(***************************************************************************)
(* GUI thread: main() and the CashApplication slots.                       *)
(***************************************************************************)

\* main returns before the window exists: EXIT_SUCCESS after the help text
\* or when the user cancels the data directory dialog, EXIT_FAILURE when a
\* check fails; no core thread was started.
setupFails ==
    /\ main = "setup"
    /\ main' = "exited"
    /\ exitCode' \in {0, 1}
    /\ UNCHANGED <<locale, translators, guiQ, coreQ, corePc, coreThread, stopThread,
                   executing_restart, returnValue, windowShown, pollActive,
                   shutdownRequested, node, initOutcome, launched, clicks>>

(***************************************************************************)
(* Translations. main calls initTranslations at step 4, once QSettings is *)
(* usable, and again at step 7 after NetworkStyle has switched to the     *)
(* network's own settings, whose "language" may differ. The inputs are    *)
(* fixed for the run; files are those present in Qt's translations path   *)
(* (qtDir) and in cash.qrc (cashDir).                                      *)
(***************************************************************************)
DE_DE == <<"de", Sep, "DE">>
DE    == <<"de">>

LocaleInputs ==
    [system : {DE_DE, <<"C">>},                \* QLocale::system().name()
     settingsDefault : {<<>>, DE_DE},          \* "language" before step 7
     settingsNetwork : {<<>>, DE_DE},          \* "language" from step 7 on
     lang : {NotSet, DE},                      \* -lang
     qtDir : SUBSET {QtName(DE), QtName(DE_DE)},
     cashDir : SUBSET {DE, DE_DE}]

\* Both initTranslations calls of main, on the same four translators.
mainTranslations(l) ==
    LET first == initTranslations(<<>>,
                    GetLangTerritory(l.system, l.settingsDefault, l.lang),
                    l.qtDir, l.cashDir)
    IN  initTranslations(first,
            GetLangTerritory(l.system, l.settingsNetwork, l.lang),
            l.qtDir, l.cashDir)

\* createWindow starts the 200 ms poll timer that calls detectShutdown.
createWindow == pollActive' = TRUE

\* startThread creates the core thread once; later calls return at once.
startThread == coreThread' = TRUE

\* main: the translations of steps 4 and 7, then app.createWindow();
\* app.requestInitialize(); app.exec().
requestInitialize ==
    /\ main = "setup"
    /\ translators' = mainTranslations(locale)
    /\ createWindow
    /\ startThread
    /\ coreQ' = Append(coreQ, "initialize")
    /\ main' = "exec1"
    /\ UNCHANGED <<guiQ, corePc, stopThread, executing_restart, returnValue,
                   exitCode, windowShown, shutdownRequested, node,
                   initOutcome, launched, clicks, locale>>

\* main: app.requestShutdown(); app.exec(). The window is hidden, the poll
\* timer stopped, StartShutdown called and shutdown queued to the core.
requestShutdown ==
    /\ main = "after1"
    /\ startThread
    /\ windowShown' = FALSE
    /\ pollActive' = FALSE
    /\ shutdownRequested' = TRUE
    /\ coreQ' = Append(coreQ, "shutdown")
    /\ main' = "exec2"
    /\ UNCHANGED <<locale, translators, guiQ, corePc, stopThread, executing_restart, returnValue,
                   exitCode, node, initOutcome, launched, clicks>>

\* The head of guiQ is delivered by the running event loop.
Deliver(slot) ==
    /\ main \in Loops
    /\ guiQ # <<>>
    /\ Head(guiQ).slot = slot
    /\ guiQ' = Tail(guiQ)

\* Fault variant: the window is shown whatever the result.
initializeResultShowAlways ==
    /\ Deliver("initializeResult")
    /\ LET retval == Head(guiQ).retval IN
         /\ returnValue' = IF retval # 0 THEN 0 ELSE 1
         /\ windowShown' = TRUE
         /\ IF retval # 0 THEN UNCHANGED main ELSE Quit
    /\ UNCHANGED <<locale, translators, coreQ, corePc, coreThread, stopThread, executing_restart,
                   exitCode, pollActive, shutdownRequested, node, initOutcome,
                   launched, clicks>>

\* Fault variant: a failure leaves the exit result as it was.
initializeResultNoFailCode ==
    /\ Deliver("initializeResult")
    /\ LET retval == Head(guiQ).retval IN
         IF retval # 0
           THEN returnValue' = 0 /\ windowShown' = TRUE /\ UNCHANGED main
           ELSE Quit /\ UNCHANGED <<returnValue, windowShown>>
    /\ UNCHANGED <<locale, translators, coreQ, corePc, coreThread, stopThread, executing_restart,
                   exitCode, pollActive, shutdownRequested, node, initOutcome,
                   launched, clicks>>

\* Shows the window on success, leaves the event loop on failure.
initializeResult ==
    /\ Deliver("initializeResult")
    /\ LET retval == Head(guiQ).retval IN
         /\ returnValue' = IF retval # 0 THEN 0 ELSE 1
         /\ IF retval # 0
              THEN windowShown' = TRUE /\ UNCHANGED main
              ELSE Quit /\ UNCHANGED windowShown
    /\ UNCHANGED <<locale, translators, coreQ, corePc, coreThread, stopThread, executing_restart,
                   exitCode, pollActive, shutdownRequested, node, initOutcome,
                   launched, clicks>>

\* Fault variant: the slot forgets to leave the event loop.
shutdownResultNoQuit ==
    /\ Deliver("shutdownResult")
    /\ UNCHANGED <<locale, translators, main, coreQ, corePc, coreThread, stopThread,
                   executing_restart, returnValue, exitCode, windowShown,
                   pollActive, shutdownRequested, node, initOutcome, launched,
                   clicks>>

shutdownResult ==
    /\ Deliver("shutdownResult")
    /\ Quit
    /\ UNCHANGED <<locale, translators, coreQ, corePc, coreThread, stopThread, executing_restart,
                   returnValue, exitCode, windowShown, pollActive,
                   shutdownRequested, node, initOutcome, launched, clicks>>

\* After the message box, ::exit(EXIT_FAILURE) ends the process.
handleRunawayException ==
    /\ Deliver("runawayException")
    /\ main' = "killed"
    /\ exitCode' = 1
    /\ UNCHANGED <<locale, translators, coreQ, corePc, coreThread, stopThread, executing_restart,
                   returnValue, windowShown, pollActive, shutdownRequested,
                   node, initOutcome, launched, clicks>>

\* The poll timer's detectShutdown quits the loop once StartShutdown was
\* called.
detectShutdown ==
    /\ main \in Loops
    /\ pollActive
    /\ shutdownRequested
    /\ Quit
    /\ UNCHANGED <<locale, translators, guiQ, coreQ, corePc, coreThread, stopThread,
                   executing_restart, returnValue, exitCode, windowShown,
                   pollActive, shutdownRequested, node, initOutcome,
                   launched, clicks>>

\* main returns app.getReturnValue(); ~CashApplication emits stopThread
\* (queued deleteLater, direct QThread::quit) and waits for the thread.
destroy ==
    /\ main = "after2"
    /\ exitCode' = returnValue
    /\ stopThread' = coreThread
    /\ main' = IF coreThread THEN "waiting" ELSE "exited"
    /\ UNCHANGED <<locale, translators, guiQ, coreQ, corePc, coreThread, executing_restart,
                   returnValue, windowShown, pollActive, shutdownRequested,
                   node, initOutcome, launched, clicks>>

\* coreThread->wait() returns when the core thread has finished.
waitCore ==
    /\ main = "waiting"
    /\ corePc = "finished"
    /\ main' = "exited"
    /\ UNCHANGED <<locale, translators, guiQ, coreQ, corePc, coreThread, stopThread,
                   executing_restart, returnValue, exitCode, windowShown,
                   pollActive, shutdownRequested, node, initOutcome,
                   launched, clicks>>

(***************************************************************************)
(* Core thread: the CashCore slots, run in queue order.                     *)
(***************************************************************************)

\* The core thread takes the head of its queue.
Take(slot) ==
    /\ Alive
    /\ corePc = "idle"
    /\ coreQ # <<>>
    /\ Head(coreQ) = slot
    /\ coreQ' = Tail(coreQ)

\* AppInitBasicSetup, AppInitParameterInteraction, AppInitSanityChecks and
\* AppInitMain report a result, or throw and report a runaway exception.
initialize ==
    /\ Take("initialize")
    /\ \/ \E rv \in {0, 1} :
            /\ EmitToGui([slot |-> "initializeResult", retval |-> rv])
            /\ initOutcome' = IF rv # 0 THEN "ok" ELSE "fail"
            /\ node' = IF rv # 0 THEN "running" ELSE "failed"
       \/ /\ EmitToGui([slot |-> "runawayException"])
          /\ initOutcome' = "throw"
          /\ node' = "failed"
    /\ UNCHANGED <<locale, translators, main, corePc, coreThread, stopThread, executing_restart,
                   returnValue, exitCode, windowShown, pollActive,
                   shutdownRequested, launched, clicks>>

\* Interrupt, join_all, Shutdown, then shutdownResult(1); or a runaway
\* exception.
shutdown ==
    /\ Take("shutdown")
    /\ \/ /\ node' = "shutdown"
          /\ EmitToGui([slot |-> "shutdownResult"])
       \/ /\ EmitToGui([slot |-> "runawayException"])
          /\ UNCHANGED node
    /\ UNCHANGED <<locale, translators, main, corePc, coreThread, stopThread, executing_restart,
                   returnValue, exitCode, windowShown, pollActive,
                   shutdownRequested, initOutcome, launched, clicks>>

\* Runs once: Interrupt, join_all, StartRestart, PrepareShutdown,
\* shutdownResult(1), startDetached of the new instance; QApplication::quit
\* is the next step (restartQuit). Later calls do nothing.
restart ==
    /\ Take("restart")
    /\ IF executing_restart
         THEN UNCHANGED <<guiQ, corePc, executing_restart, node, launched>>
         ELSE /\ executing_restart' = TRUE
              /\ \/ /\ node' = "prepared"
                    /\ EmitToGui([slot |-> "shutdownResult"])
                    /\ launched' = launched + 1
                    /\ corePc' = "restart_quit"
                 \/ /\ EmitToGui([slot |-> "runawayException"])
                    /\ UNCHANGED <<corePc, node, launched>>
    /\ UNCHANGED <<locale, translators, main, coreThread, stopThread, returnValue, exitCode,
                   windowShown, pollActive, shutdownRequested, initOutcome,
                   clicks>>

\* The last statement of restart: QApplication::quit() from the core thread.
restartQuit ==
    /\ Alive
    /\ corePc = "restart_quit"
    /\ corePc' = "idle"
    /\ QuitIfRunning
    /\ UNCHANGED <<locale, translators, guiQ, coreQ, coreThread, stopThread, executing_restart,
                   returnValue, exitCode, windowShown, pollActive,
                   shutdownRequested, node, initOutcome, launched, clicks>>

\* QThread::quit ends the core event loop before its next round of events:
\* slots queued but not yet started are dropped with the thread.
coreExit ==
    /\ Alive
    /\ stopThread
    /\ corePc = "idle"
    /\ corePc' = "finished"
    /\ coreQ' = <<>>
    /\ UNCHANGED <<locale, translators, main, guiQ, coreThread, stopThread, executing_restart,
                   returnValue, exitCode, windowShown, pollActive,
                   shutdownRequested, node, initOutcome, launched, clicks>>

(***************************************************************************)
(* Environment.                                                            *)
(***************************************************************************)

\* StartShutdown from a signal handler, the RPC "stop" or the splash screen.
RequestStop ==
    /\ Alive
    /\ ~shutdownRequested
    /\ shutdownRequested' = TRUE
    /\ UNCHANGED <<locale, translators, main, guiQ, coreQ, corePc, coreThread, stopThread,
                   executing_restart, returnValue, exitCode, windowShown,
                   pollActive, node, initOutcome, launched, clicks>>

\* The window's quit action calls QApplication::quit.
UserQuit ==
    /\ windowShown
    /\ main \in Loops
    /\ Quit
    /\ UNCHANGED <<locale, translators, guiQ, coreQ, corePc, coreThread, stopThread,
                   executing_restart, returnValue, exitCode, windowShown,
                   pollActive, shutdownRequested, node, initOutcome,
                   launched, clicks>>

\* A restart button of the window emits requestedRestart, connected to
\* CashCore::restart by startThread.
UserRestart ==
    /\ windowShown
    /\ main \in Loops
    /\ clicks < MAX_RESTART_CLICKS
    /\ clicks' = clicks + 1
    /\ coreQ' = Append(coreQ, "restart")
    /\ UNCHANGED <<locale, translators, main, guiQ, corePc, coreThread, stopThread,
                   executing_restart, returnValue, exitCode, windowShown,
                   pollActive, shutdownRequested, node, initOutcome,
                   launched>>

(***************************************************************************)
(* The specification.                                                      *)
(***************************************************************************)

\* The members CashApplication's constructor sets, before main goes on.
Init ==
    /\ main = "setup"
    /\ guiQ = <<>>
    /\ coreQ = <<>>
    /\ corePc = "idle"
    /\ coreThread = FALSE
    /\ stopThread = FALSE
    /\ executing_restart = FALSE
    /\ returnValue = 0
    /\ exitCode = NoCode
    /\ windowShown = FALSE
    /\ pollActive = FALSE
    /\ shutdownRequested = FALSE
    /\ node = "down"
    /\ initOutcome = "none"
    /\ launched = 0
    /\ clicks = 0
    /\ locale \in LocaleInputs
    /\ translators = <<>>

GuiStep ==
    \/ setupFails
    \/ requestInitialize
    \/ requestShutdown
    \/ initializeResult
    \/ shutdownResult
    \/ handleRunawayException
    \/ detectShutdown
    \/ destroy
    \/ waitCore

CoreStep ==
    \/ initialize
    \/ shutdown
    \/ restart
    \/ restartQuit
    \/ coreExit

Next ==
    \/ GuiStep
    \/ CoreStep
    \/ RequestStop
    \/ UserQuit
    \/ UserRestart

\* Both threads keep running and the poll timer keeps firing; the user and
\* the outside world owe nothing.
Fairness ==
    /\ WF_vars(requestInitialize) /\ WF_vars(requestShutdown)
    /\ WF_vars(initializeResult) /\ WF_vars(shutdownResult)
    /\ WF_vars(handleRunawayException) /\ WF_vars(detectShutdown)
    /\ WF_vars(destroy) /\ WF_vars(waitCore)
    /\ WF_vars(CoreStep)

Spec == Init /\ [][Next]_vars /\ Fairness

(***************************************************************************)
(* Properties.                                                             *)
(***************************************************************************)

\* Types, and one well-formedness fact: initializeResult only shows the main
\* window for a successful result, which also sets the exit result to 0.
TypeOK ==
    /\ main \in MainPcs
    /\ guiQ \in Seq(GuiEvent)
    /\ coreQ \in Seq(CoreSlots)
    /\ corePc \in {"idle", "restart_quit", "finished"}
    /\ {coreThread, stopThread, executing_restart, windowShown, pollActive,
        shutdownRequested} \subseteq BOOLEAN
    /\ returnValue \in {0, 1}
    /\ exitCode \in {NoCode, 0, 1}
    /\ node \in NodeStates
    /\ initOutcome \in {"none", "ok", "fail", "throw"}
    /\ launched \in Nat /\ clicks \in 0..MAX_RESTART_CLICKS
    /\ windowShown => returnValue = 0
    /\ locale \in LocaleInputs
    /\ translators \in Seq([tr : {Translators[i] : i \in 1..4},
                            file : Seq(STRING)])

\* The exit status main returns (getReturnValue) is 0 exactly when
\* CashCore::initialize succeeded, whatever order the initialize result,
\* a shutdown request, a restart and the user's quit reach the GUI thread in.
ExitCodeReflectsInit ==
    main = "exited" /\ coreThread => (exitCode = 0 <=> initOutcome = "ok")

\* Once StartShutdown was called (by the GUI's requestShutdown or from
\* outside), the process ends: the second event loop is left and the
\* destructor's wait for the core thread returns, or the process exits
\* through handleRunawayException.
ShutdownCompletes == shutdownRequested ~> ~Alive

\* requestShutdown hides the main window and shows the shutdown window in its
\* place: from then on the main window stays hidden.
WindowHiddenAfterShutdownRequest ==
    main \in {"exec2", "after2", "waiting", "exited"} => ~windowShown

\* When main returns normally after starting the core thread, the node has
\* been shut down by CashCore::shutdown (Shutdown) or CashCore::restart
\* (PrepareShutdown): the second exec() is there to wait for shutdownResult.
NodeShutDownBeforeExit ==
    main = "exited" /\ coreThread => node \in {"shutdown", "prepared"}

\* The locale the GUI is meant to use: -lang, else the network's own
\* QSettings "language", else the system locale; and the file of it that
\* should answer: the locale's own file if there is one, else the file of
\* its language. (A locale here is a language with an optional territory.)
ChosenLocale ==
    IF locale.lang # NotSet THEN locale.lang
    ELSE IF locale.settingsNetwork # <<>> THEN locale.settingsNetwork
    ELSE locale.system

MostSpecificFile(loc, dir, Name(_)) ==
    IF Name(loc) \in dir THEN Name(loc)
    ELSE IF Name(<<Head(loc)>>) \in dir THEN Name(<<Head(loc)>>)
    ELSE NoFile

CashName(loc) == loc

\* Once main has created the window, both the strings of Qt and the "cash"
\* strings (Translate) are answered by the most specific file of the chosen
\* locale: the step-7 re-initialisation replaces what step 4 chose from the
\* default settings, the base-language file never shadows the territory
\* file, and a locale without a territory ("de", where lastIndexOf is -1
\* and lang is truncated to "") is still found.
TranslationsFollowLocale ==
    coreThread =>
        /\ translate(translators, QtTranslators)
                = MostSpecificFile(ChosenLocale, locale.qtDir, QtName)
        /\ translate(translators, {Translators[3], Translators[4]})
                = MostSpecificFile(ChosenLocale, locale.cashDir, CashName)

=============================================================================
