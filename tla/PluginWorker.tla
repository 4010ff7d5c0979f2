---------------------------- MODULE PluginWorker ----------------------------
(***************************************************************************)
(* One run of a plugin (src/src/pluginWorker.js, pluginWorkerThread.js): the *)
(* caller waits for a promise, the plugin runs in a worker thread, a timer   *)
(* runs beside it.  What the thread sends, its errors and its exit become    *)
(* events of the caller's loop; Node keeps messages in order, lets an error  *)
(* overtake them, and reports the exit after both.                           *)
(*                                                                           *)
(* A message is either one the caller accepts or one it quarantines; which   *)
(* of the limits it breaks is left out.  What a plugin throws is an error    *)
(* with a message, which the caller reads.                                   *)
(***************************************************************************)
EXTENDS Integers, Sequences

CONSTANTS
    ExitCodes,  \* the codes a plugin may pass to process.exit
    MaxPosts    \* bound of the messages a thread posts

Message == {"sound", "unsound"}
Outcome == {"ok", "quarantined", "crashed", "timeout"}

NoExit == -1

ASSUME WorkerAssumption == ExitCodes \subseteq Nat /\ MaxPosts \in Nat \ {0}

VARIABLES
    thread,   \* "unborn", "analyzing", "returned" (analyze is over), "gone"
    mail,     \* messages on their way to the caller
    fault,    \* an error event on its way
    exitCode, \* the exit code on its way, or NoExit
    timer,    \* "unset", "armed", "fired" or "cleared"
    promise,  \* what the promise was resolved with, or "pending"
    posted    \* history: every message the thread posted

workerVars == <<thread, mail, fault, exitCode, timer, promise, posted>>

-----------------------------------------------------------------------------
(* The thread: pluginWorkerThread.js around code of which nothing is known *)

Runs == thread \in {"analyzing", "returned"}

Sends(message) ==
    /\ Len(posted) < MaxPosts
    /\ mail' = Append(mail, message)
    /\ posted' = Append(posted, message)

Dies(code) ==
    /\ thread' = "gone"
    /\ exitCode' = code

\* analyze returned or threw: its findings, or the error, are posted.
Returns ==
    /\ thread = "analyzing"
    /\ \E message \in Message : Sends(message)
    /\ thread' = "returned"
    /\ UNCHANGED <<fault, exitCode, timer, promise>>

\* The plugin takes parentPort from node:worker_threads and posts on its own.
Posts ==
    /\ Runs
    /\ Len(posted) < MaxPosts - 1
    /\ \E message \in Message : Sends(message)
    /\ UNCHANGED <<thread, fault, exitCode, timer, promise>>

\* An exception outside analyze, or a resource limit.
Breaks ==
    /\ Runs
    /\ fault' = TRUE
    /\ Dies(1)
    /\ UNCHANGED <<mail, timer, promise, posted>>

Exits ==
    /\ Runs
    /\ \E code \in ExitCodes : Dies(code)
    /\ UNCHANGED <<mail, fault, timer, promise, posted>>

\* Nothing keeps the thread's loop alive: after analyze it ends well, in the
\* middle of a promise that can no longer settle Node ends it with 13.
Drains ==
    /\ Runs
    /\ Dies(IF thread = "returned" THEN 0 ELSE 13)
    /\ UNCHANGED <<mail, fault, timer, promise, posted>>

-----------------------------------------------------------------------------
(* The caller: runPluginIsolated *)

\* A manifest or a path that is refused never gets as far as this.
Starts ==
    /\ thread = "unborn"
    /\ thread' = "analyzing"
    /\ timer' = "armed"
    /\ UNCHANGED <<mail, fault, exitCode, promise, posted>>

Finishes(result) == promise' = IF promise = "pending" THEN result ELSE promise

Clears == timer' = IF timer = "armed" THEN "cleared" ELSE timer

\* worker.terminate() ends a running thread with code 1.
Fires ==
    /\ timer = "armed"
    /\ timer' = "fired"
    /\ Finishes("timeout")
    /\ IF Runs THEN Dies(1) ELSE UNCHANGED <<thread, exitCode>>
    /\ UNCHANGED <<mail, fault, posted>>

\* Mutant: a malformed message is passed over.
Hears_Patient ==
    /\ mail # <<>>
    /\ mail' = Tail(mail)
    /\ Clears
    /\ IF Head(mail) = "sound" THEN Finishes("ok") ELSE UNCHANGED promise
    /\ UNCHANGED <<thread, fault, exitCode, posted>>

Hears ==
    /\ mail # <<>>
    /\ mail' = Tail(mail)
    /\ Clears
    /\ Finishes(IF Head(mail) = "sound" THEN "ok" ELSE "quarantined")
    /\ UNCHANGED <<thread, fault, exitCode, posted>>

SeesError ==
    /\ fault
    /\ fault' = FALSE
    /\ Clears
    /\ Finishes("crashed")
    /\ UNCHANGED <<thread, mail, exitCode, posted>>

\* Mutant: every exit only clears the timer.
SeesExit_Quiet ==
    /\ exitCode # NoExit /\ mail = <<>> /\ ~fault
    /\ exitCode' = NoExit
    /\ Clears
    /\ UNCHANGED <<thread, mail, fault, promise, posted>>

SeesExit ==
    /\ exitCode # NoExit /\ mail = <<>> /\ ~fault
    /\ exitCode' = NoExit
    /\ Clears
    /\ IF exitCode # 0 THEN Finishes("crashed") ELSE UNCHANGED promise
    /\ UNCHANGED <<thread, mail, fault, posted>>

Caller == Starts \/ Fires \/ Hears \/ SeesError \/ SeesExit
Plugin == Returns \/ Posts \/ Breaks \/ Exits \/ Drains

-----------------------------------------------------------------------------
WorkerInit ==
    /\ thread = "unborn" /\ timer = "unset"
    /\ mail = <<>> /\ posted = <<>>
    /\ fault = FALSE /\ exitCode = NoExit /\ promise = "pending"

WorkerNext == Plugin \/ Caller

WorkerSpec == WorkerInit /\ [][WorkerNext]_workerVars

\* Node runs the caller's loop.  Nothing is assumed of the plugin.
FairWorkerSpec == WorkerSpec /\ WF_workerVars(Starts) /\ WF_workerVars(Fires) /\ WF_workerVars(Hears \/ SeesError \/ SeesExit)
-----------------------------------------------------------------------------
(* What a run must guarantee *)

\* Every variable has its type.
WorkerTypeOK ==
    /\ thread \in {"unborn", "analyzing", "returned", "gone"}
    /\ mail \in Seq(Message) /\ posted \in Seq(Message)
    /\ fault \in BOOLEAN
    /\ exitCode \in Nat \cup {NoExit}
    /\ timer \in {"unset", "armed", "fired", "cleared"}
    /\ promise \in Outcome \cup {"pending"}

\* Whatever else a plugin posts, and however it ends, a result that is reported is
\* the verdict on the first message it posted (worker.on('message')).
FirstMessageDecides ==
    promise \in {"ok", "quarantined"} =>
        posted # <<>> /\ (promise = "ok" <=> Head(posted) = "sound")

\* The promise is settled, whatever the plugin does ("crashes, malformed output, and
\* limit breaches become quarantined results", docs/plugin-workers.md:5).
Settles == thread = "analyzing" ~> promise # "pending"

\* "The manifest timeout terminates it" (docs/plugin-workers.md:5): every thread
\* comes to its end.
ThreadStops == thread = "analyzing" ~> thread = "gone"
=============================================================================
