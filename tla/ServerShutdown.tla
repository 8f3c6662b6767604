--------------------------- MODULE ServerShutdown ---------------------------
(***************************************************************************)
(* Control-C.  The handler of SIGINT runs on top of the server's only      *)
(* thread, wherever that thread happens to be, and takes the lock that     *)
(* every handler of a connection takes around its work on the sheets.      *)
(***************************************************************************)
VARIABLES
  thread,  \* where the thread is when no signal handler is on top of it:
           \* "waiting" in io.run, "handling", or "locked" (holding the lock)
  lock,    \* who holds sheetChange: "free", "thread" or "signal"
  signal   \* "none", or where signalHandle is: "closing", "locked",
           \* "stopping" or "exited"

vars == <<thread, lock, signal>>

Init ==
  /\ thread = "waiting"
  /\ lock = "free"
  /\ signal = "none"

-----------------------------------------------------------------------------
(* The thread, as long as it is not interrupted: io.run waits for a socket *)
(* and calls its handler, which locks sheetChange once or more often.      *)

Begin ==
  /\ signal = "none" /\ thread = "waiting"
  /\ thread' = "handling"
  /\ UNCHANGED <<lock, signal>>

Lock ==
  /\ signal = "none" /\ thread = "handling" /\ lock = "free"
  /\ thread' = "locked"
  /\ lock' = "thread"
  /\ UNCHANGED signal

Unlock ==
  /\ signal = "none" /\ thread = "locked"
  /\ thread' = "handling"
  /\ lock' = "free"
  /\ UNCHANGED signal

Finish ==
  /\ signal = "none" /\ thread = "handling"
  /\ thread' = "waiting"
  /\ UNCHANGED <<lock, signal>>

Thread == Begin \/ Lock \/ Unlock \/ Finish

-----------------------------------------------------------------------------
(* signalHandle.                                                           *)

Interrupt ==
  /\ signal = "none"
  /\ signal' = "closing"
  /\ UNCHANGED <<thread, lock>>

\* server::close locks, and waits as long as the lock is held.
CloseLock ==
  /\ signal = "closing" /\ lock = "free"
  /\ signal' = "locked"
  /\ lock' = "signal"
  /\ UNCHANGED thread

CloseUnlock ==
  /\ signal = "locked"
  /\ signal' = "stopping"
  /\ lock' = "free"
  /\ UNCHANGED thread

\* serverClose stops io_service, and signalHandle calls exit.
Exit ==
  /\ signal = "stopping"
  /\ signal' = "exited"
  /\ UNCHANGED <<thread, lock>>

Handler == CloseLock \/ CloseUnlock \/ Exit

Next == Thread \/ Interrupt \/ Handler

\* The operating system runs the process.
Spec == Init /\ [][Next]_vars /\ WF_vars(Thread) /\ WF_vars(Handler)

-----------------------------------------------------------------------------

\* "In order to gracefully exit and shutdown the spreadsheet server, the key
\* phrase control-C needs to be entered" (README.txt): once it is entered, the
\* server exits.
ControlCExits == signal = "closing" ~> signal = "exited"

=============================================================================
