------------------------------ MODULE Shutdown ------------------------------
(***************************************************************************)
(* src/server.ts: the boot's migration, and the ways the process ends.     *)
(* A timer fires no later than due: the event loop is not blocked.         *)
(***************************************************************************)
EXTENDS Integers

CONSTANTS
  Request,
  ShutdownTimeout, \* SHUTDOWN_TIMEOUT_MS
  CloseTimeout     \* PROVIDER_CLOSE_TIMEOUT_MS

ASSUME ShutdownConstants == ShutdownTimeout \in Nat /\ CloseTimeout \in Nat

VARIABLES
  process,      \* "booting", "listening", "exited"
  inFlight,     \* each request: "none", "open", "answered", "cut"
  shuttingDown, \* a signal has come
  forceTimer,   \* "unset", "set", "cleared", "fired"
  finalized,    \* whether finishShutdown() was called, with which code, and when
  closing,      \* provider.close(): "no", "begun", "closed", "failed"
  exitCode,
  elapsed       \* since the first signal

serverStateVars ==
  <<process, inFlight, shuttingDown, forceTimer, finalized, closing, exitCode, elapsed>>

NotFinal == [is |-> FALSE, code |-> 0, at |-> 0]

Open == {r \in Request : inFlight[r] = "open"}

(***************************************************************************)
(* Boot.                                                                   *)
(***************************************************************************)
BootSucceeds ==
  /\ process = "booting" /\ closing = "no"
  /\ process' = "listening"
  /\ UNCHANGED <<inFlight, shuttingDown, forceTimer, finalized, closing, exitCode, elapsed>>

MigrationFails ==
  /\ process = "booting" /\ closing = "no"
  /\ closing' = "begun"
  /\ UNCHANGED <<process, inFlight, shuttingDown, forceTimer, finalized, exitCode, elapsed>>

\* This close is awaited without a timeout, and its failure only logged.
BootGivesUp ==
  /\ process = "booting" /\ closing = "begun"
  /\ closing' \in {"closed", "failed"}
  /\ exitCode' = 1
  /\ process' = "exited"
  /\ UNCHANGED <<inFlight, shuttingDown, forceTimer, finalized, elapsed>>

\* Before its handlers are installed a signal kills the process.
KilledAtBoot ==
  /\ process = "booting"
  /\ process' = "exited" /\ exitCode' = 143
  /\ UNCHANGED <<inFlight, shuttingDown, forceTimer, finalized, closing, elapsed>>

(***************************************************************************)
(* Requests.                                                               *)
(***************************************************************************)
Accept(r) ==
  /\ process = "listening" /\ ~shuttingDown /\ inFlight[r] # "open"
  /\ inFlight' = [inFlight EXCEPT ![r] = "open"]
  /\ UNCHANGED <<process, shuttingDown, forceTimer, finalized, closing, exitCode, elapsed>>

Answer(r) ==
  /\ process = "listening" /\ inFlight[r] = "open"
  /\ inFlight' = [inFlight EXCEPT ![r] = "answered"]
  /\ UNCHANGED <<process, shuttingDown, forceTimer, finalized, closing, exitCode, elapsed>>

(***************************************************************************)
(* The end.                                                                *)
(***************************************************************************)
Signal ==
  /\ process = "listening" /\ ~shuttingDown
  /\ shuttingDown' = TRUE
  /\ forceTimer' = "set"
  /\ elapsed' = 0
  /\ UNCHANGED <<process, inFlight, finalized, closing, exitCode>>

\* mutant: the last caller decides
FinishAgain(code) ==
  /\ finalized' = [is |-> TRUE, code |-> code, at |-> elapsed]
  /\ closing' = IF closing = "no" THEN "begun" ELSE closing
FinishShutdown(code) ==
  IF finalized.is THEN UNCHANGED <<finalized, closing>>
  ELSE finalized' = [is |-> TRUE, code |-> code, at |-> elapsed] /\ closing' = "begun"

\* The timer gives the drain up, then cuts the connections.
ForceTimerFires ==
  /\ process = "listening" /\ forceTimer = "set" /\ elapsed >= ShutdownTimeout
  /\ forceTimer' = "fired"
  /\ FinishShutdown(1)
  /\ inFlight' = [r \in Request |-> IF r \in Open THEN "cut" ELSE inFlight[r]]
  /\ UNCHANGED <<process, shuttingDown, exitCode, elapsed>>

\* server.close() calls back once every connection is gone, whoever ended it.
ServerClosed ==
  /\ process = "listening" /\ shuttingDown /\ forceTimer \in {"set", "fired"} /\ Open = {}
  /\ forceTimer' = "cleared"
  /\ \E code \in {0, 1} : FinishShutdown(code)
  /\ UNCHANGED <<process, inFlight, shuttingDown, exitCode, elapsed>>

ProviderCloses ==
  /\ process = "listening" /\ closing = "begun"
  /\ \E result \in {"closed", "failed"} :
       /\ closing' = result
       /\ exitCode' = IF result = "failed" THEN 1 ELSE finalized.code
  /\ process' = "exited"
  /\ UNCHANGED <<inFlight, shuttingDown, forceTimer, finalized, elapsed>>

AwaitsClose == FALSE /\ UNCHANGED serverStateVars  \* mutant: the close has no timeout, as at boot
CloseTimerFires ==
  /\ process = "listening" /\ closing = "begun" /\ elapsed >= finalized.at + CloseTimeout
  /\ exitCode' = 1
  /\ process' = "exited"
  /\ UNCHANGED <<inFlight, shuttingDown, forceTimer, finalized, closing, elapsed>>

TimeGoes ==
  /\ process = "listening" /\ shuttingDown
  /\ forceTimer = "set" => elapsed < ShutdownTimeout
  /\ finalized.is => elapsed < finalized.at + CloseTimeout
  /\ elapsed' = elapsed + 1
  /\ UNCHANGED <<process, inFlight, shuttingDown, forceTimer, finalized, closing, exitCode>>

ShutdownInit ==
  /\ process = "booting"
  /\ inFlight = [r \in Request |-> "none"]
  /\ shuttingDown = FALSE
  /\ forceTimer = "unset"
  /\ finalized = NotFinal
  /\ closing = "no"
  /\ exitCode = -1
  /\ elapsed = 0

ShutdownNext ==
  \/ BootSucceeds \/ MigrationFails \/ BootGivesUp \/ KilledAtBoot
  \/ \E r \in Request : Accept(r) \/ Answer(r)
  \/ Signal \/ ForceTimerFires \/ ServerClosed \/ ProviderCloses \/ CloseTimerFires \/ TimeGoes

ShutdownSpec == ShutdownInit /\ [][ShutdownNext]_serverStateVars

\* Timers fire, and an emptied server calls back.
ShutdownFairness ==
  /\ WF_serverStateVars(TimeGoes)
  /\ WF_serverStateVars(ForceTimerFires)
  /\ WF_serverStateVars(ServerClosed)
  /\ WF_serverStateVars(CloseTimerFires)

(***************************************************************************)
(* Properties.                                                             *)
(***************************************************************************)

\* A process that reports success answered every request it had accepted and closed its
\* store; one that was told to stop ends within both timeouts, and the store is closed
\* under an open request only when the first of them has run out.
ExitIsHonest ==
  /\ process = "exited" /\ exitCode = 0 =>
       closing = "closed" /\ \A r \in Request : inFlight[r] \in {"none", "answered"}
  /\ elapsed <= ShutdownTimeout + CloseTimeout
  /\ closing # "no" /\ Open # {} => forceTimer # "set"
  /\ (\E r \in Request : inFlight[r] = "cut") => elapsed >= ShutdownTimeout

\* A process that got a signal ends, whatever its requests and its store do.
ProcessExits == shuttingDown ~> process = "exited"
=============================================================================
