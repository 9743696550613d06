------------------------------ MODULE LostTools ------------------------------
(***************************************************************************)
(* The tool calls a run counts as in flight against those its app-server   *)
(* executes.  Run.Threads[..].InFlightToolIDs is cleared by the end of the *)
(* tool alone: neither recoverRun nor completeRootTransfer forgets the     *)
(* calls of an app-server that is gone, and hasInFlightTools asks all      *)
(* threads, those of past trees included.                                  *)
(*                                                                         *)
(* `lost` is a history variable: it follows the controller's steps, which  *)
(* stay as they are, and no step depends on it.                            *)
(***************************************************************************)
EXTENDS Controller

VARIABLE
  lost  \* tool calls in flight whose app-server is gone

lostToolsVars == <<controllerVars, lost>>

InFlight == {<<t, u>> \in Threads \X Tools : u \in tools[t]}

LostToolsInit == ControllerInit /\ lost = {}

\* What was in flight when the app-server went away, or is reported after that,
\* is lost until its entry is removed.
LostToolsNext ==
  /\ ControllerNext
  /\ lost' = IF server = "up" /\ server' = "up" THEN lost \cap InFlight' ELSE InFlight'

LostToolsSpec == LostToolsInit /\ [][LostToolsNext]_lostToolsVars

-----------------------------------------------------------------------------
(* What the documentation says and the code does not do *)

\* "Free Context waits for currently executing tool items to complete"
\* (README.md:85): a tree that is kept waiting for its tools waits for at least
\* one that its app-server executes.
WaitsForExecutingTools ==
  status = "transitioning" /\ trans.phase = "quiescing" /\ Idle /\ server = "up" =>
    InFlight \ lost # {}

=============================================================================
