------------------------------ MODULE Injection ------------------------------
(***************************************************************************)
(* The patcher and the game on one computer.  A game that is started from  *)
(* a patched executable loads the DLL; one whose executable has the jump   *)
(* but not the code faults before its loop.                                *)
(***************************************************************************)
EXTENDS Patcher, DllLife

vars == <<patcherVars, dllVars>>

InjectionInit == PatcherInit /\ DllInit

(* README.md:88-122: the jump at 0x4FCC, the code that it leads to, and the  *)
(* name of the DLL that this code loads; another name loads nothing.         *)
GetsToItsLoop(image) == "jump" \in image.written => "code" \in image.written
LoadsDll(image) == Places \subseteq image.written

(* Windows runs no executable that is open for writing.                      *)
Start ==
  /\ stage \notin Writing
  /\ exe.whole
  /\ IF GetsToItsLoop(exe) THEN StartGame(LoadsDll(exe)) ELSE StartOnlyFaults

User == (MoveBack \/ ThrowAway) /\ game = "off"
Process == DllMain \/ LeaveLoading \/ DllThread \/ EngineThread

InjectionNext ==
  \/ PatcherStep /\ UNCHANGED dllVars
  \/ OpenExe(game # "off") /\ UNCHANGED dllVars
  \/ User /\ UNCHANGED dllVars
  \/ Start /\ UNCHANGED patcherVars
  \/ QuitGame /\ UNCHANGED patcherVars
  \/ Process /\ UNCHANGED patcherVars

(* Threads that can run do.                                                  *)
InjectionFairness ==
  /\ WF_vars((DllMain \/ LeaveLoading) /\ UNCHANGED patcherVars)
  /\ WF_vars(DllInstalls /\ UNCHANGED patcherVars)

InjectionSpec == InjectionInit /\ [][InjectionNext]_vars /\ InjectionFairness
=============================================================================
