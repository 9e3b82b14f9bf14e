------------------------------- MODULE DllLife -------------------------------
(***************************************************************************)
(* The life of asmp.dll in a process of the game (asmp-dll/src/dllmain.c,  *)
(* utils/console/console.c, and in multiplayer/multiplayer.c the hooks,    *)
(* set_hooks_, multiplayer_init and multiplayer_destroy).  Two threads     *)
(* run: that of the game, which loads the DLL and then calls functions     *)
(* some of which are hooked, and that of the DLL, which sets the hooks one *)
(* by one while the game goes on, and one day unloads the DLL.             *)
(***************************************************************************)
EXTENDS Naturals, Sequences

VARIABLES
  game,      \* "off", "playing", or "faulted": in memory that is not what it should be
  at,        \* where the game's thread is: in the "engine", in LoadLibraryA
             \* ("loading"), or in the hook of a function
  dll,       \* where the DLL's thread is; "none" before there is one
  mapped,    \* whether the code of the DLL is in the process
  hooked,    \* the functions whose calls go to the DLL
  stored,    \* those whose original is stored in mp_
  mp,        \* what mp_ points to: "null", "live" or "freed" memory
  client,    \* the client of mp_: "none", "live" or "freed"
  console,   \* the console of the process: "none", "foreign" or "ours"
  existed,   \* console_existed_before
  redirect   \* what became of stdout: "never", "failed" or "done"

process == <<game, at, dll, mapped>>
hooks == <<hooked, stored>>
memory == <<mp, client>>
consoles == <<console, existed, redirect>>
dllVars == <<process, hooks, memory, consoles>>

(* The hooks in the order in which set_hooks_ sets them.                     *)
HookOrder ==
  <<"wnd_proc", "load_menu", "tick", "set_armed_weapon", "action", "set_anim", "end_scene">>
Hooks == {HookOrder[i] : i \in DOMAIN HookOrder}

(* Those that call the original through mp_; the others know its address.    *)
ThroughMp == {"load_menu", "set_armed_weapon", "set_anim", "end_scene"}

(* All but the window's hook may need the client; only the tick always does. *)
MayUseClient == Hooks \ {"wnd_proc"}

Setting == {"hook", "store"}
Undoing == {"destroy_client", "free", "clear", "close_console", "unload"}

(* One type invariant: also, hooks are set in order, and each original is    *)
(* stored before the next hook is set.                                       *)
DllTypeOK ==
  /\ game \in {"off", "playing", "faulted"}
  /\ at \in {"engine", "loading"} \cup Hooks
  /\ dll \in {"none", "console", "redirect", "alloc", "client", "loop", "spawn", "gone"}
               \cup Setting \cup Undoing
  /\ mapped \in BOOLEAN
  /\ \E n \in 0 .. Len(HookOrder) : hooked = {HookOrder[i] : i \in 1 .. n}
  /\ stored \subseteq hooked
  /\ dll = "hook" => stored = hooked
  /\ mp \in {"null", "live", "freed"}
  /\ client \in {"none", "live", "freed"}
  /\ console \in {"none", "foreign", "ours"}
  /\ existed \in BOOLEAN
  /\ redirect \in {"never", "failed", "done"}

DllInit ==
  /\ game = "off" /\ at = "engine" /\ dll = "none"
  /\ mapped = FALSE /\ hooked = {} /\ stored = {}
  /\ mp = "null" /\ client = "none"
  /\ console = "none" /\ existed = FALSE /\ redirect = "never"

-----------------------------------------------------------------------------
(* The game is started: it may have a console of its own, and if it is       *)
(* patched it loads the DLL before its loop.                                 *)
StartGame(loads) ==
  /\ game = "off"
  /\ game' = "playing"
  /\ at' = IF loads THEN "loading" ELSE "engine"
  /\ console' \in {"none", "foreign"}
  /\ UNCHANGED <<dll, mapped, hooks, memory, existed, redirect>>

(* The executable leads into memory without code.                            *)
StartOnlyFaults ==
  /\ game = "off"
  /\ game' = "faulted"
  /\ UNCHANGED <<at, dll, mapped, hooks, memory, consoles>>

(* The process ends; the next one starts with new memory.                    *)
QuitGame ==
  /\ game # "off"
  /\ game' = "off" /\ at' = "engine" /\ dll' = "none"
  /\ mapped' = FALSE /\ hooked' = {} /\ stored' = {}
  /\ mp' = "null" /\ client' = "none"
  /\ console' = "none" /\ existed' = FALSE /\ redirect' = "never"

(* DllMain on DLL_PROCESS_ATTACH starts the DLL's thread, if it can.  It     *)
(* runs inside LoadLibraryA, which is left only then.                        *)
DllMain ==
  /\ at = "loading" /\ ~mapped
  /\ mapped' = TRUE
  /\ dll' \in {"none", "console"}
  /\ UNCHANGED <<game, at, hooks, memory, consoles>>

MutantLeavesLoading == dll \in {"none", "loop", "gone"}
LeavesLoading == TRUE

(* The game's thread gives the loader's lock back and goes on to its loop.   *)
LeaveLoading ==
  /\ at = "loading" /\ mapped
  /\ LeavesLoading
  /\ at' = "engine"
  /\ UNCHANGED <<game, dll, mapped, hooks, memory, consoles>>

-----------------------------------------------------------------------------
(* The DLL's thread.                                                         *)

DllGoes(from, to) == game = "playing" /\ dll = from /\ dll' = to
DllStays == UNCHANGED <<game, at, mapped>>

(* console_init.  The thread starts once nobody is inside LoadLibraryA; a    *)
(* process that has a console keeps it; the console of a failed redirection  *)
(* stays.                                                                    *)
CreateConsole ==
  /\ at # "loading"
  /\ \/ /\ DllGoes("console", "redirect")
        /\ existed' = (console = "foreign")
        /\ console' = IF console = "none" THEN "ours" ELSE console
     \/ DllGoes("console", "unload") /\ UNCHANGED <<console, existed>>
  /\ DllStays /\ UNCHANGED <<hooks, memory, redirect>>

RedirectOutput ==
  /\ \/ DllGoes("redirect", "alloc") /\ redirect' = "done"
     \/ DllGoes("redirect", "unload") /\ redirect' = "failed"
  /\ DllStays /\ UNCHANGED <<hooks, memory, console, existed>>

(* multiplayer_init.                                                         *)
AllocateMp ==
  /\ \/ DllGoes("alloc", "client") /\ mp' = "live"
     \/ DllGoes("alloc", "close_console") /\ UNCHANGED mp
  /\ DllStays /\ UNCHANGED <<hooks, client, consoles>>

MutantWithoutClient == "hook"
WithoutClient == "free"

CreateClient ==
  /\ \/ DllGoes("client", "hook") /\ client' = "live"
     \/ DllGoes("client", WithoutClient) /\ UNCHANGED client
  /\ DllStays /\ UNCHANGED <<hooks, mp, consoles>>

(* set_hooks_: calls of a function go to its hook from the moment that       *)
(* ehook has written the hook; the original is stored when ehook returns.    *)
NextHook == HookOrder[CHOOSE i \in DOMAIN HookOrder :
                        /\ HookOrder[i] \notin hooked
                        /\ \A j \in 1 .. i - 1 : HookOrder[j] \in hooked]

SetHook ==
  /\ DllGoes("hook", "store")
  /\ hooked' = hooked \cup {NextHook}
  /\ DllStays /\ UNCHANGED <<stored, memory, consoles>>

MutantStored == hooked \ {"set_anim"}
Stored == hooked

StoreOriginal ==
  /\ DllGoes("store", IF hooked = Hooks THEN "loop" ELSE "hook")
  /\ stored' = Stored
  /\ DllStays /\ UNCHANGED <<hooked, memory, consoles>>

(* The hooks that are already set stay.                                      *)
FailHook ==
  /\ DllGoes("hook", "destroy_client")
  /\ DllStays /\ UNCHANGED <<hooks, memory, consoles>>

DestroyClient ==
  /\ DllGoes("destroy_client", "free")
  /\ client' = "freed"
  /\ DllStays /\ UNCHANGED <<hooks, mp, consoles>>

(* dllmain_loop: F6 spawns weapons on this thread, F12 ends the loop.        *)
PressF6 ==
  /\ DllGoes("loop", "spawn")
  /\ DllStays /\ UNCHANGED <<hooks, memory, consoles>>

SpawnWeapons ==
  /\ DllGoes("spawn", "loop")
  /\ DllStays /\ UNCHANGED <<hooks, memory, consoles>>

PressF12 ==
  /\ DllGoes("loop", "free")
  /\ DllStays /\ UNCHANGED <<hooks, memory, consoles>>

(* The end of multiplayer_init after a failure, and multiplayer_destroy.     *)
FreeMp ==
  /\ DllGoes("free", "clear")
  /\ mp' = "freed"
  /\ DllStays /\ UNCHANGED <<hooks, client, consoles>>

ClearMp ==
  /\ DllGoes("clear", "close_console")
  /\ mp' = "null"
  /\ DllStays /\ UNCHANGED <<hooks, client, consoles>>

MutantConsoleIsOurs == redirect = "done"
ConsoleIsOurs == redirect = "done" /\ ~existed

(* console_destroy.                                                          *)
DestroyConsole ==
  /\ DllGoes("close_console", "unload")
  /\ IF ConsoleIsOurs
       THEN console' = "none" /\ redirect' = "never"
       ELSE UNCHANGED <<console, redirect>>
  /\ DllStays /\ UNCHANGED <<hooks, memory, existed>>

(* FreeLibraryAndExitThread.  Nothing takes the hooks out.                   *)
Unload ==
  /\ DllGoes("unload", "gone")
  /\ mapped' = FALSE
  /\ UNCHANGED <<game, at, hooks, memory, consoles>>

DllInstalls ==
  \/ CreateConsole \/ RedirectOutput \/ AllocateMp \/ CreateClient
  \/ SetHook \/ StoreOriginal \/ FailHook \/ DestroyClient
  \/ FreeMp \/ ClearMp \/ DestroyConsole \/ Unload

DllThread == DllInstalls \/ PressF6 \/ SpawnWeapons \/ PressF12

-----------------------------------------------------------------------------
(* The game's thread in its loop.                                            *)

Fault == game' = "faulted" /\ UNCHANGED <<at, dll, mapped, hooks, memory, consoles>>

EngineGoesTo(place) ==
  at' = place /\ UNCHANGED <<game, dll, mapped, hooks, memory, consoles>>

(* A call of a hooked function.  multiplayer_tick returns at once when mp_   *)
(* is null.                                                                  *)
CallHooked(h) ==
  /\ game = "playing" /\ at = "engine"
  /\ h \in hooked
  /\ IF ~mapped THEN Fault
     ELSE IF h = "tick" /\ mp = "null" THEN EngineGoesTo("engine")
     ELSE EngineGoesTo(h)

(* The rest of the hook, up to its return.  A hook that finds no client does *)
(* no harm if it has nothing to do with it: another menu than the main one,  *)
(* another entity than the local player, another state than the play.        *)
FindsOriginal(h) == mapped /\ (h \in ThroughMp => mp = "live" /\ h \in stored)
FindsClient(h) == h \in MayUseClient => mp = "live" /\ client = "live"

FinishHook ==
  /\ game = "playing" /\ at \in Hooks
  /\ \/ /\ FindsOriginal(at)
        /\ at = "tick" => FindsClient(at)
        /\ EngineGoesTo("engine")
     \/ ~(FindsOriginal(at) /\ FindsClient(at)) /\ Fault

(* The engine uses its lists while the DLL's thread creates entities.        *)
RaceWithSpawn == game = "playing" /\ at = "engine" /\ dll = "spawn" /\ Fault

EngineThread == FinishHook \/ RaceWithSpawn \/ \E h \in Hooks : CallHooked(h)

-----------------------------------------------------------------------------
(* dllmain.c:57-64, 74: the game never faults as long as no hook is set,     *)
(* whatever failed, and while the DLL waits for a key, even if the game's    *)
(* thread is still in a hook that it entered before all was set.             *)
GameIsSafe ==
  [][game = "playing" /\ (hooked = {} \/ dll = "loop") => game' # "faulted"]_dllVars

(* dllmain.c:63, console.c:77: a DLL that has gone leaves the consoles as it *)
(* found them, wherever its start failed, except after a failed redirection. *)
ConsoleIsRestored ==
  dll = "gone" =>
    \/ console = "none" /\ ~existed
    \/ console = "foreign"
    \/ console = "ours" /\ redirect = "failed"

(* dllmain.c:111: in a process that goes on, the DLL's thread gets through   *)
(* its start, whatever fails there, although it can begin only when the      *)
(* game's has left LoadLibraryA.                                             *)
Installed == at # "loading" /\ dll \in {"loop", "spawn", "gone", "none"} \cup Undoing
InstallationEnds == at = "loading" ~> Installed \/ game # "playing"
=============================================================================
