--------------------------- MODULE InjectionProofs ---------------------------
(***************************************************************************)
(* What holds of the patcher's two files and of the DLL's life in the      *)
(* game, wherever runs, games and threads are interrupted.                 *)
(***************************************************************************)
EXTENDS Injection, TLAPS

LEMMA Images ==
  /\ NoFile \notin Image
  /\ Original \in Image /\ Original.whole /\ Original.written = {}
  /\ \A image \in Image : CutOff(image) \in Image /\ ~CutOff(image).whole
<1>1. NoFile \notin Image
  BY NoFileAssumption DEF Image, Places
<1> QED
  BY <1>1 DEF Image, Original, CutOff

LEMMA Flushed ==
  ASSUME exe \in Image, pending \in SUBSET Places,
         exe' = [exe EXCEPT !.written = @ \cup pending]
  PROVE  exe' \in Image /\ exe'.whole = exe.whole
         /\ exe'.written = exe.written \cup pending
BY DEF Image

-----------------------------------------------------------------------------
(* The files. *)

(* Why the original survives on a disk that works: there is no whole backup  *)
(* but that of the original, there is one from the end of the copy on, and   *)
(* until the patches are written the executable is the original itself.      *)
FilesInv ==
  ~diskFails =>
    /\ exe = Original \/ backup = Original
    /\ backup # NoFile /\ backup.whole => backup = Original
    /\ stage = "copy" => exe = Original
    /\ stage \in {"open"} \cup Writing => backup = Original

(* Why a run patches all or nothing: what it has written so far follows from *)
(* the place in main where it is.                                            *)
ProgressInv ==
  ~diskFails =>
    /\ stage = "open" => exe = found
    /\ stage # "idle" => exe.whole
    /\ stage \in {"copy", "open", "name", "jump"} => exe.written = {}
    /\ stage = "code" => exe.written = {"name"}
    /\ stage = "close" => exe.written = {"name", "jump"}
    /\ stage = "jump" => pending = {"name"}
    /\ stage = "code" => pending = {"jump"}
    /\ stage = "close" => pending = {"code"}
    /\ stage = "copy" => exe = found
    /\ stage # "abort"

PatcherInv == PatcherTypeOK /\ FilesInv /\ ProgressInv

(* Every step that the files can take. *)
PatcherNext == PatcherStep \/ (\E gameRuns \in BOOLEAN : OpenExe(gameRuns))
                 \/ MoveBack \/ ThrowAway

LEMMA PatcherTypes ==
  ASSUME PatcherTypeOK, PatcherNext
  PROVE  PatcherTypeOK'
<1> USE DEF PatcherTypeOK, Writing
<1>1. CASE BeginRun
  BY <1>1, Images DEF BeginRun
<1>2. CASE Copy
  BY <1>2 DEF Copy
<1>3. ASSUME NEW gameRuns \in BOOLEAN, OpenExe(gameRuns) PROVE PatcherTypeOK'
  BY <1>3 DEF OpenExe
<1>4. ASSUME NEW place \in Places, NEW next \in {"jump", "code", "close"},
             PatchBytes(place, next)
      PROVE  PatcherTypeOK'
  <2>2. exe' \in Image
    BY <1>4, Flushed DEF PatchBytes
  <2>3. /\ stage' \in {"jump", "code", "close", "abort"}
        /\ pending' \in SUBSET Places
        /\ UNCHANGED <<backup, found, diskFails>>
    BY <1>4 DEF PatchBytes
  <2> QED
    BY <2>2, <2>3
<1>5. CASE CloseExe
  <2>1. exe' \in Image
    BY <1>5, Flushed DEF CloseExe, Flush, Lose
  <2> QED
    BY <1>5, <2>1 DEF CloseExe, Flush, Lose
<1>6. CASE Kill
  BY <1>6 DEF Kill
<1>7. CASE MoveBack \/ ThrowAway
  BY <1>7 DEF MoveBack, ThrowAway
<1> QED
  BY <1>1, <1>2, <1>3, <1>4, <1>5, <1>6, <1>7 DEF PatcherNext, PatcherStep, Places

LEMMA FilesStep ==
  ASSUME PatcherTypeOK, FilesInv, PatcherNext
  PROVE  FilesInv'
<1> USE DEF FilesInv, Writing
<1>1. CASE BeginRun
  BY <1>1, Images DEF BeginRun, MayBegin, PatcherTypeOK
<1>2. CASE Copy
  <2>1. stage = "copy" /\ diskFails' = diskFails /\ exe' = exe
    BY <1>2 DEF Copy
  <2> QED
    BY <1>2, <2>1, Images DEF Copy, PatcherTypeOK
<1>3. CASE \E gameRuns \in BOOLEAN : OpenExe(gameRuns)
  BY <1>3 DEF OpenExe
<1>4. ASSUME NEW place \in Places, NEW next \in {"jump", "code", "close"},
             PatchBytes(place, next)
      PROVE  FilesInv'
  BY <1>4 DEF PatchBytes, Places
<1>5. CASE CloseExe \/ Kill
  <2>1. stage' = "idle" /\ UNCHANGED <<backup, diskFails>>
        /\ (exe' = exe \/ stage \in {"close", "abort"})
    BY <1>5 DEF CloseExe, Kill
  <2> QED
    BY <2>1
<1>6. CASE MoveBack
  BY <1>6, Images DEF MoveBack
<1>7. CASE ThrowAway
  BY <1>7, Images DEF ThrowAway
<1> QED
  BY <1>1, <1>2, <1>3, <1>4, <1>5, <1>6, <1>7 DEF PatcherNext, PatcherStep, Places

LEMMA ProgressStep ==
  ASSUME PatcherTypeOK, FilesInv, ProgressInv, PatcherNext
  PROVE  ProgressInv'
<1> USE DEF ProgressInv
<1>1. CASE BeginRun
  <2>1. ~diskFails => exe = Original
    BY <1>1, Images DEF BeginRun, MayBegin, FilesInv
  <2> QED
    BY <1>1, <2>1, Images DEF BeginRun
<1>2. CASE Copy
  BY <1>2 DEF Copy
<1>3. ASSUME NEW gameRuns \in BOOLEAN, OpenExe(gameRuns) PROVE ProgressInv'
  BY <1>3 DEF OpenExe
<1>4. ASSUME NEW place, NEW next, PatchBytes(place, next), ~diskFails
      PROVE  /\ stage = place /\ stage' = next /\ pending' = {place}
             /\ exe'.whole = exe.whole
             /\ exe'.written = exe.written \cup pending
             /\ diskFails' = diskFails
  BY <1>4, Flushed DEF PatchBytes, PatcherTypeOK
<1>5. CASE PatchBytes("name", "jump")
  <2>1. stage = "name" => pending = {}
    BY DEF PatcherTypeOK
  <2>2. diskFails' = diskFails
    BY <1>5 DEF PatchBytes
  <2> QED
    BY <1>4, <1>5, <2>1, <2>2
<1>6. CASE PatchBytes("jump", "code")
  <2>1. diskFails' = diskFails
    BY <1>6 DEF PatchBytes
  <2> QED
    BY <1>4, <1>6, <2>1
<1>7. CASE PatchBytes("code", "close")
  <2>1. diskFails' = diskFails
    BY <1>7 DEF PatchBytes
  <2> QED
    BY <1>4, <1>7, <2>1
<1>8. CASE CloseExe \/ Kill \/ MoveBack \/ ThrowAway
  BY <1>8 DEF CloseExe, Kill, MoveBack, ThrowAway
<1> QED
  BY <1>1, <1>2, <1>3, <1>5, <1>6, <1>7, <1>8 DEF PatcherNext, PatcherStep

(* A step of the whole system is one of the files, or leaves them alone.     *)
LEMMA FilesMove ==
  ASSUME [InjectionNext]_vars
  PROVE  PatcherNext \/ UNCHANGED patcherVars
<1>1. (game # "off") \in BOOLEAN
  OBVIOUS
<1> QED
  BY <1>1 DEF InjectionNext, vars, PatcherNext, User

LEMMA PatcherInvariant == InjectionSpec => []PatcherInv
<1>1. InjectionInit => PatcherInv
  BY Images DEF InjectionInit, PatcherInit, PatcherInv, PatcherTypeOK, FilesInv,
     ProgressInv, Writing
<1>2. PatcherInv /\ [InjectionNext]_vars => PatcherInv'
  <2> SUFFICES ASSUME PatcherInv, [InjectionNext]_vars PROVE PatcherInv'
    OBVIOUS
  <2>1. CASE PatcherNext
    BY <2>1, PatcherTypes, FilesStep, ProgressStep DEF PatcherInv
  <2>2. CASE UNCHANGED patcherVars
    BY <2>2 DEF PatcherInv, PatcherTypeOK, FilesInv, ProgressInv, patcherVars
  <2> QED
    BY <2>1, <2>2, FilesMove
<1> QED
  BY <1>1, <1>2, PTL DEF InjectionSpec

(* What the patcher (main.c of asmp-exe-patcher) leaves on the disk is always *)
(* an image of the executable, and nothing stays in the buffer of a file that *)
(* is not open.                                                               *)
THEOREM PatcherTypeCorrect == InjectionSpec => []PatcherTypeOK
BY PatcherInvariant, PTL DEF PatcherInv

(* OriginalSurvivesKills: on a disk that works the original executable is     *)
(* always there, in its place or as the backup, wherever a run of the patcher *)
(* is killed, however often it runs and whatever the user does in between.    *)
THEOREM OriginalAlwaysSurvives == InjectionSpec => []OriginalSurvivesKills
<1>1. PatcherInv => OriginalSurvivesKills
  BY DEF PatcherInv, FilesInv, OriginalSurvivesKills
<1> QED
  BY <1>1, PatcherInvariant, PTL

(* PatchIsAllOrNothing: on a disk that works, a run of the patcher that comes *)
(* to its end, which a killed one does not, leaves the executable as it found *)
(* it or with all three places patched.  Nothing is said of the ends -13 and  *)
(* -14 after a failed write, nor of kills between two writes.                 *)
THEOREM PatchesAllOrNothing == InjectionSpec => PatchIsAllOrNothing
<1>1. PatcherInv /\ [InjectionNext]_vars
        => [Ends /\ ~diskFails => exe' \in {found, Patched}]_patcherVars
  <2> SUFFICES ASSUME PatcherInv, Ends, ~diskFails
               PROVE  exe' \in {found, Patched}
    OBVIOUS
  <2>1. CASE OpenExe(TRUE)
    BY <2>1 DEF OpenExe, PatcherInv, ProgressInv
  <2>2. CASE CloseExe
    <3>1. /\ stage = "close" /\ exe.whole /\ exe.written = {"name", "jump"}
          /\ pending = {"code"} /\ exe' = [exe EXCEPT !.written = @ \cup pending]
      BY <2>2 DEF CloseExe, Flush, Lose, PatcherInv, ProgressInv
    <3>2. exe' \in Image /\ exe'.whole /\ exe'.written = Places
      <4>1. exe \in Image /\ pending \in SUBSET Places
        BY DEF PatcherInv, PatcherTypeOK
      <4>2. {"name", "jump"} \cup {"code"} = Places
        BY DEF Places
      <4> QED
        BY <3>1, <4>1, <4>2, Flushed
    <3>3. exe' = Patched
      BY <3>2 DEF Image, Patched
    <3> QED
      BY <3>3
  <2> QED
    BY <2>1, <2>2 DEF Ends
<1> QED
  BY <1>1, PatcherInvariant, PTL DEF InjectionSpec, PatchIsAllOrNothing

-----------------------------------------------------------------------------
(* The life of the DLL. *)

(* The first n functions of HookOrder. *)
FirstHooks(n) == {HookOrder[i] : i \in 1 .. n}

LEMMA OrderOfHooks ==
  /\ DOMAIN HookOrder = 1 .. 7 /\ Len(HookOrder) = 7
  /\ \A i, j \in 1 .. 7 : HookOrder[i] = HookOrder[j] => i = j
  /\ Hooks = FirstHooks(7)
  /\ FirstHooks(0) = {}
<1>1. DOMAIN HookOrder = 1 .. 7 /\ Len(HookOrder) = 7
  BY DEF HookOrder
<1>2. /\ HookOrder[1] = "wnd_proc" /\ HookOrder[2] = "load_menu"
      /\ HookOrder[3] = "tick" /\ HookOrder[4] = "set_armed_weapon"
      /\ HookOrder[5] = "action" /\ HookOrder[6] = "set_anim"
      /\ HookOrder[7] = "end_scene"
  BY DEF HookOrder
<1>3. \A i \in 1 .. 7 : i \in {1, 2, 3, 4, 5, 6, 7}
  OBVIOUS
<1>4. \A i, j \in 1 .. 7 : HookOrder[i] = HookOrder[j] => i = j
  BY <1>2, <1>3
<1>5. Hooks = FirstHooks(7) /\ FirstHooks(0) = {}
  BY <1>1 DEF Hooks, FirstHooks
<1> QED
  BY <1>1, <1>4, <1>5

(* The next hook is the next one in the order.                               *)
LEMMA NextInOrder ==
  ASSUME NEW n \in 0 .. 7, hooked = FirstHooks(n), hooked # Hooks
  PROVE  /\ n + 1 \in 1 .. 7
         /\ NextHook = HookOrder[n + 1]
         /\ hooked \cup {NextHook} = FirstHooks(n + 1)
<1>1. n + 1 \in 1 .. 7
  BY OrderOfHooks
<1> DEFINE IsNext(i) == /\ HookOrder[i] \notin hooked
                        /\ \A j \in 1 .. i - 1 : HookOrder[j] \in hooked
<1>2. ASSUME NEW i \in 1 .. 7 PROVE HookOrder[i] \in hooked <=> i <= n
  BY <1>2, OrderOfHooks DEF FirstHooks
<1>3. IsNext(n + 1)
  BY <1>1, <1>2
<1>4. ASSUME NEW i \in 1 .. 7, IsNext(i) PROVE i = n + 1
  <2>1. ~(i <= n)
    BY <1>2, <1>4
  <2>2. ~(n + 1 < i)
    <3> SUFFICES ASSUME n + 1 < i PROVE FALSE
      OBVIOUS
    <3>1. n + 1 \in 1 .. i - 1
      BY <1>1
    <3> QED
      BY <1>1, <1>2, <1>4, <3>1
  <2> QED
    BY <1>1, <2>1, <2>2
<1> HIDE DEF IsNext
<1>5. (CHOOSE i \in 1 .. 7 : IsNext(i)) = n + 1
  BY <1>1, <1>3, <1>4
<1>6. NextHook = HookOrder[n + 1]
  BY <1>5, OrderOfHooks DEF NextHook, IsNext
<1>7. FirstHooks(n) \cup {HookOrder[n + 1]} = FirstHooks(n + 1)
  BY <1>1 DEF FirstHooks
<1> QED
  BY <1>1, <1>6, <1>7

(* Where the DLL's thread has begun, and where it plays. *)
NotBegun == {"none", "console"}
Before == NotBegun \cup {"redirect", "alloc", "client"}
Playing == Setting \cup {"loop", "spawn"}

(* What the places of the two threads say of the process: a process that     *)
(* does not run has nothing, the game's thread leaves LoadLibraryA before    *)
(* the DLL's begins, no hook is set before there is a client, all are set    *)
(* when the DLL waits for a key, and what it needs is there until it ends.   *)
LifeInv ==
  /\ game = "off" => at = "engine" /\ dll = "none" /\ ~mapped
  /\ dll = "none" => hooked = {}
  /\ at = "loading" => dll \in NotBegun /\ (~mapped => dll = "none")
  /\ at \in Hooks => at \in hooked
  /\ dll \notin {"none", "gone"} => mapped
  /\ dll \in Before => hooked = {} /\ stored = {}
  /\ dll = "client" => mp = "live"
  /\ dll \in {"hook", "store", "loop", "spawn"} => mp = "live" /\ client = "live"
  /\ dll = "hook" => hooked # Hooks
  /\ dll \in {"loop", "spawn"} => hooked = Hooks /\ stored = Hooks

(* What they say of the console: the DLL knows whether there was one.        *)
ConsoleInv ==
  /\ dll \in NotBegun => ~existed /\ redirect = "never" /\ console # "ours"
  /\ dll = "redirect" => redirect = "never"
  /\ dll \notin NotBegun \cup {"redirect", "unload", "gone"} => redirect = "done"
  /\ dll \notin NotBegun \cup {"unload", "gone"}
       => console = IF existed THEN "foreign" ELSE "ours"
  /\ dll \in {"unload", "gone"} =>
       \/ console = "none" /\ ~existed
       \/ console = "foreign"
       \/ console = "ours" /\ redirect = "failed"

DllInv == DllTypeOK /\ LifeInv /\ ConsoleInv

(* Every step that the process can take. *)
DllNext ==
  \/ \E loads \in BOOLEAN : StartGame(loads)
  \/ StartOnlyFaults \/ QuitGame \/ DllMain \/ LeaveLoading \/ DllThread \/ EngineThread

LEMMA ProcessMoves ==
  ASSUME [InjectionNext]_vars
  PROVE  DllNext \/ UNCHANGED dllVars
<1>1. LoadsDll(exe) \in BOOLEAN
  BY DEF LoadsDll
<1> QED
  BY <1>1 DEF InjectionNext, vars, DllNext, Start, Process

(* Hooks are only ever set, and in order. *)
LEMMA HooksStep ==
  ASSUME DllTypeOK, LifeInv, DllNext
  PROVE  /\ \/ hooked' = hooked
            \/ SetHook /\ NextHook \in Hooks /\ hooked' = hooked \cup {NextHook}
            \/ QuitGame /\ hooked' = {}
         /\ \E n \in 0 .. 7 : hooked' = FirstHooks(n)
<1>1. PICK n \in 0 .. 7 : hooked = FirstHooks(n)
  BY OrderOfHooks DEF DllTypeOK, FirstHooks
<1>2. CASE SetHook
  <2>1. hooked # Hooks /\ hooked' = hooked \cup {NextHook}
    BY <1>2 DEF SetHook, DllGoes, LifeInv
  <2>2. n + 1 \in 1 .. 7 /\ hooked' = FirstHooks(n + 1) /\ NextHook = HookOrder[n + 1]
    BY <1>1, <2>1, NextInOrder
  <2>3. NextHook \in Hooks
    BY <2>2, OrderOfHooks DEF Hooks
  <2> QED
    BY <1>2, <2>1, <2>2, <2>3
<1>3. CASE QuitGame
  <2>1. hooked' = {}
    BY <1>3 DEF QuitGame
  <2> QED
    BY <1>3, <2>1, OrderOfHooks
<1>4. CASE ~SetHook /\ ~QuitGame
  <2>1. hooked' = hooked
    BY <1>4 DEF DllNext, StartGame, StartOnlyFaults, DllMain, LeaveLoading, DllThread,
       DllInstalls, CreateConsole, RedirectOutput, AllocateMp, CreateClient,
       StoreOriginal, FailHook, DestroyClient, PressF6, SpawnWeapons, PressF12,
       FreeMp, ClearMp, DestroyConsole, Unload, EngineThread, CallHooked, FinishHook,
       RaceWithSpawn, Fault, EngineGoesTo, hooks, memory, consoles
  <2> QED
    BY <1>1, <2>1
<1> QED
  BY <1>2, <1>3, <1>4

(* The DLL's thread changes neither the game's place nor its being. *)
LEMMA DllThreadStays ==
  ASSUME DllThread
  PROVE  game = "playing" /\ game' = game /\ at' = at
BY DEF DllThread, DllInstalls, CreateConsole, RedirectOutput, AllocateMp, CreateClient,
   SetHook, StoreOriginal, FailHook, DestroyClient, PressF6, SpawnWeapons, PressF12,
   FreeMp, ClearMp, DestroyConsole, Unload, DllGoes, DllStays

(* The game's thread moves by itself, and faults or not. *)
LEMMA EngineMoves ==
  ASSUME EngineThread
  PROVE  /\ game = "playing"
         /\ UNCHANGED <<dll, mapped, hooks, memory, consoles>>
         /\ \/ game' = "playing" /\ at' \in {"engine"} \cup hooked
            \/ game' = "faulted" /\ at' = at
BY DEF EngineThread, CallHooked, FinishHook, RaceWithSpawn, Fault, EngineGoesTo

(* DllTypeOK in two parts: the order of the hooks, and the rest. *)
InOrder == \E n \in 0 .. Len(HookOrder) : hooked = {HookOrder[i] : i \in 1 .. n}
PlainTypes ==
  /\ game \in {"off", "playing", "faulted"}
  /\ at \in {"engine", "loading"} \cup Hooks
  /\ dll \in {"none", "console", "redirect", "alloc", "client", "loop", "spawn", "gone"}
               \cup Setting \cup Undoing
  /\ mapped \in BOOLEAN
  /\ stored \subseteq hooked
  /\ dll = "hook" => stored = hooked
  /\ mp \in {"null", "live", "freed"}
  /\ client \in {"none", "live", "freed"}
  /\ console \in {"none", "foreign", "ours"}
  /\ existed \in BOOLEAN
  /\ redirect \in {"never", "failed", "done"}

LEMMA TypeParts == /\ DllTypeOK <=> InOrder /\ PlainTypes
                   /\ DllTypeOK' <=> InOrder' /\ PlainTypes'
BY Zenon DEF DllTypeOK, InOrder, PlainTypes

LEMMA DllTypes ==
  ASSUME DllTypeOK, LifeInv, DllNext
  PROVE  DllTypeOK'
<1> SUFFICES PlainTypes'
  <2>1. InOrder'
    BY HooksStep, OrderOfHooks DEF FirstHooks, InOrder
  <2> QED
    BY <2>1, TypeParts
<1> USE DEF Setting, Undoing, PlainTypes
<1>1. PlainTypes /\ (hooked \subseteq hooked' \/ QuitGame)
  BY HooksStep, TypeParts
<1>2. hooked \subseteq Hooks /\ {"engine", "loading"} \cap Hooks = {}
  BY OrderOfHooks DEF DllTypeOK, FirstHooks, Hooks, HookOrder
<1>3. CASE \E loads \in BOOLEAN : StartGame(loads)
  BY <1>1, <1>3 DEF StartGame, hooks, memory
<1>4. CASE StartOnlyFaults
  BY <1>1, <1>4 DEF StartOnlyFaults, hooks, memory, consoles
<1>5. CASE QuitGame
  BY <1>1, <1>5 DEF QuitGame
<1>6. CASE DllMain \/ LeaveLoading
  <2>1. mapped' \in BOOLEAN /\ dll' \in {dll, "none", "console"}
        /\ at' \in {at, "engine"} /\ UNCHANGED <<game, hooked, stored, mp, client>>
    BY <1>1, <1>6 DEF DllMain, LeaveLoading, hooks, memory
  <2>2. UNCHANGED <<console, existed, redirect>>
    BY <1>6 DEF DllMain, LeaveLoading, consoles
  <2> QED
    BY <1>1, <2>1, <2>2
<1>7. CASE EngineThread
  BY <1>1, <1>2, <1>7, EngineMoves DEF hooks, memory, consoles
<1>8. CASE CreateConsole \/ RedirectOutput \/ DestroyConsole
  BY <1>1, <1>8 DEF CreateConsole, RedirectOutput, DestroyConsole, DllGoes,
     DllStays, hooks, memory
<1>9. CASE AllocateMp \/ CreateClient \/ DestroyClient \/ FreeMp \/ ClearMp
  BY <1>1, <1>9 DEF LifeInv, Before, AllocateMp, CreateClient, WithoutClient,
     DestroyClient, FreeMp, ClearMp, DllGoes, DllStays, hooks, consoles
<1>10. CASE SetHook
  BY <1>1, <1>10 DEF SetHook, DllGoes, DllStays, memory, consoles
<1>11. CASE StoreOriginal
  BY <1>1, <1>11 DEF StoreOriginal, Stored, DllGoes, DllStays, memory, consoles
<1>12. CASE FailHook \/ PressF6 \/ SpawnWeapons \/ PressF12
  BY <1>1, <1>12 DEF FailHook, PressF6, SpawnWeapons, PressF12, DllGoes,
     DllStays, hooks, memory, consoles
<1>13. CASE Unload
  BY <1>1, <1>13 DEF Unload, DllGoes, hooks, memory, consoles
<1> QED
  BY <1>3, <1>4, <1>5, <1>6, <1>7, <1>8, <1>9, <1>10, <1>11, <1>12, <1>13
     DEF DllNext, DllThread, DllInstalls

LEMMA LifeStep ==
  ASSUME DllTypeOK, LifeInv, DllNext
  PROVE  LifeInv'
<1> USE DEF LifeInv, NotBegun, Before
<1>1. "engine" \notin Hooks /\ "loading" \notin Hooks /\ hooked \subseteq Hooks
  BY OrderOfHooks DEF DllTypeOK, FirstHooks, Hooks, HookOrder
<1>2. CASE \E loads \in BOOLEAN : StartGame(loads)
  BY <1>1, <1>2 DEF StartGame, hooks, memory
<1>3. CASE StartOnlyFaults
  BY <1>3 DEF StartOnlyFaults, hooks, memory, consoles
<1>4. CASE QuitGame
  BY <1>1, <1>4 DEF QuitGame
<1>5. CASE DllMain \/ LeaveLoading
  BY <1>1, <1>5 DEF DllMain, LeaveLoading, hooks, memory, consoles, DllTypeOK
<1>6. CASE EngineThread
  BY <1>1, <1>6, EngineMoves DEF hooks, memory, consoles
<1>7. CASE CreateConsole \/ RedirectOutput \/ DestroyConsole
  BY <1>7 DEF CreateConsole, RedirectOutput, DestroyConsole, DllGoes, DllStays, hooks,
     memory
<1>8. CASE AllocateMp \/ CreateClient \/ DestroyClient \/ FreeMp \/ ClearMp
  <2>1. Hooks # {}
    BY OrderOfHooks DEF Hooks
  <2>2. CASE AllocateMp
    BY <2>2 DEF AllocateMp, DllGoes, DllStays, hooks, consoles
  <2>3. CASE CreateClient
    BY <2>1, <2>3 DEF CreateClient, WithoutClient, DllGoes, DllStays, hooks, consoles
  <2>4. CASE DestroyClient \/ FreeMp \/ ClearMp
    BY <2>4 DEF DestroyClient, FreeMp, ClearMp, DllGoes, DllStays, hooks, consoles
  <2> QED
    BY <1>8, <2>2, <2>3, <2>4
<1>9. CASE SetHook
  BY <1>9 DEF SetHook, DllGoes, DllStays, memory, consoles
<1>10. CASE StoreOriginal
  BY <1>10 DEF StoreOriginal, Stored, DllGoes, DllStays, memory, consoles
<1>11. CASE FailHook \/ PressF6 \/ SpawnWeapons \/ PressF12
  BY <1>11 DEF FailHook, PressF6, SpawnWeapons, PressF12, DllGoes, DllStays, hooks,
     memory, consoles
<1>12. CASE Unload
  BY <1>12 DEF Unload, DllGoes, hooks, memory, consoles
<1> QED
  BY <1>2, <1>3, <1>4, <1>5, <1>6, <1>7, <1>8, <1>9, <1>10, <1>11, <1>12
     DEF DllNext, DllThread, DllInstalls

LEMMA ConsoleStep ==
  ASSUME DllTypeOK, LifeInv, ConsoleInv, DllNext
  PROVE  ConsoleInv'
<1> USE DEF ConsoleInv, NotBegun, PlainTypes
<1>0. PlainTypes
  BY TypeParts
<1>1. CASE \E loads \in BOOLEAN : StartGame(loads)
  BY <1>1 DEF StartGame, LifeInv
<1>2. CASE StartOnlyFaults \/ QuitGame
  BY <1>2 DEF StartOnlyFaults, QuitGame, consoles
<1>3. CASE DllMain \/ LeaveLoading
  BY <1>3 DEF DllMain, LeaveLoading, consoles, LifeInv
<1>4. CASE EngineThread
  BY <1>4, EngineMoves DEF consoles
<1>5. CASE CreateConsole
  <2>1. dll = "console" /\ redirect' = redirect
    BY <1>5 DEF CreateConsole, DllGoes
  <2>2. CASE dll' = "redirect"
    <3>1. /\ console = "foreign" => existed' /\ console' = "foreign"
          /\ console = "none" => ~existed' /\ console' = "ours"
      BY <1>5, <2>2 DEF CreateConsole, DllGoes
    <3> QED
      BY <1>0, <2>1, <2>2, <3>1
  <2>3. CASE dll' = "unload"
    <3>1. console' = console /\ existed' = existed
      BY <1>5, <2>3 DEF CreateConsole, DllGoes
    <3> QED
      BY <1>0, <2>1, <2>3, <3>1
  <2> QED
    BY <1>5, <2>2, <2>3 DEF CreateConsole, DllGoes
<1>6. CASE RedirectOutput
  BY <1>0, <1>6 DEF RedirectOutput, DllGoes
<1>7. CASE DestroyConsole
  BY <1>0, <1>7 DEF DestroyConsole, ConsoleIsOurs, DllGoes
<1>8. CASE AllocateMp \/ CreateClient \/ DestroyClient \/ FreeMp \/ ClearMp
  BY <1>8 DEF AllocateMp, CreateClient, WithoutClient, DestroyClient, FreeMp, ClearMp,
     DllGoes, consoles
<1>9. CASE SetHook \/ StoreOriginal \/ FailHook
  BY <1>9 DEF SetHook, StoreOriginal, FailHook, DllGoes, consoles
<1>10. CASE PressF6 \/ SpawnWeapons \/ PressF12 \/ Unload
  BY <1>10 DEF PressF6, SpawnWeapons, PressF12, Unload, DllGoes, consoles
<1> QED
  BY <1>1, <1>2, <1>3, <1>4, <1>5, <1>6, <1>7, <1>8, <1>9, <1>10
     DEF DllNext, DllThread, DllInstalls

LEMMA DllInvariant == InjectionSpec => []DllInv
<1>1. InjectionInit => DllInv
  <2> SUFFICES ASSUME DllInit PROVE DllInv
    BY DEF InjectionInit
  <2>1. "engine" \notin Hooks /\ 0 \in 0 .. Len(HookOrder) /\ FirstHooks(0) = {}
    BY OrderOfHooks DEF Hooks, HookOrder
  <2>2. \E n \in 0 .. Len(HookOrder) : hooked = {HookOrder[i] : i \in 1 .. n}
    BY <2>1 DEF DllInit, FirstHooks
  <2>3. DllTypeOK
    BY <2>2 DEF DllInit, DllTypeOK
  <2> QED
    BY <2>1, <2>3 DEF DllInit, DllInv, LifeInv, ConsoleInv, NotBegun, Before
<1>2. DllInv /\ [InjectionNext]_vars => DllInv'
  <2> SUFFICES ASSUME DllInv, [InjectionNext]_vars PROVE DllInv'
    OBVIOUS
  <2>1. CASE DllNext
    BY <2>1, DllTypes, LifeStep, ConsoleStep DEF DllInv
  <2>2. CASE UNCHANGED dllVars
    <3>1. UNCHANGED <<game, at, dll, mapped, hooked, stored, mp, client, console,
                      existed, redirect>>
      BY <2>2 DEF dllVars, process, hooks, memory, consoles
    <3>2. InOrder' /\ PlainTypes'
      BY <3>1, TypeParts DEF DllInv, InOrder, PlainTypes
    <3> QED
      BY <3>1, <3>2, TypeParts DEF DllInv, LifeInv, ConsoleInv
  <2> QED
    BY <2>1, <2>2, ProcessMoves
<1> QED
  BY <1>1, <1>2, PTL DEF InjectionSpec

(* DllTypeOK: set_hooks_ sets the hooks in their order, and no hook is set    *)
(* before the original of the one before is stored.                           *)
THEOREM DllTypeCorrect == InjectionSpec => []DllTypeOK
BY DllInvariant, PTL DEF DllInv

(* ConsoleIsRestored: a DLL that has gone leaves the process with the console *)
(* that it found or with none, wherever its start failed; only the console of *)
(* a failed redirection stays.                                                *)
THEOREM ConsoleAlwaysRestored == InjectionSpec => []ConsoleIsRestored
<1>1. DllInv => ConsoleIsRestored
  BY DEF DllInv, ConsoleInv, ConsoleIsRestored
<1> QED
  BY <1>1, DllInvariant, PTL

(* GameIsSafe: no call of a hooked function meets an unloaded DLL, a missing  *)
(* original or freed memory while no hook is set, and none while the DLL      *)
(* waits for a key with all of them set.                                      *)
THEOREM GameStaysSafe == InjectionSpec => GameIsSafe
<1>1. DllInv /\ [InjectionNext]_vars
        => [game = "playing" /\ (hooked = {} \/ dll = "loop") => game' # "faulted"]_dllVars
  <2> SUFFICES ASSUME DllInv, [InjectionNext]_vars, game = "playing", game' = "faulted",
                      hooked = {} \/ dll = "loop"
               PROVE  FALSE
    OBVIOUS
  <2>1. EngineThread
    <3>1. DllNext
      BY ProcessMoves DEF dllVars, process
    <3>2. ~DllThread
      BY DllThreadStays
    <3> QED
      BY <3>1, <3>2 DEF DllNext, StartGame, StartOnlyFaults, QuitGame, DllMain,
         LeaveLoading
  <2>2. dll = "loop" => /\ mapped /\ mp = "live" /\ client = "live" /\ stored = Hooks
    BY DEF DllInv, LifeInv
  <2>3. dll = "loop" => \A h \in Hooks : FindsOriginal(h) /\ FindsClient(h)
    BY <2>2 DEF FindsOriginal, FindsClient
  <2>4. CASE FinishHook
    <3>1. at \in Hooks /\ ~(FindsOriginal(at) /\ FindsClient(at))
      BY <2>4 DEF FinishHook, EngineGoesTo
    <3>2. at \in hooked
      BY <3>1 DEF DllInv, LifeInv
    <3> QED
      BY <2>3, <3>1, <3>2
  <2>5. CASE RaceWithSpawn
    <3>1. dll = "spawn" /\ hooked = Hooks
      BY <2>5 DEF RaceWithSpawn, DllInv, LifeInv
    <3>2. Hooks # {}
      BY OrderOfHooks DEF Hooks
    <3> QED
      BY <3>1, <3>2
  <2>6. ASSUME NEW h \in Hooks, CallHooked(h) PROVE FALSE
    <3>1. h \in hooked /\ ~mapped
      BY <2>6 DEF CallHooked, EngineGoesTo
    <3> QED
      BY <2>2, <3>1
  <2> QED
    BY <2>1, <2>4, <2>5, <2>6 DEF EngineThread
<1> QED
  BY <1>1, DllInvariant, PTL DEF InjectionSpec, GameIsSafe
=============================================================================
