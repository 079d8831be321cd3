------------------------------ MODULE WinV_proofs ------------------------------
(***************************************************************************)
(* Proofs about WinV, for every set of combinations, any number of starts  *)
(* of the Explorer, of breakdowns, of edits of the registry and of ends of *)
(* the program.                                                            *)
(***************************************************************************)
EXTENDS WinV, TLAPS

-----------------------------------------------------------------------------
(* The inductive invariants.                                                *)

\* What is registered with Windows goes with the status; the status goes with
\* the option; the window about the reserve is shut while Win+V is in use.
SlotsInv ==
    /\ winV => reserve = NoCombo
    /\ step = "off" => status = "off" /\ ~winV
    /\ step # "off" =>
          /\ status = "active" <=> winV
          /\ ~raced => registered = reserve
    /\ status = "active" => ~conflict
    /\ status \in {"awaiting", "not_released", "active"} => config.option.on

\* The V of the program is in the registry and in the configuration; until
\* both are saved, the file may not know of it.
RecordInv ==
    /\ config.option.ours => config.option.on
    /\ file.option.ours => file.option.on
    /\ planted = "kept" =>
          /\ HasV(reg)
          /\ step # "off" => config.option.ours
          /\ step \in {"off", "starting", "idle"} => file.option.ours

\* Neither the session nor the file takes a V of the user for its own.
TheirsInv == theirs => HasV(reg) /\ ~file.option.ours /\ ~config.option.ours

\* The Explorer that runs is the last that started.  What the session has seen
\* and noted is not later than it.
ExplorerInv ==
    /\ shell \in {0, starts}
    /\ config.option.marker <= starts /\ file.option.marker <= starts
    /\ askedFor <= lastSeen /\ lastSeen <= starts
    /\ step = "off" => askedFor = 0
    /\ step # "off" /\ "clock" \in broken => blinded

\* A session that waits has seen no Explorer later than the one it waits on.
WaitingInv ==
    step # "off" /\ config.option.marker # 0 /\ ~blinded =>
        /\ status = "awaiting" => lastSeen <= config.option.marker
        /\ status \in {"awaiting", "off_awaiting"} =>
              shell \in {0, config.option.marker} \/ taskbar > 0 \/ missed

-----------------------------------------------------------------------------
(* Types.                                                                   *)

\* The values that the program finds, and those the user writes.
LEMMA ValueTypes ==
    /\ NoValue \in Value
    /\ [NoValue EXCEPT !.exists = TRUE, !.others = TRUE] \in Value
    /\ [NoValue EXCEPT !.exists = TRUE, !.lower = TRUE] \in Value
    /\ [NoValue EXCEPT !.exists = TRUE, !.upper = 1] \in Value
<1>1. NoValue \in Value
  BY DEF NoValue, Value
<1>2. ASSUME NEW b \in BOOLEAN
      PROVE  /\ [NoValue EXCEPT !.exists = b, !.others = b] \in Value
             /\ [NoValue EXCEPT !.exists = b, !.lower = b] \in Value
             /\ [NoValue EXCEPT !.exists = b, !.upper = 1] \in Value
  BY <1>1 DEF Value
<1>3. TRUE \in BOOLEAN
  OBVIOUS
<1>4. QED
  BY <1>1, <1>2, <1>3, Zenon

LEMMA RegistryTypes ==
    ASSUME NEW v \in Value
    PROVE  /\ AddV(v) \in Value /\ RemoveV(v) \in Value /\ NoValue \in Value
           /\ HasV(v) \in BOOLEAN
<1>1. v.upper + 1 \in Nat /\ (v.upper # 0 => v.upper - 1 \in Nat)
  BY DEF Value
<1>2. TRUE \in BOOLEAN
  OBVIOUS
<1>3. AddV(v) \in Value
  BY <1>1, <1>2, Zenon DEF Value, AddV
<1>4. RemoveV(v) \in Value /\ NoValue \in Value
  BY <1>1 DEF Value, RemoveV, NoValue
<1>5. HasV(v) \in BOOLEAN
  BY Zenon DEF HasV
<1>6. QED
  BY <1>3, <1>4, <1>5

LEMMA NowTypes == TypeOK => Now \in 0 .. MaxShell
BY WinVAssumption DEF TypeOK, Now

\* Whatever hotkey is registered, it is a combination or none.
LEMMA SlotTypes ==
    ASSUME TypeOK, TakeWinV \/ ReserveOnly \/ WinVOnly
    PROVE  /\ winV' \in BOOLEAN /\ raced' \in BOOLEAN
           /\ reserve' \in Combo \cup {NoCombo}
           /\ registered' \in Combo \cup {NoCombo}
<1>1. config.hotkey \in Combo
  BY DEF TypeOK, Settings
<1>2. CASE ReserveOnly
  BY <1>1, <1>2 DEF ReserveOnly
<1>3. CASE WinVOnly
  BY <1>3 DEF WinVOnly
<1>4. QED
  BY <1>2, <1>3 DEF TakeWinV

\* The options that the handlers write.
LEMMA OffTypes ==
    Off \in Option /\ \A m \in Nat : [Off EXCEPT !.marker = m] \in Option
BY DEF Off, Option

LEMMA OnTypes ==
    ASSUME TypeOK
    PROVE  [on |-> TRUE, ours |-> ~HasV(reg), marker |-> Now] \in Option
<1>1. (~HasV(reg)) \in BOOLEAN
  BY Zenon DEF HasV
<1>2. Now \in Nat /\ TRUE \in BOOLEAN
  BY NowTypes
<1>3. QED
  BY <1>1, <1>2, Zenon DEF Option

LEMMA OptionTypes ==
    ASSUME TypeOK, NEW o \in Option, NEW s \in Settings
    PROVE  [s EXCEPT !.option = o] \in Settings
BY DEF Settings

LEMMA PersistTypes ==
    ASSUME TypeOK, NEW o \in Option, PersistOption(o)
    PROVE  file' \in Settings
BY OptionTypes DEF PersistOption, TypeOK

LEMMA MarkerTypes ==
    ASSUME NEW s \in Settings, NEW m \in Nat
    PROVE  [s EXCEPT !.option.marker = m] \in Settings
BY DEF Settings, Option

LEMMA HotkeyTypes ==
    ASSUME NEW s \in Settings, NEW c \in Combo
    PROVE  [s EXCEPT !.hotkey = c] \in Settings
BY DEF Settings

\* What the three ways of switching off leave.
LEMMA DisableTypes ==
    ASSUME TypeOK, DisableSwitch
    PROVE  /\ reg' \in Value /\ planted' \in {"no", "kept", "lost"}
           /\ winV' \in BOOLEAN /\ raced' \in BOOLEAN
           /\ reserve' \in Combo \cup {NoCombo}
           /\ registered' \in Combo \cup {NoCombo}
           /\ status' \in {"off", "off_awaiting"}
           /\ config' \in Settings /\ config'.option \in Option
<1> DEFINE m == IF config.option.ours
                   /\ ~SameExplorer(config.option.marker, Now)
                THEN Now ELSE 0
<1>1. m \in Nat
  BY NowTypes
<1>2. config' = [config EXCEPT !.option = [Off EXCEPT !.marker = m]]
  BY DEF DisableSwitch
<1>3. config' \in Settings /\ config'.option \in Option
  BY <1>1, <1>2, OffTypes, OptionTypes DEF TypeOK, Settings
<1>4. reg' \in Value /\ planted' \in {"no", "kept", "lost"}
  BY RegistryTypes DEF DisableSwitch, TypeOK
<1>5. /\ winV' \in BOOLEAN /\ raced' \in BOOLEAN
      /\ reserve' \in Combo \cup {NoCombo}
      /\ registered' \in Combo \cup {NoCombo}
  BY SlotTypes DEF DisableSwitch, TypeOK, slots
<1>6. status' \in {"off", "off_awaiting"}
  BY DEF DisableSwitch
<1>7. QED
  BY <1>3, <1>4, <1>5, <1>6

LEMMA EventTypes ==
    ASSUME events \in 0 .. MaxEvents, Event
    PROVE  events' \in 0 .. MaxEvents
BY WinVAssumption DEF Event

\* The flags, which Zenon treats better than SMT.
Flags ==
    /\ shellHasWinV \in BOOLEAN /\ winV \in BOOLEAN /\ conflict \in BOOLEAN
    /\ told \in BOOLEAN /\ theirs \in BOOLEAN /\ blinded \in BOOLEAN
    /\ raced \in BOOLEAN /\ missed \in BOOLEAN

LEMMA FlagsStep == Flags /\ [Next]_vars => Flags'
<1> SUFFICES ASSUME Flags, [Next]_vars
             PROVE  Flags'
  OBVIOUS
<1> USE DEF Flags, slots, explorer, thread, counters, ghosts, windows
<1>1. CASE Persist
  BY <1>1, Zenon DEF Persist
<1>2. CASE UndoUnsavedEnable
  BY <1>2, Zenon DEF UndoUnsavedEnable, ReserveOnly
<1>3. CASE ExplorerReturned
  <2>0. (restart \in {"shutdown", "waiting"}) \in BOOLEAN
    OBVIOUS
  <2>1. CASE ReactOn
    BY <1>3, <2>0, <2>1, Zenon
       DEF ExplorerReturned, ReactOn, TakeWinV, WinVOnly, ReserveOnly,
           CloseConflictIf
  <2>2. CASE ReactOff
    BY <1>3, <2>0, <2>2, Zenon DEF ExplorerReturned, ReactOff
  <2>3. CASE UNCHANGED <<slots, windows>>
    BY <1>3, <2>0, <2>3, Zenon DEF ExplorerReturned
  <2>4. QED
    BY <1>3, <2>1, <2>2, <2>3, Zenon DEF ExplorerReturned
<1>4. CASE Done
  BY <1>4, Zenon DEF Done
<1>5. CASE Shutdown
  BY <1>5, Zenon DEF Shutdown, ThreadGoes
<1>6. CASE Wait
  BY <1>6, Zenon DEF Wait, ThreadGoes
<1>7. CASE Relaunch
  BY <1>7, Zenon DEF Relaunch, ThreadGoes, ShellStarts
<1>8. CASE Launch
  <2>1. ReserveOnly \/ WinVOnly
    BY <1>8 DEF Launch, StartOff, StartWithoutV, StartOn, TakeWinV
  <2>2. conflict' \in BOOLEAN
    BY <1>8, Zenon DEF Launch, StartOff, StartWithoutV, StartOn
  <2>3. winV' \in BOOLEAN /\ raced' \in BOOLEAN
    BY <2>1, Zenon DEF WinVOnly, ReserveOnly
  <2>0. ("clock" \in broken) \in BOOLEAN
    OBVIOUS
  <2>4. /\ blinded' \in BOOLEAN
        /\ UNCHANGED <<shellHasWinV, missed, told, theirs>>
    BY <1>8, <2>0, Zenon DEF Launch
  <2>5. QED
    BY <2>2, <2>3, <2>4
<1>9. CASE Enable
  BY <1>9, Zenon DEF Enable, TakeWinV, WinVOnly, ReserveOnly, CloseConflictIf
<1>10. CASE Disable
  BY <1>10, Zenon DEF Disable, DisableSwitch, ReserveOnly
<1>11. CASE RestoreReserve
  BY <1>11, Zenon DEF RestoreReserve
<1>12. CASE Save
  BY <1>12, Zenon DEF Save
<1>13. CASE TurnOff
  BY <1>13, Zenon DEF TurnOff, DisableSwitch, ReserveOnly
<1>14. CASE CloseFailure
  BY <1>14, Zenon DEF CloseFailure
<1>15. CASE CloseConflict
  BY <1>15, Zenon DEF CloseConflict
<1>16. CASE Begin
  BY <1>16, Zenon DEF Begin
<1>17. ASSUME NEW c \in Combo, ChangeReserve(c)
      PROVE  Flags'
  BY <1>17, Zenon DEF ChangeReserve
<1>18. ASSUME NEW c \in Combo, TryCombo(c)
      PROVE  Flags'
  BY <1>18, Zenon DEF TryCombo
<1>19. CASE Exit
  BY <1>19, Zenon DEF Exit
<1>20. CASE Uninstall
  BY <1>20, Zenon DEF Uninstall
<1>21. CASE EditRegistry
  BY <1>21, Zenon DEF EditRegistry
<1>22. CASE Explorer
  BY <1>22, Zenon DEF Explorer, ShellStarts, ShellEnds, Redraw
<1>23. ASSUME NEW h \in Combo \cup {"win_v"}, OtherProgram(h)
      PROVE  Flags'
  BY <1>23, Zenon DEF OtherProgram
<1>24. ASSUME NEW x \in {"registry", "disk", "clock"}, Breakdown(x)
      PROVE  Flags'
  BY <1>24, Zenon DEF Breakdown
<1>25. CASE UNCHANGED vars
  BY <1>25, Zenon DEF vars
<1>26. CASE TrayReady
  BY <1>26, Zenon DEF TrayReady
<1>27. QED
  BY <1>1, <1>2, <1>3, <1>4, <1>5, <1>6, <1>7, <1>8, <1>9, <1>10, <1>11,
     <1>12, <1>13, <1>14, <1>15, <1>16, <1>17, <1>18, <1>19, <1>20, <1>21,
     <1>22, <1>23, <1>24, <1>25, <1>26
     DEF Next, Handlers, RestartThread, User, World

LEMMA TypeInit == Init => TypeOK
<1> SUFFICES ASSUME Init
             PROVE  TypeOK
  OBVIOUS
<1>1. Flags
  BY Zenon DEF Init, Flags, HasV
<1>2. reg \in Value
  BY ValueTypes DEF Init
<1>3. PICK c \in Combo : file = [option |-> Off, hotkey |-> c]
  BY DEF Init
<1>4. file \in Settings /\ config \in Settings
  BY <1>3, OffTypes DEF Init, Settings
<1>5. QED
  BY <1>1, <1>2, <1>4, WinVAssumption DEF Init, TypeOK, Flags

LEMMA TypeStep == TypeOK /\ [Next]_vars => TypeOK'
<1> SUFFICES ASSUME TypeOK, [Next]_vars
             PROVE  TypeOK'
  OBVIOUS
<1> USE DEF TypeOK, slots, explorer, thread, counters, ghosts, windows
<1>0. Flags'
  BY FlagsStep DEF Flags
<1> USE DEF Flags
<1>1. CASE Persist
  BY <1>1, <1>0 DEF Persist, PersistAll
<1>2. CASE UndoUnsavedEnable
  <2>1. config.option \in Option
    BY DEF Settings
  <2>2. file' \in Settings
    BY <1>2, <2>1, PersistTypes DEF UndoUnsavedEnable
  <2>3. CASE "disk" \notin broken
    BY <1>2, <1>0, <2>2, <2>3 DEF UndoUnsavedEnable
  <2>4. CASE "disk" \in broken
    <3>1. config' \in Settings
      BY <1>2, <2>4, OffTypes, OptionTypes DEF UndoUnsavedEnable
    <3>2. reg' \in Value
      BY <1>2, <2>4, RegistryTypes DEF UndoUnsavedEnable
    <3>3. QED
      BY <1>2, <1>0, <2>2, <2>4, <3>1, <3>2, SlotTypes
         DEF UndoUnsavedEnable, Unnoted
  <2>5. QED
    BY <2>3, <2>4
<1>3. CASE ExplorerReturned
  <2>1. config' \in Settings /\ file' \in Settings
    <3>1. CASE ReactOff
      <4>1. config' \in Settings
        BY <3>1, MarkerTypes DEF ReactOff
      <4>2. QED
        BY <3>1, <4>1, PersistTypes DEF ReactOff, Settings
    <3>2. QED
      BY <1>3, <3>1 DEF ExplorerReturned, ReactOn
  <2>2. lastSeen' \in 0 .. MaxShell
    BY <1>3, NowTypes DEF ExplorerReturned, SeeExplorer
  <2>3. /\ reserve' \in Combo \cup {NoCombo}
        /\ registered' \in Combo \cup {NoCombo}
    BY <1>3, SlotTypes DEF ExplorerReturned, ReactOn, ReactOff
  <2>4. /\ status' \in {"off", "awaiting", "active", "not_released",
                        "off_awaiting"}
        /\ failure' \in {"closed", "asks", "told"}
        /\ askedFor' \in 0 .. MaxShell
    BY <1>3, NowTypes DEF ExplorerReturned, ReactOn, ReactOff
  <2>5. taskbar' \in 0 .. MaxTaskbar
    BY <1>3, WinVAssumption DEF ExplorerReturned
  <2>6. QED
    BY <1>3, <1>0, <2>1, <2>2, <2>3, <2>4, <2>5 DEF ExplorerReturned
<1>4. CASE Done
  BY <1>4, <1>0 DEF Done
<1>5. CASE Shutdown
  <2>1. /\ restart' \in {"done", "waiting"}
        /\ UNCHANGED <<reg, taken, broken, step, status, lastSeen, config, file,
                       slots, windows, counters, ghosts, starts, taskbar>>
    BY <1>5 DEF Shutdown, ThreadGoes
  <2>2. shell' \in 0 .. MaxShell
    BY <1>5, WinVAssumption DEF Shutdown
  <2>3. QED
    BY <1>0, <2>1, <2>2
<1>6. CASE Wait
  BY <1>6, <1>0 DEF Wait, ThreadGoes
<1>7. CASE Relaunch
  BY <1>7, <1>0, WinVAssumption DEF Relaunch, ThreadGoes, ShellStarts, HasV
<1>8. CASE Launch
  <2>1. config' \in Settings /\ file' \in Settings
    <3>1. CASE StartOff
      <4>1. config' \in Settings
        BY <3>1, MarkerTypes DEF StartOff, Settings, Option
      <4>2. QED
        BY <3>1, <4>1, PersistTypes DEF StartOff, Settings
    <3>2. CASE StartWithoutV
      BY <3>2, OffTypes, OptionTypes, PersistTypes DEF StartWithoutV
    <3>3. CASE StartOn
      BY <3>3 DEF StartOn
    <3>4. QED
      BY <1>8, <3>1, <3>2, <3>3 DEF Launch
  <2>2. lastSeen' \in 0 .. MaxShell
    BY <1>8, NowTypes DEF Launch
  <2>3. /\ reserve' \in Combo \cup {NoCombo}
        /\ registered' \in Combo \cup {NoCombo}
    BY <1>8, SlotTypes DEF Launch, StartOff, StartWithoutV, StartOn
  <2>4. /\ status' \in {"off", "awaiting", "active", "not_released",
                        "off_awaiting"}
        /\ failure' \in {"closed", "asks", "told"}
        /\ askedFor' \in 0 .. MaxShell
    BY <1>8, NowTypes, WinVAssumption
       DEF Launch, StartOff, StartWithoutV, StartOn
  <2>5. QED
    BY <1>8, <1>0, <2>1, <2>2, <2>3, <2>4 DEF Launch
<1>9. CASE Enable
  <2>1. config' \in Settings
    BY <1>9, OnTypes, OptionTypes DEF Enable
  <2>2. reg' \in Value
    BY <1>9, RegistryTypes DEF Enable
  <2>3. /\ reserve' \in Combo \cup {NoCombo}
        /\ registered' \in Combo \cup {NoCombo}
    BY <1>9, SlotTypes DEF Enable
  <2>4. QED
    BY <1>9, <1>0, <2>1, <2>2, <2>3 DEF Enable
<1>10. CASE Disable
  <2>1. DisableSwitch
    BY <1>10 DEF Disable
  <2>2. file' \in Settings
    BY <1>10, <2>1, DisableTypes DEF Disable, PersistAll
  <2>3. QED
    BY <1>10, <1>0, <2>1, <2>2, DisableTypes DEF Disable
<1>11. CASE RestoreReserve
  BY <1>11, <1>0, HotkeyTypes DEF RestoreReserve, Settings
<1>12. CASE Save
  BY <1>12, <1>0 DEF Save, PersistAll
<1>13. CASE TurnOff
  <2>1. DisableSwitch
    BY <1>13 DEF TurnOff
  <2>2. file' \in Settings
    BY <1>13, <2>1, DisableTypes, PersistTypes DEF TurnOff
  <2>3. QED
    BY <1>13, <1>0, <2>1, <2>2, DisableTypes DEF TurnOff
<1>14. CASE CloseFailure
  BY <1>14, <1>0 DEF CloseFailure
<1>15. CASE CloseConflict
  BY <1>15, <1>0 DEF CloseConflict
<1>16. CASE Begin
  BY <1>16, <1>0 DEF Begin
<1>17. ASSUME NEW c \in Combo, ChangeReserve(c)
      PROVE  TypeOK'
  BY <1>17, <1>0, HotkeyTypes, EventTypes DEF ChangeReserve
<1>18. ASSUME NEW c \in Combo, TryCombo(c)
      PROVE  TypeOK'
  BY <1>18, <1>0, HotkeyTypes DEF TryCombo
<1>19. CASE Exit
  BY <1>19, <1>0, WinVAssumption DEF Exit, Unnoted
<1>20. CASE Uninstall
  <2>1. file' \in Settings
    BY <1>20, OffTypes, OptionTypes DEF Uninstall
  <2>2. reg' \in Value
    BY <1>20, RegistryTypes DEF Uninstall
  <2>3. exits' \in 0 .. MaxExits /\ planted' \in {"no", "kept", "lost"}
    BY <1>20, WinVAssumption DEF Uninstall, Unnoted
  <2>4. QED
    BY <1>20, <1>0, <2>1, <2>2, <2>3 DEF Uninstall
<1>21. CASE EditRegistry
  <2>1. reg' \in Value
    BY <1>21, ValueTypes DEF EditRegistry
  <2>2. events' \in 0 .. MaxEvents
    BY <1>21, EventTypes DEF EditRegistry
  <2>3. QED
    BY <1>21, <1>0, <2>1, <2>2 DEF EditRegistry
<1>22. CASE Explorer
  BY <1>22, <1>0, WinVAssumption
     DEF Explorer, ShellStarts, ShellEnds, Redraw, HasV
<1>23. ASSUME NEW h \in Combo \cup {"win_v"}, OtherProgram(h)
      PROVE  TypeOK'
  BY <1>23, <1>0, EventTypes DEF OtherProgram
<1>24. ASSUME NEW x \in {"registry", "disk", "clock"}, Breakdown(x)
      PROVE  TypeOK'
  <2>1. events' \in 0 .. MaxEvents
    BY <1>24, EventTypes DEF Breakdown
  <2>2. broken' \in SUBSET {"registry", "disk", "clock"}
    BY <1>24 DEF Breakdown
  <2>3. QED
    BY <1>24, <1>0, <2>1, <2>2 DEF Breakdown
<1>25. CASE UNCHANGED vars
  BY <1>25 DEF vars
<1>26. CASE TrayReady
  BY <1>26, <1>0 DEF TrayReady
<1>27. QED
  BY <1>1, <1>2, <1>3, <1>4, <1>5, <1>6, <1>7, <1>8, <1>9, <1>10, <1>11,
     <1>12, <1>13, <1>14, <1>15, <1>16, <1>17, <1>18, <1>19, <1>20, <1>21,
     <1>22, <1>23, <1>24, <1>25, <1>26
     DEF Next, Handlers, RestartThread, User, World

\* Every variable keeps its type.
THEOREM TypeCorrect == Spec => []TypeOK
BY TypeInit, TypeStep, PTL DEF Spec

-----------------------------------------------------------------------------
(* The hotkeys.                                                             *)

\* What a handler takes from Windows: Win+V alone, or the reserve or nothing.
LEMMA SlotShapes ==
    ASSUME TakeWinV \/ ReserveOnly
    PROVE  /\ winV' => reserve' = NoCombo
           /\ registered' = reserve'
           /\ TakeWinV => (winV' <=> CanTakeWinV)
           /\ ReserveOnly => ~winV'
BY Zenon DEF TakeWinV, ReserveOnly, WinVOnly

LEMMA SwitchedOff ==
    ASSUME TypeOK, DisableSwitch
    PROVE  /\ status' \in {"off", "off_awaiting"}
           /\ ~config'.option.on /\ ~config'.option.ours
           /\ status = "active" => ReserveOnly
           /\ status # "active" => UNCHANGED slots
BY DEF TypeOK, DisableSwitch, Settings, Option, Off

LEMMA SlotsInit == Init => SlotsInv
BY DEF Init, SlotsInv, Off

LEMMA SlotsStep == TypeOK /\ SlotsInv /\ [Next]_vars => SlotsInv'
<1> SUFFICES ASSUME TypeOK, SlotsInv, [Next]_vars
             PROVE  SlotsInv'
  OBVIOUS
<1>0. config \in Settings /\ file \in Settings
  BY DEF TypeOK
<1> USE DEF SlotsInv, Idle, slots, explorer, thread, counters, ghosts, windows
<1>1. CASE Persist
  BY <1>1 DEF Persist
<1>2. CASE UndoUnsavedEnable
  BY <1>2, <1>0, SlotShapes DEF UndoUnsavedEnable, Settings, Option, Off
<1>3. CASE ExplorerReturned
  <2>1. CASE ReactOn
    BY <1>3, <2>1, SlotShapes DEF ExplorerReturned, ReactOn, CloseConflictIf
  <2>2. CASE ReactOff
    BY <1>3, <1>0, <2>2 DEF ExplorerReturned, ReactOff, Settings, Option
  <2>3. QED
    BY <1>3, <2>1, <2>2 DEF ExplorerReturned
<1>4. CASE Done
  BY <1>4 DEF Done
<1>5. CASE Shutdown
  BY <1>5 DEF Shutdown, ThreadGoes
<1>6. CASE Wait
  BY <1>6 DEF Wait, ThreadGoes
<1>7. CASE Relaunch
  BY <1>7 DEF Relaunch, ThreadGoes
<1>8. CASE Launch
  BY <1>8, <1>0, SlotShapes
     DEF Launch, StartOff, StartWithoutV, StartOn, Settings, Option, Off
<1>9. CASE Enable
  BY <1>9, <1>0, SlotShapes DEF Enable, CloseConflictIf, Settings, Option, Off
<1>10. CASE Disable
  BY <1>10, SwitchedOff, SlotShapes DEF Disable
<1>11. CASE RestoreReserve
  BY <1>11, <1>0 DEF RestoreReserve, Settings, Option
<1>12. CASE Save
  BY <1>12 DEF Save
<1>13. CASE TurnOff
  BY <1>13, SwitchedOff, SlotShapes DEF TurnOff
<1>14. CASE CloseFailure
  BY <1>14 DEF CloseFailure
<1>15. CASE CloseConflict
  BY <1>15 DEF CloseConflict
<1>16. CASE Begin
  BY <1>16 DEF Begin
<1>17. ASSUME NEW c \in Combo, ChangeReserve(c)
      PROVE  SlotsInv'
  BY <1>17, <1>0 DEF ChangeReserve, Settings, Option
<1>18. ASSUME NEW c \in Combo, TryCombo(c)
      PROVE  SlotsInv'
  BY <1>18, <1>0 DEF TryCombo, Settings, Option
<1>19. CASE Exit
  BY <1>19 DEF Exit
<1>20. CASE Uninstall
  BY <1>20 DEF Uninstall
<1>21. CASE EditRegistry
  BY <1>21 DEF EditRegistry
<1>22. CASE Explorer
  BY <1>22 DEF Explorer
<1>23. ASSUME NEW h \in Combo \cup {"win_v"}, OtherProgram(h)
      PROVE  SlotsInv'
  BY <1>23 DEF OtherProgram
<1>24. ASSUME NEW x \in {"registry", "disk", "clock"}, Breakdown(x)
      PROVE  SlotsInv'
  BY <1>24 DEF Breakdown
<1>25. CASE UNCHANGED vars
  BY <1>25 DEF vars
<1>26. CASE TrayReady
  BY <1>26 DEF TrayReady
<1>27. QED
  BY <1>1, <1>2, <1>3, <1>4, <1>5, <1>6, <1>7, <1>8, <1>9, <1>10, <1>11,
     <1>12, <1>13, <1>14, <1>15, <1>16, <1>17, <1>18, <1>19, <1>20, <1>21,
     <1>22, <1>23, <1>24, <1>25, <1>26
     DEF Next, Handlers, RestartThread, User, World

\* The program never holds Win+V and the reserve together.
THEOREM NeverBothHeld == Spec => []NeverBoth
<1>1. SlotsInv => NeverBoth
  BY DEF SlotsInv, NeverBoth
<1>2. QED
  BY <1>1, SlotsInit, SlotsStep, TypeCorrect, PTL DEF Spec

\* The status and the reserve shown are what Windows has registered.
THEOREM ShownIsRegistered == Spec => []SlotsKnown
<1>1. SlotsInv => SlotsKnown
  BY DEF SlotsInv, SlotsKnown
<1>2. QED
  BY <1>1, SlotsInit, SlotsStep, TypeCorrect, PTL DEF Spec

-----------------------------------------------------------------------------
(* The V in the registry.                                                   *)

\* Only the first capital V goes, and one more comes.
LEMMA VArithmetic ==
    ASSUME NEW v \in Value
    PROVE  HasV(AddV(v))
BY DEF Value, AddV, HasV

LEMMA RecordInit == Init => RecordInv /\ TheirsInv
BY DEF Init, RecordInv, TheirsInv, Off

LEMMA RecordStep == TypeOK /\ RecordInv /\ [Next]_vars => RecordInv'
<1> SUFFICES ASSUME TypeOK, RecordInv, [Next]_vars
             PROVE  RecordInv'
  OBVIOUS
<1>0. config \in Settings /\ file \in Settings /\ reg \in Value
  BY DEF TypeOK
<1> USE DEF RecordInv, Idle, counters, ghosts
<1>1. CASE Persist
  BY <1>1 DEF Persist, PersistAll, HasV
<1>2. CASE UndoUnsavedEnable
  BY <1>2, <1>0
     DEF UndoUnsavedEnable, PersistOption, Unnoted, HasV, Settings, Option,
         Off
<1>3. CASE ExplorerReturned
  <2>1. CASE ReactOn
    BY <1>3, <2>1 DEF ExplorerReturned, ReactOn, HasV
  <2>2. CASE ReactOff
    BY <1>3, <2>2, <1>0
       DEF ExplorerReturned, ReactOff, PersistOption, HasV, Settings, Option
  <2>3. CASE UNCHANGED <<status, config, file>>
    BY <1>3, <2>3 DEF ExplorerReturned, HasV
  <2>4. QED
    BY <1>3, <2>1, <2>2, <2>3 DEF ExplorerReturned
<1>4. CASE Done
  BY <1>4 DEF Done, HasV
<1>5. CASE Shutdown
  BY <1>5 DEF Shutdown, ThreadGoes, HasV
<1>6. CASE Wait
  BY <1>6 DEF Wait, ThreadGoes, HasV
<1>7. CASE Relaunch
  BY <1>7 DEF Relaunch, ThreadGoes, HasV
<1>8. CASE Launch
  BY <1>8, <1>0
     DEF Launch, StartOff, StartWithoutV, StartOn, PersistOption, HasV,
         Settings, Option, Off
<1>9. CASE Enable
  BY <1>9, <1>0, VArithmetic DEF Enable, Settings, Option, Off
<1>10. CASE Disable
  BY <1>10, <1>0, SwitchedOff DEF Disable, DisableSwitch, PersistAll
<1>11. CASE RestoreReserve
  BY <1>11, <1>0 DEF RestoreReserve, Settings, HasV
<1>12. CASE Save
  BY <1>12 DEF Save, PersistAll, HasV
<1>13. CASE TurnOff
  BY <1>13, <1>0, SwitchedOff
     DEF TurnOff, DisableSwitch, PersistOption, Settings
<1>14. CASE CloseFailure
  BY <1>14 DEF CloseFailure, HasV
<1>15. CASE CloseConflict
  BY <1>15 DEF CloseConflict, HasV
<1>16. CASE Begin
  BY <1>16 DEF Begin, HasV
<1>17. ASSUME NEW c \in Combo, ChangeReserve(c)
      PROVE  RecordInv'
  BY <1>17, <1>0 DEF ChangeReserve, Settings, HasV
<1>18. ASSUME NEW c \in Combo, TryCombo(c)
      PROVE  RecordInv'
  BY <1>18, <1>0 DEF TryCombo, Settings, HasV
<1>19. CASE Exit
  BY <1>19 DEF Exit, Unnoted, HasV
<1>20. CASE Uninstall
  BY <1>20, <1>0 DEF Uninstall, Unnoted, HasV, Settings, Option, Off
<1>21. CASE EditRegistry
  BY <1>21 DEF EditRegistry
<1>22. CASE Explorer
  BY <1>22 DEF Explorer, HasV
<1>23. ASSUME NEW h \in Combo \cup {"win_v"}, OtherProgram(h)
      PROVE  RecordInv'
  BY <1>23 DEF OtherProgram, HasV
<1>24. ASSUME NEW x \in {"registry", "disk", "clock"}, Breakdown(x)
      PROVE  RecordInv'
  BY <1>24 DEF Breakdown, HasV
<1>25. CASE UNCHANGED vars
  BY <1>25 DEF vars, HasV
<1>26. CASE TrayReady
  BY <1>26 DEF TrayReady, HasV
<1>27. QED
  BY <1>1, <1>2, <1>3, <1>4, <1>5, <1>6, <1>7, <1>8, <1>9, <1>10, <1>11,
     <1>12, <1>13, <1>14, <1>15, <1>16, <1>17, <1>18, <1>19, <1>20, <1>21,
     <1>22, <1>23, <1>24, <1>25, <1>26
     DEF Next, Handlers, RestartThread, User, World

\* A V of the program is on record in the file, or on its way there.
THEOREM VIsRecorded == Spec => []VIsOnRecord
<1>1. TypeOK /\ RecordInv => VIsOnRecord
  BY DEF TypeOK, RecordInv, VIsOnRecord
<1>2. QED
  BY <1>1, RecordInit, RecordStep, TypeCorrect, PTL DEF Spec

LEMMA TheirsStep == TypeOK /\ TheirsInv /\ [Next]_vars => TheirsInv'
<1> SUFFICES ASSUME TypeOK, TheirsInv, [Next]_vars
             PROVE  TheirsInv'
  OBVIOUS
<1>0. config \in Settings /\ file \in Settings /\ reg \in Value
  BY DEF TypeOK
<1> USE DEF TheirsInv, counters, ghosts
<1>1. CASE Persist
  BY <1>1 DEF Persist, PersistAll, HasV
<1>2. CASE UndoUnsavedEnable
  BY <1>2, <1>0
     DEF UndoUnsavedEnable, PersistOption, Unnoted, HasV, Settings, Option,
         Off
<1>3. CASE ExplorerReturned
  <2>1. CASE ReactOn
    BY <1>3, <2>1 DEF ExplorerReturned, ReactOn, HasV
  <2>2. CASE ReactOff
    BY <1>3, <2>2, <1>0
       DEF ExplorerReturned, ReactOff, PersistOption, HasV, Settings, Option
  <2>3. CASE UNCHANGED <<status, config, file>>
    BY <1>3, <2>3 DEF ExplorerReturned, HasV
  <2>4. QED
    BY <1>3, <2>1, <2>2, <2>3 DEF ExplorerReturned
<1>4. CASE Done
  BY <1>4 DEF Done, HasV
<1>5. CASE Shutdown
  BY <1>5 DEF Shutdown, ThreadGoes, HasV
<1>6. CASE Wait
  BY <1>6 DEF Wait, ThreadGoes, HasV
<1>7. CASE Relaunch
  BY <1>7 DEF Relaunch, ThreadGoes, HasV
<1>8. CASE Launch
  BY <1>8, <1>0
     DEF Launch, StartOff, StartWithoutV, StartOn, PersistOption, HasV,
         Settings, Option, Off
<1>9. CASE Enable
  BY <1>9, <1>0 DEF Enable, Settings, Option, Off
<1>10. CASE Disable
  BY <1>10, <1>0, SwitchedOff DEF Disable, DisableSwitch, PersistAll
<1>11. CASE RestoreReserve
  BY <1>11, <1>0 DEF RestoreReserve, Settings, HasV
<1>12. CASE Save
  BY <1>12 DEF Save, PersistAll, HasV
<1>13. CASE TurnOff
  BY <1>13, <1>0, SwitchedOff
     DEF TurnOff, DisableSwitch, PersistOption, Settings
<1>14. CASE CloseFailure
  BY <1>14 DEF CloseFailure, HasV
<1>15. CASE CloseConflict
  BY <1>15 DEF CloseConflict, HasV
<1>16. CASE Begin
  BY <1>16 DEF Begin, HasV
<1>17. ASSUME NEW c \in Combo, ChangeReserve(c)
      PROVE  TheirsInv'
  BY <1>17, <1>0 DEF ChangeReserve, Settings, HasV
<1>18. ASSUME NEW c \in Combo, TryCombo(c)
      PROVE  TheirsInv'
  BY <1>18, <1>0 DEF TryCombo, Settings, HasV
<1>19. CASE Exit
  BY <1>19 DEF Exit, Unnoted, HasV
<1>20. CASE Uninstall
  BY <1>20, <1>0 DEF Uninstall, Unnoted, HasV, Settings, Option, Off
<1>21. CASE EditRegistry
  BY <1>21 DEF EditRegistry, HasV
<1>22. CASE Explorer
  BY <1>22 DEF Explorer, HasV
<1>23. ASSUME NEW h \in Combo \cup {"win_v"}, OtherProgram(h)
      PROVE  TheirsInv'
  BY <1>23 DEF OtherProgram, HasV
<1>24. ASSUME NEW x \in {"registry", "disk", "clock"}, Breakdown(x)
      PROVE  TheirsInv'
  BY <1>24 DEF Breakdown, HasV
<1>25. CASE UNCHANGED vars
  BY <1>25 DEF vars, HasV
<1>26. CASE TrayReady
  BY <1>26 DEF TrayReady, HasV
<1>27. QED
  BY <1>1, <1>2, <1>3, <1>4, <1>5, <1>6, <1>7, <1>8, <1>9, <1>10, <1>11,
     <1>12, <1>13, <1>14, <1>15, <1>16, <1>17, <1>18, <1>19, <1>20, <1>21,
     <1>22, <1>23, <1>24, <1>25, <1>26
     DEF Next, Handlers, RestartThread, User, World

\* A V of the user stays until the user takes it out.
THEOREM TheirVIsKept == Spec => []TheirVStays
<1>1. TheirsInv => TheirVStays
  BY DEF TheirsInv, TheirVStays
<1>2. QED
  BY <1>1, RecordInit, TheirsStep, TypeCorrect, PTL DEF Spec

-----------------------------------------------------------------------------
(* The Explorer.                                                            *)

LEMMA ExplorerInit == Init => ExplorerInv /\ WaitingInv
BY DEF Init, ExplorerInv, WaitingInv, Off

LEMMA ExplorerStep == TypeOK /\ ExplorerInv /\ [Next]_vars => ExplorerInv'
<1> SUFFICES ASSUME TypeOK, ExplorerInv, [Next]_vars
             PROVE  ExplorerInv'
  OBVIOUS
<1>0. /\ config \in Settings /\ file \in Settings
      /\ starts \in Nat /\ lastSeen \in Nat /\ askedFor \in Nat
  BY WinVAssumption DEF TypeOK
<1>a. Now \in {0, starts}
  BY DEF ExplorerInv, Now
<1> USE DEF ExplorerInv, Idle, explorer, counters, ghosts
<1>1. CASE Persist
  BY <1>1 DEF Persist, PersistAll
<1>2. CASE UndoUnsavedEnable
  BY <1>2, <1>0 DEF UndoUnsavedEnable, PersistOption, Settings, Option, Off
<1>3. CASE ExplorerReturned
  <2>1. /\ lastSeen' = IF Now = 0 THEN lastSeen ELSE Now
        /\ UNCHANGED <<shell, starts, step, broken, blinded>>
    BY <1>3 DEF ExplorerReturned, SeeExplorer
  <2>2. askedFor' \in {askedFor, Now} /\ (askedFor' # askedFor => Now # 0)
    BY <1>3 DEF ExplorerReturned, ReactOn, ReactOff, Restarted
  <2>3. config'.option.marker <= starts /\ file'.option.marker <= starts
    <3>1. CASE ReactOff
      BY <1>0, <3>1 DEF ReactOff, PersistOption, Settings, Option
    <3>2. CASE UNCHANGED <<config, file>>
      BY <3>2
    <3>3. QED
      BY <1>3, <3>1, <3>2 DEF ExplorerReturned, ReactOn
  <2>4. lastSeen' <= starts /\ askedFor' <= lastSeen'
    BY <1>0, <1>a, <2>1, <2>2
  <2>5. QED
    BY <1>3, <2>1, <2>3, <2>4 DEF ExplorerReturned
<1>4. CASE Done
  BY <1>4 DEF Done
<1>5. CASE Shutdown
  BY <1>5 DEF Shutdown, ThreadGoes
<1>6. CASE Wait
  BY <1>6 DEF Wait, ThreadGoes
<1>7. CASE Relaunch
  <2>1. CASE ShellStarts
    BY <1>7, <1>0, <2>1
       DEF Relaunch, ThreadGoes, ShellStarts, Settings, Option
  <2>2. CASE UNCHANGED <<explorer, taskbar>>
    BY <1>7, <1>0, <2>2 DEF Relaunch, ThreadGoes
  <2>3. QED
    BY <1>7, <2>1, <2>2 DEF Relaunch
<1>8. CASE Launch
  <2>1. /\ lastSeen' = Now /\ ("clock" \in broken => blinded')
        /\ UNCHANGED <<shell, starts, broken>> /\ step' = "starting"
    BY <1>8 DEF Launch
  <2>2. askedFor' \in {0, Now}
    BY <1>8 DEF Launch, StartOff, StartWithoutV, StartOn
  <2>3. config'.option.marker <= starts /\ file'.option.marker <= starts
    <3>1. CASE StartOff
      BY <1>0, <3>1 DEF StartOff, PersistOption, Settings, Option
    <3>2. CASE StartWithoutV
      BY <1>0, <3>2 DEF StartWithoutV, PersistOption, Settings, Option, Off
    <3>3. CASE StartOn
      BY <3>3 DEF StartOn
    <3>4. QED
      BY <1>8, <3>1, <3>2, <3>3 DEF Launch
  <2>4. QED
    BY <1>0, <1>a, <2>1, <2>2, <2>3
<1>9. CASE Enable
  BY <1>9, <1>0, <1>a DEF Enable, Settings, Option, Off
<1>10. CASE Disable
  BY <1>10, <1>0, <1>a
     DEF Disable, DisableSwitch, PersistAll, Settings, Option, Off
<1>11. CASE RestoreReserve
  BY <1>11, <1>0 DEF RestoreReserve, Settings, Option
<1>12. CASE Save
  BY <1>12 DEF Save, PersistAll
<1>13. CASE TurnOff
  BY <1>13, <1>0, <1>a
     DEF TurnOff, DisableSwitch, PersistOption, Settings, Option, Off
<1>14. CASE CloseFailure
  BY <1>14 DEF CloseFailure
<1>15. CASE CloseConflict
  BY <1>15 DEF CloseConflict
<1>16. CASE Begin
  BY <1>16 DEF Begin
<1>17. ASSUME NEW c \in Combo, ChangeReserve(c)
      PROVE  ExplorerInv'
  BY <1>17, <1>0 DEF ChangeReserve, Settings, Option
<1>18. ASSUME NEW c \in Combo, TryCombo(c)
      PROVE  ExplorerInv'
  BY <1>18, <1>0 DEF TryCombo, Settings, Option
<1>19. CASE Exit
  BY <1>19, <1>0 DEF Exit
<1>20. CASE Uninstall
  BY <1>20, <1>0 DEF Uninstall, Settings, Option, Off
<1>21. CASE EditRegistry
  BY <1>21 DEF EditRegistry
<1>22. CASE Explorer
  <2>1. CASE ShellStarts
    BY <1>22, <1>0, <2>1 DEF Explorer, ShellStarts, Settings, Option
  <2>2. CASE ShellEnds \/ Redraw
    BY <1>22, <1>0, <2>2 DEF Explorer, ShellEnds, Redraw
  <2>3. QED
    BY <1>22, <2>1, <2>2 DEF Explorer
<1>23. ASSUME NEW h \in Combo \cup {"win_v"}, OtherProgram(h)
      PROVE  ExplorerInv'
  BY <1>23 DEF OtherProgram
<1>24. ASSUME NEW x \in {"registry", "disk", "clock"}, Breakdown(x)
      PROVE  ExplorerInv'
  BY <1>24 DEF Breakdown
<1>25. CASE UNCHANGED vars
  BY <1>25 DEF vars
<1>26. CASE TrayReady
  BY <1>26 DEF TrayReady
<1>27. QED
  BY <1>1, <1>2, <1>3, <1>4, <1>5, <1>6, <1>7, <1>8, <1>9, <1>10, <1>11,
     <1>12, <1>13, <1>14, <1>15, <1>16, <1>17, <1>18, <1>19, <1>20, <1>21,
     <1>22, <1>23, <1>24, <1>25, <1>26
     DEF Next, Handlers, RestartThread, User, World

LEMMA WaitingStep ==
    TypeOK /\ ExplorerInv /\ WaitingInv /\ [Next]_vars => WaitingInv'
<1> SUFFICES ASSUME TypeOK, ExplorerInv, WaitingInv, [Next]_vars
             PROVE  WaitingInv'
  OBVIOUS
<1>0. /\ config \in Settings /\ file \in Settings
      /\ starts \in Nat /\ lastSeen \in Nat /\ taskbar \in Nat
      /\ shell \in {0, starts} /\ lastSeen <= starts
      /\ config.option.marker <= starts /\ config.option.marker \in Nat
  BY WinVAssumption DEF TypeOK, ExplorerInv, Settings, Option
<1>a. /\ Now \in {0, shell}
      /\ step # "off" /\ ~blinded => Now = shell
      /\ "clock" \notin broken => Now = shell
  BY DEF ExplorerInv, Now
<1>b. ASSUME ShellStarts, UNCHANGED <<step, config, blinded, lastSeen, status>>
      PROVE  WaitingInv'
  <2>1. step = "starting" => missed'
    BY <1>b, Zenon DEF ShellStarts
  <2>2. step \notin {"off", "starting"} => taskbar' = taskbar + 1
    BY <1>b DEF ShellStarts
  <2>3. QED
    BY <1>b, <1>0, <2>1, <2>2 DEF WaitingInv
<1> USE DEF WaitingInv, Idle, explorer, counters, ghosts
<1>1. CASE Persist
  BY <1>1 DEF Persist, PersistAll
<1>2. CASE UndoUnsavedEnable
  BY <1>2, <1>0 DEF UndoUnsavedEnable, PersistOption, Settings, Option, Off
<1>3. CASE ExplorerReturned
  <2>1. /\ lastSeen' = IF Now = 0 THEN lastSeen ELSE Now
        /\ UNCHANGED <<shell, starts, step, blinded>>
    BY <1>3 DEF ExplorerReturned, SeeExplorer
  <2>2. CASE ReactOn /\ status' \in {"awaiting", "off_awaiting"}
    <3>1. /\ status = "awaiting" /\ ~Restarted
          /\ UNCHANGED <<status, config>>
      BY <2>2 DEF ReactOn
    <3>2. QED
      BY <1>3, <1>0, <1>a, <2>1, <3>1 DEF ExplorerReturned, Restarted
  <2>3. CASE ReactOff /\ status' \in {"awaiting", "off_awaiting"}
    <3>1. /\ Now = 0 \/ Now = config.option.marker
          /\ status' # "awaiting" /\ UNCHANGED config
      BY <2>3 DEF ReactOff
    <3>2. QED
      BY <1>3, <1>0, <1>a, <2>1, <3>1 DEF ExplorerReturned
  <2>4. CASE status' \notin {"awaiting", "off_awaiting"}
    BY <2>4
  <2>5. QED
    BY <1>3, <2>2, <2>3, <2>4 DEF ExplorerReturned
<1>4. CASE Done
  BY <1>4 DEF Done
<1>5. CASE Shutdown
  BY <1>5 DEF Shutdown, ThreadGoes
<1>6. CASE Wait
  BY <1>6 DEF Wait, ThreadGoes
<1>7. CASE Relaunch
  <2>1. CASE ShellStarts
    BY <1>7, <1>b, <2>1 DEF Relaunch, ThreadGoes
  <2>2. CASE UNCHANGED <<explorer, taskbar>>
    BY <1>7, <2>2 DEF Relaunch, ThreadGoes
  <2>3. QED
    BY <1>7, <2>1, <2>2 DEF Relaunch
<1>8. CASE Launch
  <2>0. ~blinded' => Now = shell
    BY <1>8, <1>a DEF Launch
  <2>1. CASE StartOff
    BY <1>8, <1>0, <1>a, <2>0, <2>1
       DEF Launch, StartOff, OtherExplorer, Settings, Option
  <2>2. CASE StartWithoutV
    BY <1>8, <2>2 DEF Launch, StartWithoutV
  <2>3. CASE StartOn
    <3>1. /\ config' = file
          /\ status' = "off_awaiting" \/ status' = "awaiting"
                => ~OtherExplorer(file.option.marker, Now)
      BY <2>3 DEF StartOn
    <3>2. lastSeen' = Now /\ UNCHANGED shell
      BY <1>8 DEF Launch
    <3>3. file.option.marker \in Nat
      BY <1>0 DEF Settings, Option
    <3>4. QED
      BY <1>0, <2>0, <3>1, <3>2, <3>3 DEF OtherExplorer
  <2>4. QED
    BY <1>8, <2>1, <2>2, <2>3 DEF Launch
<1>9. CASE Enable
  BY <1>9, <1>0, <1>a DEF Enable, Settings, Option, Off
<1>10. CASE Disable
  BY <1>10, <1>0, <1>a
     DEF Disable, DisableSwitch, SameExplorer, Settings, Option, Off
<1>11. CASE RestoreReserve
  BY <1>11, <1>0 DEF RestoreReserve, Settings, Option
<1>12. CASE Save
  BY <1>12 DEF Save, PersistAll
<1>13. CASE TurnOff
  BY <1>13, <1>0, <1>a
     DEF TurnOff, DisableSwitch, SameExplorer, Settings, Option, Off
<1>14. CASE CloseFailure
  BY <1>14 DEF CloseFailure
<1>15. CASE CloseConflict
  BY <1>15 DEF CloseConflict
<1>16. CASE Begin
  BY <1>16 DEF Begin
<1>17. ASSUME NEW c \in Combo, ChangeReserve(c)
      PROVE  WaitingInv'
  BY <1>17, <1>0 DEF ChangeReserve, Settings, Option
<1>18. ASSUME NEW c \in Combo, TryCombo(c)
      PROVE  WaitingInv'
  BY <1>18, <1>0 DEF TryCombo, Settings, Option
<1>19. CASE Exit
  BY <1>19, <1>0 DEF Exit
<1>20. CASE Uninstall
  BY <1>20, <1>0 DEF Uninstall, Settings, Option, Off
<1>21. CASE EditRegistry
  BY <1>21 DEF EditRegistry
<1>22. CASE Explorer
  <2>1. CASE ShellStarts
    BY <1>22, <1>b, <2>1 DEF Explorer
  <2>2. CASE ShellEnds \/ Redraw
    BY <1>22, <1>0, <2>2 DEF Explorer, ShellEnds, Redraw
  <2>3. QED
    BY <1>22, <2>1, <2>2 DEF Explorer
<1>23. ASSUME NEW h \in Combo \cup {"win_v"}, OtherProgram(h)
      PROVE  WaitingInv'
  BY <1>23 DEF OtherProgram
<1>24. ASSUME NEW x \in {"registry", "disk", "clock"}, Breakdown(x)
      PROVE  WaitingInv'
  BY <1>24 DEF Breakdown
<1>25. CASE UNCHANGED vars
  BY <1>25 DEF vars
<1>26. CASE TrayReady
  BY <1>26 DEF TrayReady
<1>27. QED
  BY <1>1, <1>2, <1>3, <1>4, <1>5, <1>6, <1>7, <1>8, <1>9, <1>10, <1>11,
     <1>12, <1>13, <1>14, <1>15, <1>16, <1>17, <1>18, <1>19, <1>20, <1>21,
     <1>22, <1>23, <1>24, <1>25, <1>26
     DEF Next, Handlers, RestartThread, User, World

\* While the program waits for a restart, the Explorer it waits on still runs
\* or news of another is on its way, unless that one started while the program
\* had read the start time and not yet created the window for the news.
THEOREM RestartIsAwaited == Spec => []WaitsForARestart
<1>1. WaitingInv => WaitsForARestart
  BY DEF WaitingInv, WaitsForARestart, Idle
<1>2. QED
  BY <1>1, ExplorerInit, ExplorerStep, WaitingStep, TypeCorrect, PTL DEF Spec

\* A session complains about the same Explorer once.
THEOREM ComplainsOnce == Spec => AskedOncePerExplorer
<1> DEFINE Complains == Idle /\ failure = "closed" /\ failure' = "asks"
<1>1. ASSUME TypeOK, ExplorerInv, [Next]_vars, Complains
      PROVE  Now # askedFor
  <2>0. lastSeen \in Nat /\ starts \in Nat /\ askedFor \in Nat
    BY <1>1, WinVAssumption DEF TypeOK
  <2>1. ExplorerReturned /\ ReactOn
    BY <1>1
       DEF Next, Handlers, RestartThread, User, World, vars, windows, Idle,
           TrayReady, Persist, UndoUnsavedEnable, ExplorerReturned, ReactOff, Done,
           Shutdown, Wait, Relaunch, ThreadGoes, Launch, Enable, Disable,
           RestoreReserve, Save, TurnOff, CloseFailure, CloseConflict, Begin,
           ChangeReserve, TryCombo, Exit, Uninstall, EditRegistry, Explorer,
           OtherProgram, Breakdown
  <2>2. Now # 0 /\ Now # lastSeen
    BY <1>1, <2>1 DEF ReactOn, Restarted, windows
  <2>3. Now = starts /\ askedFor <= lastSeen /\ lastSeen <= starts
    BY <1>1, <2>2 DEF ExplorerInv, Now
  <2>4. QED
    BY <2>0, <2>2, <2>3
<1>2. TypeOK /\ ExplorerInv /\ [Next]_vars => [Complains => Now # askedFor]_vars
  BY <1>1
<1>3. QED
  BY <1>2, ExplorerInit, ExplorerStep, TypeCorrect, PTL
     DEF Spec, AskedOncePerExplorer

=============================================================================
