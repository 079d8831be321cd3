--------------------------------- MODULE WinV ---------------------------------
(***************************************************************************)
(* The option "open with Win+V".  The Explorer owns Win+V unless the value *)
(* DisabledHotkeys of the registry holds a V when the Explorer starts.     *)
(* Switching the option on adds the V; the program can take Win+V once the *)
(* Explorer has started again, and until then its other hotkey, the        *)
(* reserve, is in use.  Switching it off takes the V out again, but only a *)
(* V the program has put there itself.                                     *)
(*                                                                         *)
(* The UI thread runs one handler at a time.  The Explorer starts and ends *)
(* on its own or through the button of the Settings, whose thread waits    *)
(* for it; other programs take and release hotkeys; the user may edit the  *)
(* registry; the registry, the disk and the reading of the time at which   *)
(* the Explorer started may fail for a while; the program may end.         *)
(***************************************************************************)
EXTENDS Naturals

CONSTANTS
    Combo,              \* combinations for the reserve
    NoCombo,            \* no combination
    MaxShell,           \* bound: starts of the Explorer
    MaxTaskbar,         \* bound: TaskbarCreated messages not handled
    MaxEvents,          \* bound: edits of the registry, hotkeys that other
                        \* programs take, and breakdowns, together
    MaxExits            \* bound: ends of the program

ASSUME WinVAssumption ==
    /\ NoCombo \notin Combo
    /\ "win_v" \notin Combo
    /\ MaxShell \in Nat \ {0} /\ MaxTaskbar \in Nat
    /\ MaxEvents \in Nat /\ MaxExits \in Nat

VARIABLES
    reg,                \* the value DisabledHotkeys
    shell, starts,      \* the Explorer that runs (0: none) and how many started
    shellHasWinV,       \* that Explorer owns Win+V
    taken,              \* hotkeys of other programs
    broken,             \* what fails at present
    step,               \* what the UI thread is in the middle of
    status,             \* WinVStatus
    lastSeen,           \* WinVRuntime::last_seen
    config, file,       \* the shared configuration and config.toml
    winV, reserve,      \* what is registered with Windows
    registered,         \* what the program takes for its registered reserve
    failure, conflict,  \* the window about Win+V and the one about the reserve
    taskbar,            \* TaskbarCreated messages on their way
    restart, told,      \* the thread of the button, and its channel
    events, exits,      \* counters for the bounds
    planted,            \* ghost: the V of the program in the registry, where
                        \* "lost" is one the program could not note
    theirs,             \* ghost: the registry has a V the program never claimed
    blinded,            \* ghost: the time of the Explorer could not be read
    raced,              \* ghost: the reserve was lost in the middle of a swap
    askedFor,           \* ghost: Explorer the session has last complained about
    missed              \* ghost: the Explorer that runs has started before the
                        \* window that receives TaskbarCreated existed

slots == <<winV, reserve, registered, raced>>
explorer == <<shell, starts, shellHasWinV, missed>>
thread == <<restart, told>>
counters == <<events, exits>>
ghosts == <<planted, theirs, blinded, askedFor>>
windows == <<failure, conflict>>
vars == <<reg, explorer, taken, broken, step, status, lastSeen, config, file,
          slots, windows, taskbar, thread, counters, ghosts>>

-----------------------------------------------------------------------------
(* The registry value: how many capital Vs, whether a small v and whether   *)
(* other characters are in it.                                              *)

Value == [exists : BOOLEAN, upper : Nat, lower : BOOLEAN, others : BOOLEAN]

NoValue == [exists |-> FALSE, upper |-> 0, lower |-> FALSE, others |-> FALSE]

HasV(v) == v.upper > 0 \/ v.lower

AddV(v) == [v EXCEPT !.exists = TRUE, !.upper = @ + 1]

\* Mutant of RemoveV: the value is cut without looking for the V.
RemoveV_Blind(v) ==
    IF v.upper <= 1 /\ ~v.lower /\ ~v.others THEN NoValue
    ELSE [v EXCEPT !.upper = @ - 1]

\* The first capital V goes; a value that would be empty is deleted.
RemoveV(v) ==
    IF v.upper = 0 THEN v
    ELSE IF v.upper = 1 /\ ~v.lower /\ ~v.others THEN NoValue
    ELSE [v EXCEPT !.upper = @ - 1]

Option == [on : BOOLEAN, ours : BOOLEAN, marker : Nat]

Off == [on |-> FALSE, ours |-> FALSE, marker |-> 0]

Settings == [option : Option, hotkey : Combo]

\* explorer_instance::shell_started_at; the start times are 1, 2, ...
Now == IF "clock" \in broken THEN 0 ELSE shell

SameExplorer(marker, now) == marker # 0 /\ now # 0 /\ marker = now

OtherExplorer(marker, now) == marker # 0 /\ now # 0 /\ marker # now

Idle == step = "idle"

Event == events < MaxEvents /\ events' = events + 1

Unnoted == IF planted = "no" THEN "no" ELSE "lost"

-----------------------------------------------------------------------------
(* The two hotkeys.                                                         *)

CanTakeWinV == ~shellHasWinV /\ "win_v" \notin taken

WinVOnly ==
    /\ winV' = TRUE /\ reserve' = NoCombo
    /\ registered' = NoCombo /\ raced' = FALSE

ReserveOnly ==
    /\ winV' = FALSE
    /\ reserve' = IF config.hotkey \in taken THEN NoCombo ELSE config.hotkey
    /\ registered' = reserve' /\ raced' = FALSE

\* take_win_v: the reserve is released and comes back when Win+V is refused.
TakeWinV == IF CanTakeWinV THEN WinVOnly ELSE ReserveOnly

\* Mutant of CloseConflictIf: Win+V leaves the window about the reserve open.
CloseConflictIf_Never(active) == UNCHANGED conflict

\* set_status.
CloseConflictIf(active) == conflict' = (conflict /\ ~active)

\* adopt with persist: only the fields of the option go to the file.
PersistOption(option) ==
    file' = IF "disk" \in broken THEN file
            ELSE [file EXCEPT !.option = option]

PersistAll(c) == file' = IF "disk" \in broken THEN file ELSE c

-----------------------------------------------------------------------------
Init ==
    /\ reg \in {NoValue,
                [NoValue EXCEPT !.exists = TRUE, !.others = TRUE],
                [NoValue EXCEPT !.exists = TRUE, !.lower = TRUE]}
    /\ shell = 1 /\ starts = 1 /\ shellHasWinV = ~HasV(reg)
    /\ taken = {} /\ broken = {}
    /\ step = "off" /\ status = "off" /\ lastSeen = 0
    /\ \E c \in Combo : file = [option |-> Off, hotkey |-> c]
    /\ config = file
    /\ winV = FALSE /\ reserve = NoCombo /\ registered = NoCombo
    /\ failure = "closed" /\ conflict = FALSE
    /\ taskbar = 0
    /\ restart = "none" /\ told = FALSE
    /\ events = 0 /\ exits = 0
    /\ planted = "no" /\ theirs = HasV(reg)
    /\ blinded = FALSE /\ raced = FALSE /\ askedFor = 0 /\ missed = FALSE

-----------------------------------------------------------------------------
(* Startup.                                                                 *)

\* The option is off: only the wait for the Explorer may have to end.
StartOff ==
    /\ ~file.option.on
    /\ LET waits == /\ file.option.marker # 0
                    /\ ~OtherExplorer(file.option.marker, Now)
       IN  /\ status' = IF waits THEN "off_awaiting" ELSE "off"
           /\ config' = [file EXCEPT !.option.marker = IF waits THEN @ ELSE 0]
    /\ PersistOption(config'.option)
    /\ ReserveOnly
    /\ conflict' = (reserve' = NoCombo)
    /\ UNCHANGED <<failure, askedFor>>

\* The V is gone, by hand or by an uninstallation that kept the data.
StartWithoutV ==
    /\ file.option.on /\ "registry" \notin broken /\ ~HasV(reg)
    /\ status' = "off"
    /\ config' = [file EXCEPT !.option = Off]
    /\ PersistOption(Off)
    /\ ReserveOnly
    /\ conflict' = (reserve' = NoCombo)
    /\ UNCHANGED <<failure, askedFor>>

StartOn ==
    /\ file.option.on /\ ("registry" \in broken \/ HasV(reg))
    /\ config' = file
    /\ TakeWinV
    /\ LET refused == OtherExplorer(file.option.marker, Now)
       IN  /\ status' = IF CanTakeWinV THEN "active"
                        ELSE IF refused THEN "not_released" ELSE "awaiting"
           /\ failure' = IF ~CanTakeWinV /\ refused THEN "asks" ELSE "closed"
           /\ askedFor' = IF failure' = "asks" THEN Now ELSE 0
           /\ conflict' = (~CanTakeWinV /\ ~refused /\ reserve' = NoCombo)
    /\ UNCHANGED file

\* WinVRuntime::startup and the window run.rs opens after it.
Launch ==
    /\ step = "off"
    /\ step' = "starting"
    /\ lastSeen' = Now
    /\ blinded' = ("clock" \in broken)
    /\ StartOff \/ StartWithoutV \/ StartOn
    /\ UNCHANGED <<reg, explorer, taken, broken, taskbar, thread, counters,
                   planted, theirs>>

\* Tray::create: from here on there is a window that receives TaskbarCreated,
\* and soon the message loop.
TrayReady ==
    /\ step = "starting"
    /\ step' = "idle"
    /\ UNCHANGED <<reg, explorer, taken, broken, status, lastSeen, config,
                   file, slots, windows, taskbar, thread, counters, ghosts>>

-----------------------------------------------------------------------------
(* The Settings.  An error of the registry leaves all as it was.            *)

\* Mutant of Enable: every V counts as the program's own.
Enable_AllOurs ==
    /\ Idle /\ ~config.option.on
    /\ "registry" \notin broken
    /\ config' = [config EXCEPT !.option = [on |-> TRUE, ours |-> TRUE,
                                            marker |-> Now]]
    /\ IF HasV(reg)
       THEN /\ TakeWinV
            /\ status' = IF CanTakeWinV THEN "active" ELSE "awaiting"
            /\ CloseConflictIf(CanTakeWinV)
            /\ UNCHANGED <<reg, planted>>
       ELSE /\ reg' = AddV(reg) /\ planted' = "kept"
            /\ status' = "awaiting"
            /\ UNCHANGED <<slots, conflict>>
    /\ step' = "persist"
    /\ UNCHANGED <<explorer, taken, broken, lastSeen, file, failure, taskbar,
                   thread, counters, theirs, blinded, askedFor>>

\* With a V of its own, the Explorer that runs still owns Win+V; with a V
\* that was there, Win+V may be free already.
Enable ==
    /\ Idle /\ ~config.option.on
    /\ "registry" \notin broken
    /\ config' = [config EXCEPT !.option = [on |-> TRUE, ours |-> ~HasV(reg),
                                            marker |-> Now]]
    /\ IF HasV(reg)
       THEN /\ TakeWinV
            /\ status' = IF CanTakeWinV THEN "active" ELSE "awaiting"
            /\ CloseConflictIf(CanTakeWinV)
            /\ UNCHANGED <<reg, planted>>
       ELSE /\ reg' = AddV(reg) /\ planted' = "kept"
            /\ status' = "awaiting"
            /\ UNCHANGED <<slots, conflict>>
    /\ step' = "persist"
    /\ UNCHANGED <<explorer, taken, broken, lastSeen, file, failure, taskbar,
                   thread, counters, theirs, blinded, askedFor>>

\* Effect::Persist after the option was switched on.
Persist ==
    /\ step = "persist"
    /\ PersistAll(config)
    /\ step' = IF "disk" \in broken THEN "persist_fields" ELSE "idle"
    /\ UNCHANGED <<reg, explorer, taken, broken, status, lastSeen, config,
                   slots, windows, taskbar, thread, counters, ghosts>>

\* Mutant of UndoUnsavedEnable: the V stays when nothing could be saved.
UndoUnsavedEnable_KeepV ==
    /\ step = "persist_fields"
    /\ PersistOption(config.option)
    /\ step' = "idle"
    /\ UNCHANGED <<reg, explorer, taken, broken, status, lastSeen, config,
                   slots, windows, taskbar, thread, counters, ghosts>>

\* Mutant of UndoUnsavedEnable: Win+V stays registered.
UndoUnsavedEnable_KeepSlots ==
    /\ step = "persist_fields"
    /\ PersistOption(config.option)
    /\ step' = "idle"
    /\ IF "disk" \notin broken
       THEN UNCHANGED <<reg, planted, slots, status, config>>
       ELSE /\ IF config.option.ours /\ "registry" \notin broken
               THEN reg' = RemoveV(reg) /\ planted' = "no"
               ELSE UNCHANGED reg /\ planted' = Unnoted
            /\ status' = "off"
            /\ config' = [config EXCEPT !.option = Off]
            /\ UNCHANGED slots
    /\ UNCHANGED <<explorer, taken, broken, lastSeen, windows, taskbar, thread,
                   counters, theirs, blinded, askedFor>>

\* undo_unsaved_enable: the fields alone are saved, or all is taken back.
UndoUnsavedEnable ==
    /\ step = "persist_fields"
    /\ PersistOption(config.option)
    /\ step' = "idle"
    /\ IF "disk" \notin broken
       THEN UNCHANGED <<reg, planted, slots, status, config>>
       ELSE /\ IF config.option.ours /\ "registry" \notin broken
               THEN reg' = RemoveV(reg) /\ planted' = "no"
               ELSE UNCHANGED reg /\ planted' = Unnoted
            /\ IF status = "active" THEN ReserveOnly ELSE UNCHANGED slots
            /\ status' = "off"
            /\ config' = [config EXCEPT !.option = Off]
    /\ UNCHANGED <<explorer, taken, broken, lastSeen, windows, taskbar, thread,
                   counters, theirs, blinded, askedFor>>

\* Mutant of DisableSwitch: the marker is not renewed.
DisableSwitch_OldMarker ==
    LET ours == config.option.ours
        waits == ours /\ ~SameExplorer(config.option.marker, Now)
    IN  /\ ours => "registry" \notin broken
        /\ reg' = IF ours THEN RemoveV(reg) ELSE reg
        /\ planted' = IF ours THEN "no" ELSE planted
        /\ IF status = "active" THEN ReserveOnly ELSE UNCHANGED slots
        /\ status' = IF waits THEN "off_awaiting" ELSE "off"
        /\ config' = [config EXCEPT !.option.on = FALSE, !.option.ours = FALSE,
                                    !.option.marker = IF waits THEN @ ELSE 0]

\* disable: the registry comes first, the hotkeys after it.
DisableSwitch ==
    LET ours == config.option.ours
        waits == ours /\ ~SameExplorer(config.option.marker, Now)
    IN  /\ ours => "registry" \notin broken
        /\ reg' = IF ours THEN RemoveV(reg) ELSE reg
        /\ planted' = IF ours THEN "no" ELSE planted
        /\ IF status = "active" THEN ReserveOnly ELSE UNCHANGED slots
        /\ status' = IF waits THEN "off_awaiting" ELSE "off"
        /\ config' = [config EXCEPT !.option =
                        [Off EXCEPT !.marker = IF waits THEN Now ELSE 0]]

\* Save with the option switched off; a program that ends before the file is
\* written leaves the same as a disk that fails.
Disable ==
    /\ Idle /\ config.option.on
    /\ DisableSwitch
    /\ PersistAll(config')
    /\ UNCHANGED <<explorer, taken, broken, step, lastSeen, windows, taskbar,
                   thread, counters, theirs, blinded, askedFor>>

\* Apply and Save with another reserve.  In use of Win+V it is only noted; a
\* combination taken meanwhile leaves the previous one, unless that is lost to
\* another program in the same moment.
ChangeReserve(c) ==
    /\ Idle /\ c # config.hotkey
    /\ IF status = "active" \/ c \notin taken
       THEN /\ config' = [config EXCEPT !.hotkey = c]
            /\ IF status = "active" THEN UNCHANGED slots
               ELSE /\ reserve' = c /\ registered' = c /\ raced' = FALSE
                    /\ UNCHANGED winV
            /\ UNCHANGED <<taken, events>>
       ELSE /\ reserve # NoCombo /\ Event
            /\ taken' = taken \cup {reserve}
            /\ reserve' = NoCombo
            /\ raced' = TRUE
            /\ UNCHANGED <<winV, registered, config>>
    /\ UNCHANGED <<reg, explorer, broken, step, status, lastSeen, file,
                   windows, taskbar, thread, exits, planted,
                   theirs, blinded, askedFor>>

\* Cancel after such an Apply: a combination taken meanwhile leaves none.
RestoreReserve ==
    /\ Idle /\ config.hotkey # file.hotkey
    /\ config' = [config EXCEPT !.hotkey = file.hotkey]
    /\ IF status = "active" THEN UNCHANGED slots
       ELSE /\ reserve' = IF file.hotkey \in taken THEN NoCombo ELSE file.hotkey
            /\ registered' = reserve' /\ raced' = FALSE
            /\ UNCHANGED winV
    /\ UNCHANGED <<reg, explorer, taken, broken, step, status, lastSeen, file,
                   windows, taskbar, thread, counters, ghosts>>

\* Save of the other settings writes the whole configuration.
Save ==
    /\ Idle /\ config # file
    /\ PersistAll(config)
    /\ UNCHANGED <<reg, explorer, taken, broken, step, status, lastSeen,
                   config, slots, windows, taskbar, thread, counters, ghosts>>

-----------------------------------------------------------------------------
(* The window about Win+V and the one about the reserve.                    *)

\* "Switch the option off"; the window stays, with a notice.
TurnOff ==
    /\ Idle /\ failure = "asks"
    /\ DisableSwitch
    /\ IF config'.option = config.option THEN UNCHANGED file
       ELSE PersistOption(config'.option)
    /\ failure' = "told"
    /\ UNCHANGED <<explorer, taken, broken, step, lastSeen, conflict, taskbar,
                   thread, counters, theirs, blinded, askedFor>>

CloseFailure ==
    /\ Idle /\ failure # "closed"
    /\ failure' = "closed"
    /\ conflict' = (conflict \/ (status # "active" /\ registered = NoCombo))
    /\ UNCHANGED <<reg, explorer, taken, broken, step, status, lastSeen,
                   config, file, slots, taskbar, thread, counters, ghosts>>

CloseConflict ==
    /\ Idle /\ conflict
    /\ conflict' = FALSE
    /\ UNCHANGED <<reg, explorer, taken, broken, step, status, lastSeen,
                   config, file, slots, failure, taskbar, thread, counters,
                   ghosts>>

\* try_combo: a free combination becomes the reserve at once.
TryCombo(c) ==
    /\ Idle /\ conflict
    /\ c \notin taken /\ c # registered
    /\ reserve' = c /\ registered' = c /\ raced' = FALSE
    /\ config' = [config EXCEPT !.hotkey = c]
    /\ file' = IF "disk" \in broken THEN file ELSE [file EXCEPT !.hotkey = c]
    /\ conflict' = FALSE
    /\ UNCHANGED <<reg, explorer, taken, broken, step, status, lastSeen, winV,
                   failure, taskbar, thread, counters, ghosts>>

-----------------------------------------------------------------------------
(* TaskbarCreated: another Explorer, or the same with other dimensions.     *)

Restarted == Now # 0 /\ Now # lastSeen /\ Now # config.option.marker

\* Mutant of SeeExplorer: the Explorer seen last is not noted.
SeeExplorer_Forget == UNCHANGED lastSeen

SeeExplorer == lastSeen' = IF Now = 0 THEN lastSeen ELSE Now

ReactOn ==
    /\ status \in {"awaiting", "not_released"}
    /\ TakeWinV
    /\ IF CanTakeWinV
       THEN /\ status' = "active"
            /\ failure' = "closed"
            /\ CloseConflictIf(TRUE)
            /\ UNCHANGED askedFor
       ELSE /\ status' = IF Restarted THEN "not_released" ELSE status
            /\ failure' = IF Restarted /\ failure = "closed" THEN "asks"
                          ELSE failure
            /\ askedFor' = IF Restarted THEN Now ELSE askedFor
            /\ conflict' = (\/ conflict
                            \/ /\ reserve' = NoCombo /\ ~Restarted
                               /\ failure = "closed")
    /\ UNCHANGED <<config, file>>

ReactOff ==
    /\ status = "off_awaiting"
    /\ IF Now # 0 /\ Now # config.option.marker
       THEN /\ status' = "off"
            /\ config' = [config EXCEPT !.option.marker = 0]
            /\ IF config' = config THEN UNCHANGED file
               ELSE PersistOption(config'.option)
       ELSE UNCHANGED <<status, config, file>>
    /\ UNCHANGED <<slots, windows, askedFor>>

\* The tray's handler; the thread of the button is told as well.
ExplorerReturned ==
    /\ Idle /\ taskbar > 0
    /\ taskbar' = taskbar - 1
    /\ told' = (restart \in {"shutdown", "waiting"})
    /\ SeeExplorer
    /\ \/ ReactOn
       \/ ReactOff
       \/ /\ status \in {"active", "off"}
          /\ UNCHANGED <<status, config, file, slots, windows, askedFor>>
    /\ missed' = FALSE
    /\ UNCHANGED <<reg, shell, starts, shellHasWinV, taken, broken, step,
                   restart, counters, planted, theirs, blinded>>

-----------------------------------------------------------------------------
(* The button that restarts the Explorer.                                   *)

Begin ==
    /\ Idle /\ restart = "none"
    /\ status \in {"awaiting", "off_awaiting"}
    /\ restart' = "shutdown" /\ told' = FALSE
    /\ UNCHANGED <<reg, explorer, taken, broken, step, status, lastSeen,
                   config, file, slots, windows, taskbar, counters, ghosts>>

ThreadGoes(next) ==
    /\ restart' = next /\ told' = (told /\ next = "waiting")
    /\ UNCHANGED <<reg, taken, broken, step, status, lastSeen, config, file,
                   slots, windows, counters, ghosts>>

\* The Explorer is asked to close and may refuse.
Shutdown ==
    /\ restart = "shutdown"
    /\ \/ /\ ThreadGoes("done")
          /\ UNCHANGED <<explorer, taskbar>>
       \/ /\ shell # 0
          /\ shell' = 0 /\ shellHasWinV' = FALSE
          /\ ThreadGoes("waiting")
          /\ UNCHANGED <<starts, missed, taskbar>>

\* Mutant of Wait: the wait has no deadline.
Wait_Forever ==
    /\ restart = "waiting"
    /\ told /\ ThreadGoes("done")
    /\ UNCHANGED <<explorer, taskbar>>

\* RmRestart, then the wait: the Explorer is back, or the deadline passes and
\* it is looked for.
Wait ==
    /\ restart = "waiting"
    /\ \/ (told \/ shell # 0) /\ ThreadGoes("done")
       \/ ~told /\ shell = 0 /\ ThreadGoes("relaunch")
    /\ UNCHANGED <<explorer, taskbar>>

ShellStarts ==
    /\ shell = 0 /\ starts < MaxShell
    /\ taskbar < MaxTaskbar
    /\ starts' = starts + 1 /\ shell' = starts'
    /\ shellHasWinV' = (~HasV(reg) /\ ~winV /\ "win_v" \notin taken)
    /\ taskbar' = IF step \in {"off", "starting"} THEN 0 ELSE taskbar + 1
    /\ missed' = (step = "starting")

\* An Explorer that has come meanwhile only opens a folder.
Relaunch ==
    /\ restart = "relaunch"
    /\ ShellStarts \/ UNCHANGED <<explorer, taskbar>>
    /\ ThreadGoes("done")

Done ==
    /\ Idle /\ restart = "done"
    /\ restart' = "none"
    /\ UNCHANGED <<reg, explorer, taken, broken, step, status, lastSeen,
                   config, file, slots, windows, taskbar, told, counters,
                   ghosts>>

-----------------------------------------------------------------------------
(* The end of the program, the uninstallation and the world around.         *)

\* A quit or a crash; Windows releases the hotkeys.  An option switched on and
\* not saved yet leaves a V nobody claims.
Exit ==
    /\ step # "off" /\ exits < MaxExits
    /\ exits' = exits + 1
    /\ step' = "off" /\ status' = "off" /\ lastSeen' = 0
    /\ config' = file
    /\ winV' = FALSE /\ reserve' = NoCombo /\ registered' = NoCombo
    /\ failure' = "closed" /\ conflict' = FALSE /\ taskbar' = 0
    /\ restart' = "none" /\ told' = FALSE
    /\ planted' = IF Idle \/ file.option.ours THEN planted ELSE Unnoted
    /\ raced' = FALSE /\ askedFor' = 0 /\ missed' = FALSE
    /\ UNCHANGED <<reg, shell, starts, shellHasWinV, taken, broken, file,
                   events, theirs, blinded>>

\* uninstall_release; then the data are kept or deleted.
Uninstall ==
    /\ step = "off" /\ exits < MaxExits
    /\ exits' = exits + 1
    /\ file' \in {file, [file EXCEPT !.option = Off]}
    /\ LET takes == file.option.ours /\ "registry" \notin broken
       IN  /\ reg' = IF takes THEN RemoveV(reg) ELSE reg
           /\ planted' = IF takes THEN "no"
                       ELSE IF file' = file THEN planted ELSE Unnoted
    /\ config' = file'
    /\ UNCHANGED <<explorer, taken, broken, step, status, lastSeen, slots,
                   windows, taskbar, thread, events, theirs, blinded,
                   askedFor>>

\* A V the user writes is the user's unless the program claims one by then.
EditRegistry ==
    /\ Event
    /\ reg' \in {NoValue, [NoValue EXCEPT !.exists = TRUE, !.upper = 1],
                 [NoValue EXCEPT !.exists = TRUE, !.others = TRUE]}
    /\ planted' = "no"
    /\ theirs' = (HasV(reg') /\ ~file.option.ours /\ ~config.option.ours)
    /\ UNCHANGED <<explorer, taken, broken, step, status, lastSeen, config,
                   file, slots, windows, taskbar, thread, exits,
                   blinded, askedFor>>

ShellEnds ==
    /\ shell # 0
    /\ shell' = 0 /\ shellHasWinV' = FALSE
    /\ UNCHANGED <<starts, missed, taskbar>>

\* A change of resolution or theme.
Redraw ==
    /\ step \notin {"off", "starting"} /\ shell # 0 /\ taskbar < MaxTaskbar
    /\ taskbar' = taskbar + 1
    /\ UNCHANGED explorer

Explorer ==
    /\ ShellEnds \/ ShellStarts \/ Redraw
    /\ UNCHANGED <<reg, taken, broken, step, status, lastSeen, config, file,
                   slots, windows, thread, counters, ghosts>>

HeldByUs == {reserve} \cup (IF winV \/ shellHasWinV THEN {"win_v"} ELSE {})

\* Another program takes or releases a hotkey.
OtherProgram(h) ==
    /\ h \notin HeldByUs
    /\ \/ h \notin taken /\ taken' = taken \cup {h} /\ Event
       \/ h \in taken /\ taken' = taken \ {h} /\ UNCHANGED events
    /\ UNCHANGED <<reg, explorer, broken, step, status, lastSeen, config, file,
                   slots, windows, taskbar, thread, exits, ghosts>>

Breakdown(x) ==
    /\ \/ /\ x \notin broken /\ Event
          /\ broken' = broken \cup {x}
          /\ blinded' = (blinded \/ x = "clock")
       \/ /\ x \in broken /\ broken' = broken \ {x}
          /\ UNCHANGED <<events, blinded>>
    /\ UNCHANGED <<reg, explorer, taken, step, status, lastSeen, config, file,
                   slots, windows, taskbar, thread, exits, planted,
                   theirs, askedFor>>

-----------------------------------------------------------------------------
Handlers == TrayReady \/ Persist \/ UndoUnsavedEnable \/ ExplorerReturned \/ Done

RestartThread == Shutdown \/ Wait \/ Relaunch

User ==
    \/ Launch \/ Enable \/ Disable \/ RestoreReserve \/ Save
    \/ TurnOff \/ CloseFailure \/ CloseConflict \/ Begin
    \/ \E c \in Combo : ChangeReserve(c) \/ TryCombo(c)
    \/ Exit \/ Uninstall

World ==
    \/ EditRegistry \/ Explorer
    \/ \E h \in Combo \cup {"win_v"} : OtherProgram(h)
    \/ \E x \in {"registry", "disk", "clock"} : Breakdown(x)

Next == Handlers \/ RestartThread \/ User \/ World

(* The UI thread handles its messages and the restart thread goes on; the   *)
(* Explorer owes nothing, which is what the deadline is for.                *)
Fairness ==
    /\ WF_vars(Persist \/ UndoUnsavedEnable)
    /\ WF_vars(RestartThread)
    /\ SF_vars(Done)

Spec == Init /\ [][Next]_vars

FairSpec == Spec /\ Fairness

-----------------------------------------------------------------------------
(* Properties.                                                              *)

\* Every variable keeps its type.
TypeOK ==
    /\ reg \in Value /\ shell \in 0 .. MaxShell /\ starts \in 1 .. MaxShell
    /\ shellHasWinV \in BOOLEAN
    /\ taken \in SUBSET (Combo \cup {"win_v"})
    /\ broken \in SUBSET {"registry", "disk", "clock"}
    /\ step \in {"off", "starting", "idle", "persist", "persist_fields"}
    /\ status \in {"off", "awaiting", "active", "not_released", "off_awaiting"}
    /\ lastSeen \in 0 .. MaxShell
    /\ config \in Settings /\ file \in Settings
    /\ winV \in BOOLEAN
    /\ reserve \in Combo \cup {NoCombo} /\ registered \in Combo \cup {NoCombo}
    /\ failure \in {"closed", "asks", "told"} /\ conflict \in BOOLEAN
    /\ taskbar \in 0 .. MaxTaskbar
    /\ restart \in {"none", "shutdown", "waiting", "relaunch", "done"}
    /\ told \in BOOLEAN
    /\ events \in 0 .. MaxEvents /\ exits \in 0 .. MaxExits
    /\ planted \in {"no", "kept", "lost"} /\ theirs \in BOOLEAN
    /\ blinded \in BOOLEAN /\ raced \in BOOLEAN
    /\ askedFor \in 0 .. MaxShell /\ missed \in BOOLEAN

\* The program never holds Win+V and the reserve together, whichever of the
\* tray, the Settings and the two windows acts (win_v.rs, HotkeySlots).
NeverBoth == ~(winV /\ reserve # NoCombo)

\* The status and the reserve the Settings show are what Windows has
\* registered, unless a swap has lost the previous reserve to another program.
SlotsKnown ==
    step # "off" =>
        /\ status = "active" <=> winV
        /\ ~raced => registered = reserve

\* A V of the program in the registry is on record in config.toml, so that
\* switching off or uninstalling takes it out (README.md), unless the program
\* ended before it could save or neither file nor registry could be written.
VIsOnRecord ==
    planted = "kept" =>
        file.option.ours \/ step \in {"persist", "persist_fields"}

\* A V the program has never claimed stays in the registry: only the user
\* takes it out (win_v.rs, uninstall_release).
TheirVStays == theirs => HasV(reg)

\* While the program says that it waits for the Explorer to restart and knows
\* which, that Explorer runs still or news of another is on its way
\* (ARQUITETURA.md, the start time of the shell).  Out of the promise is an
\* Explorer that started between win_v.startup (run.rs:150), which reads the
\* start time, and the tray (run.rs:168), whose window receives the news: it is
\* noticed only with the next TaskbarCreated.
WaitsForARestart ==
    Idle /\ status \in {"awaiting", "off_awaiting"} =>
        \/ shell \in {0, config.option.marker} \/ config.option.marker = 0
        \/ taskbar > 0 \/ blinded \/ missed

\* The window about Win+V opens at most once for the same Explorer in a
\* session, however often TaskbarCreated comes (win_v.rs, explorer_returned).
AskedOncePerExplorer ==
    [][Idle /\ failure = "closed" /\ failure' = "asks" =>
            Now # askedFor]_vars

\* The restart of the Explorer ends, also when the Explorer does not return,
\* and its button can be used again.
RestartEnds == restart # "none" ~> restart = "none"

=============================================================================
