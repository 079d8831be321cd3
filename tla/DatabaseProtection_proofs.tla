---------------------- MODULE DatabaseProtection_proofs ----------------------
(***************************************************************************)
(* Proofs about DatabaseProtection, for every set of clips and every bound *)
(* on crashes and failures.                                                *)
(***************************************************************************)
EXTENDS DatabaseProtection, TLAPS

-----------------------------------------------------------------------------
(* Types.  Removing a layer needs one to remove, so the type invariant is   *)
(* strengthened with the layer that protect_file has just written.          *)

LayerToRemove ==
    /\ step = "protect_rename" => tmp.layers > 0
    /\ step \in {"unprotect_write", "unprotect_rename"} => real.layers > 0

TypeInv == TypeOK /\ LayerToRemove

\* A layer more over the same clips.
LEMMA SealFile ==
    ASSUME NEW f \in File
    PROVE  /\ Seal(f) \in File
           /\ Seal(f).layers = f.layers + 1
           /\ Seal(f).clips = f.clips
           /\ Seal(f).kind = f.kind
BY DEF File, Seal

\* A layer less over the same clips.
LEMMA UnsealFile ==
    ASSUME NEW f \in File, f.layers > 0
    PROVE  /\ Unseal(f) \in File
           /\ Unseal(f).layers = f.layers - 1
           /\ Unseal(f).clips = f.clips
           /\ Unseal(f).kind = f.kind
BY DEF File, Unseal

\* A checkpoint only adds clips.
LEMMA WithWalFile ==
    ASSUME NEW f \in File, NEW wal \in SUBSET Clip
    PROVE  /\ WithWal(f, wal) \in File
           /\ WithWal(f, wal).layers = f.layers
           /\ WithWal(f, wal).kind = f.kind
           /\ WithWal(f, wal).clips = f.clips \cup wal
BY DEF File, WithWal

\* Creating a file and giving it the schema change neither layers nor clips.
LEMMA CreateFile ==
    ASSUME NEW f \in File
    PROVE  /\ Create(f) \in File
           /\ Create(f).layers = f.layers
           /\ Create(f).clips = f.clips
           /\ Create(f).kind = "blank"
           /\ WithSchema(f) \in File
           /\ WithSchema(f).layers = f.layers
           /\ WithSchema(f).clips = f.clips
           /\ WithSchema(f).kind = "db"
BY DEF File, Create, WithSchema

LEMMA AbsentFile == /\ Absent \in File
                    /\ Absent.layers = 0
                    /\ Absent.kind = "absent"
                    /\ Absent.clips = {}
BY DEF File, Absent

LEMMA FileFields == ASSUME NEW f \in File
                    PROVE  f.layers \in Nat /\ f.clips \in SUBSET Clip
BY DEF File

\* What the end of the process leaves behind.
LEMMA PowerOffTypes ==
    ASSUME NEW how \in {"clean", "failed", "killed"}, PowerOff(how)
    PROVE  /\ step' = "off" /\ conn' = "none" /\ exit' = how
           /\ toggle' = "none" /\ banner' = "none"
           /\ shown' \in BOOLEAN /\ phase' = "starting"
           /\ spoiled' \in {"no", spoiled}
<1>1. /\ step' = "off" /\ conn' = "none" /\ exit' = how
      /\ toggle' = "none" /\ banner' = "none"
      /\ spoiled' \in {"no", spoiled}
  BY DEF PowerOff
<1>2. shown' \in BOOLEAN /\ phase' = "starting"
  BY Zenon DEF PowerOff
<1>3. QED
  BY <1>1, <1>2

LEMMA TypeInvInit == Init => TypeInv
<1> SUFFICES ASSUME Init
             PROVE  TypeInv
  OBVIOUS
<1>1. shown \in BOOLEAN
  BY Zenon DEF Init
<1>2. QED
  BY <1>1, AbsentFile, ProtectionAssumption
     DEF Init, TypeInv, TypeOK, LayerToRemove

\* No step of any thread breaks a type, whatever the user does.
LEMMA TypeInvStep == TypeInv /\ [Next]_vars => TypeInv'
<1> SUFFICES ASSUME TypeInv, [Next]_vars
             PROVE  TypeInv'
  OBVIOUS
<1> USE SealFile, UnsealFile, WithWalFile, CreateFile, AbsentFile,
        FileFields, ProtectionAssumption
        DEF TypeInv, TypeOK, LayerToRemove, files, job, ui, StartSteps,
            ResealSteps, RunSteps, SwitchSteps
<1>1. CASE Launch
  BY <1>1 DEF Launch, Goto
<1>2. CASE CleanupStaleSwapTemp
  BY <1>2 DEF CleanupStaleSwapTemp, Goto, Fault
<1>3. CASE StartProbe
  BY <1>3 DEF StartProbe, Goto, Fault
<1>4. CASE StartUnsealWrite
  BY <1>4 DEF StartUnsealWrite, Goto
<1>5. CASE StartUnsealRename
  BY <1>5 DEF StartUnsealRename, Goto
<1>6. CASE StartOpen
  BY <1>6 DEF StartOpen, OpenTarget
<1>7. CASE StartFail
  BY <1>7, PowerOffTypes DEF StartFail, Fault
<1>8. CASE CreateBlank
  BY <1>8 DEF CreateBlank, Goto
<1>9. CASE ResealCheck
  BY <1>9, PowerOffTypes DEF ResealCheck, AfterReseal, Goto
<1>10. CASE ResealCheckpoint
  BY <1>10 DEF ResealCheckpoint, Goto
<1>11. CASE ResealWrite
  BY <1>11 DEF ResealWrite, Goto
<1>12. CASE ResealRename
  BY <1>12 DEF ResealRename, Goto
<1>13. CASE ResealRemove
  BY <1>13, PowerOffTypes DEF ResealRemove, AfterReseal, Goto, Fault
<1>14. CASE ResealFail
  BY <1>14, PowerOffTypes DEF ResealFail, Fault
<1>15. CASE \E c \in Clip : Capture(c)
  BY <1>15 DEF Capture
<1>16. CASE Purge
  BY <1>16 DEF Purge, Checkpoint, CheckpointReal, CheckpointWork, Goto
<1>17. CASE TakeSwitch
  BY <1>17 DEF TakeSwitch, Goto
<1>18. CASE ToggleClose
  BY <1>18 DEF ToggleClose, Checkpoint, CheckpointReal, CheckpointWork
<1>19. CASE ToggleCloseFail
  BY <1>19 DEF ToggleCloseFail, Fault, Checkpoint, CheckpointReal, CheckpointWork
<1>20. CASE ProtectWrite
  BY <1>20 DEF ProtectWrite, LeaveWith, Goto, Fault
<1>21. CASE ProtectRename
  BY <1>21 DEF ProtectRename, LeaveWith, Goto, Fault
<1>22. CASE UnprotectWrite
  BY <1>22 DEF UnprotectWrite, RetryOrGiveUp, LeaveWith, Goto, Fault
<1>23. CASE UnprotectRename
  BY <1>23 DEF UnprotectRename, RetryOrGiveUp, LeaveWith, Goto, Fault
<1>24. CASE Promote
  BY <1>24 DEF Promote, LeaveWith, Goto, Fault
<1>25. CASE Reopen
  BY <1>25 DEF Reopen, OpenTarget, Answer
<1>26. CASE ReopenFail
  BY <1>26 DEF ReopenFail, Fault
<1>27. CASE RequestSwitch
  BY <1>27 DEF RequestSwitch
<1>28. CASE EvictSwitch
  BY <1>28 DEF EvictSwitch, Fault
<1>29. CASE OnToggleDone
  BY <1>29 DEF OnToggleDone, ReadBanner
<1>30. CASE OpenHistory
  BY <1>30 DEF OpenHistory, ReadBanner
<1>31. CASE Quit
  BY <1>31 DEF Quit
<1>32. CASE Stop
  BY <1>32 DEF Stop, Checkpoint, CheckpointReal, CheckpointWork
<1>33. CASE Crash
  BY <1>33, PowerOffTypes DEF Crash
<1>34. CASE Ready \/ StartGivenUp
  BY <1>34 DEF Ready, StartGivenUp
<1>35. CASE GiveUp
  BY <1>35, PowerOffTypes DEF GiveUp, Checkpoint, CheckpointReal, CheckpointWork
<1>36. CASE UNCHANGED vars
  BY <1>36 DEF vars
<1>37. CASE CaptureFail
  BY <1>36, <1>37 DEF CaptureFail
<1>38. QED
  BY <1>1, <1>2, <1>3, <1>4, <1>5, <1>6, <1>7, <1>8, <1>9, <1>10, <1>11, <1>12, <1>13, <1>14, <1>15, <1>16, <1>17, <1>18, <1>19, <1>20, <1>21, <1>22, <1>23, <1>24, <1>25, <1>26, <1>27, <1>28, <1>29, <1>30, <1>31, <1>32, <1>33, <1>34, <1>35, <1>36, <1>37
     DEF Next, Startup, Reseal, Switch, Window

\* Every variable keeps its type in every behaviour.
THEOREM TypeCorrect == Spec => []TypeOK
<1>1. TypeInv => TypeOK
  BY DEF TypeInv
<1>2. QED
  BY <1>1, TypeInvInit, TypeInvStep, PTL DEF Spec

-----------------------------------------------------------------------------
(* The history is never lost, as long as the user does not switch the       *)
(* protection again in a session where a switch has failed.  The inductive  *)
(* invariant says which file carries the history at each step, what the     *)
(* worker's connection is on, and that the switch in the queue goes the     *)
(* right way; it claims nothing once the user has insisted.                 *)

Protected == Present(real) /\ real.layers = 1

Kept ==
    \/ /\ Present(work) /\ work.layers = 0
       /\ stored \subseteq work.clips \cup workWal
       /\ Protected
    \/ /\ ~Present(work) /\ real.layers = 0
       /\ stored \subseteq real.clips \cup realWal
    \/ /\ ~Present(work) /\ Protected
       /\ stored \subseteq real.clips

TmpHolds(layers) ==
    Present(tmp) /\ tmp.layers = layers /\ stored \subseteq tmp.clips

ResealInv ==
    /\ step \in ResealSteps \ {"reseal_check"} => Present(work)
    /\ step \in {"reseal_write", "reseal_rename"} => stored \subseteq work.clips
    /\ step = "reseal_rename" => TmpHolds(1)

StartInv ==
    /\ step \in {"reseal_remove", "start_probe", "start_unseal_write",
                  "start_open"} =>
          (Present(work) => stored \subseteq real.clips)
    /\ step = "start_unseal_rename" =>
          TmpHolds(0) /\ Protected /\ stored \subseteq real.clips
    /\ step = "start_open" /\ reopen = "work" => Present(work)

RewriteInv ==
    /\ step \in {"protect_write", "protect_rename"} =>
          ~Present(work) /\ real.layers = 0 /\ stored \subseteq real.clips
    /\ step = "protect_rename" => TmpHolds(1)
    /\ step \in {"unprotect_write", "unprotect_rename"} =>
          ~Present(work) /\ Protected
    /\ step = "unprotect_rename" => TmpHolds(0)
    /\ step = "promote" => Present(work) /\ stored \subseteq work.clips
    /\ step = "reopen" => (reopen = "work" <=> Present(work))

ConnInv ==
    /\ step \in RunSteps \cup {"toggle_close"} =>
          /\ conn \in {"real", "work", "memory"}
          /\ conn = "real" =>
                ~Present(work) /\ real.layers = 0 /\ real.kind = "db"
          /\ conn = "work" => Present(work)
    /\ step \in SwitchSteps \ {"toggle_close"} => conn = "memory"

SwitchInv ==
    /\ step \in RunSteps \cup {"toggle_close"} =>
          /\ toggle \in {"none", "done"} /\ spoiled = "no" =>
                conn # "memory" /\ (shown <=> conn = "work")
          /\ toggle = "enable" => spoiled = "no" /\ shown /\ conn = "real"
          /\ toggle = "disable" => spoiled = "no" /\ ~shown /\ conn = "work"
    /\ step \in SwitchSteps => toggle \in {"enable", "disable"} /\ spoiled = "no"
    /\ step \in {"protect_write", "protect_rename", "unprotect_write",
                  "unprotect_rename"} => shown /\ toggle = "enable"
    /\ step = "promote" => ~shown /\ toggle = "disable"
    /\ step = "reopen" /\ outcome = "ok" => (shown <=> reopen = "work")
    /\ step \in {"off"} \cup StartSteps => toggle = "none" /\ spoiled = "no"
    /\ step \in ResealSteps /\ purpose = "startup" =>
          toggle = "none" /\ spoiled = "no"

FilesInv ==
    Kept /\ ResealInv /\ StartInv /\ RewriteInv /\ ConnInv /\ SwitchInv

SafeInv == TypeInv /\ (spoiled # "insisted" => FilesInv)

LEMMA SafeInvInit == Init => SafeInv
BY TypeInvInit, AbsentFile
   DEF Init, SafeInv, FilesInv, Kept, ResealInv, StartInv, RewriteInv, ConnInv,
       SwitchInv, Present, StartSteps, ResealSteps, RunSteps, SwitchSteps

\* Having insisted is forgotten by no step, so a step into a state where the
\* user has not insisted starts from one.
LEMMA InsistingLasts ==
    [Next]_vars /\ spoiled = "insisted" => spoiled' = "insisted"
<1> SUFFICES ASSUME [Next]_vars, spoiled = "insisted"
             PROVE  spoiled' = "insisted"
  OBVIOUS
<1> USE DEF ui, Goto, PowerOff
<1>1. CASE Launch \/ Startup \/ Ready \/ StartGivenUp
  BY <1>1 DEF Launch, Startup, CleanupStaleSwapTemp, StartProbe,
              StartUnsealWrite, StartUnsealRename, StartOpen, StartFail,
              CreateBlank, Ready, StartGivenUp
<1>2. CASE Reseal
  BY <1>2 DEF Reseal, ResealCheck, ResealCheckpoint, ResealWrite,
              ResealRename, ResealRemove, ResealFail, AfterReseal
<1>3. CASE (\E c \in Clip : Capture(c)) \/ Purge \/ Stop \/ GiveUp \/ Crash
  BY <1>3 DEF Capture, Purge, Stop, GiveUp, Crash
<1>4. CASE Switch
  BY <1>4 DEF Switch, TakeSwitch, ToggleClose, ToggleCloseFail, ProtectWrite,
              ProtectRename, UnprotectWrite, UnprotectRename, Promote,
              CreateBlank, Reopen, ReopenFail, LeaveWith, RetryOrGiveUp,
              Answer
<1>5. CASE Window
  BY <1>5 DEF Window, RequestSwitch, EvictSwitch, OnToggleDone, OpenHistory,
              Quit
<1>6. CASE CaptureFail \/ UNCHANGED vars
  BY <1>6 DEF vars, CaptureFail
<1>7. QED
  BY <1>1, <1>2, <1>3, <1>4, <1>5, <1>6 DEF Next

LEMMA SafeInvStep == SafeInv /\ [Next]_vars => SafeInv'
<1> SUFFICES ASSUME TypeInv, FilesInv, [Next]_vars, spoiled' # "insisted"
             PROVE  FilesInv'
  BY TypeInvStep, InsistingLasts DEF SafeInv
<1> USE SealFile, UnsealFile, WithWalFile, CreateFile, AbsentFile,
        FileFields
        DEF FilesInv, TypeInv, TypeOK, LayerToRemove, Kept, ResealInv,
            StartInv, RewriteInv, ConnInv, SwitchInv, Protected, TmpHolds,
            Present, IsBlob, Opens, files, job, ui, StartSteps, ResealSteps,
            RunSteps, SwitchSteps
<1>1. CASE Launch
  BY <1>1 DEF Launch, Goto
<1>2. CASE CleanupStaleSwapTemp
  BY <1>2 DEF CleanupStaleSwapTemp, Goto, Fault
<1>3. CASE StartProbe
  BY <1>3 DEF StartProbe, Goto, Fault
<1>4. CASE StartUnsealWrite
  BY <1>4 DEF StartUnsealWrite, Goto
<1>5. CASE StartUnsealRename
  BY <1>5 DEF StartUnsealRename, Goto
<1>6. CASE StartOpen
  <2>1. (shown' <=> reopen = "work") /\ UNCHANGED spoiled
    BY <1>6, Zenon DEF StartOpen, ui
  <2>2. Kept'
    BY <1>6 DEF StartOpen, OpenTarget
  <2>3. (ResealInv /\ StartInv /\ RewriteInv /\ ConnInv)'
    BY <1>6 DEF StartOpen, OpenTarget
  <2>4. SwitchInv'
    BY <1>6, <2>1 DEF StartOpen
  <2>5. QED
    BY <2>2, <2>3, <2>4
<1>7. CASE StartFail
  BY <1>7 DEF StartFail, PowerOff, Fault
<1>8. CASE CreateBlank
  BY <1>8 DEF CreateBlank, Goto
<1>9. CASE ResealCheck
  BY <1>9 DEF ResealCheck, AfterReseal, PowerOff, Goto
<1>10. CASE ResealCheckpoint
  BY <1>10 DEF ResealCheckpoint, Goto
<1>11. CASE ResealWrite
  BY <1>11 DEF ResealWrite, Goto
<1>12. CASE ResealRename
  BY <1>12 DEF ResealRename, Goto
<1>13. CASE ResealRemove
  BY <1>13 DEF ResealRemove, AfterReseal, PowerOff, Goto, Fault
<1>14. CASE ResealFail
  BY <1>14 DEF ResealFail, PowerOff, Fault
<1>15. CASE \E c \in Clip : Capture(c)
  BY <1>15 DEF Capture
<1>16. CASE Purge
  BY <1>16 DEF Purge, Checkpoint, CheckpointReal, CheckpointWork, Goto
<1>17. CASE TakeSwitch
  BY <1>17 DEF TakeSwitch, Goto
<1>18. CASE ToggleClose
  BY <1>18 DEF ToggleClose, Checkpoint, CheckpointReal, CheckpointWork
<1>19. CASE ToggleCloseFail
  BY <1>19 DEF ToggleCloseFail, Fault, Checkpoint, CheckpointReal, CheckpointWork
<1>20. CASE ProtectWrite
  <2>1. /\ step = "protect_write"
        /\ UNCHANGED <<real, work, realWal, workWal, conn, toggle, shown, spoiled, stored, purpose>>
    BY <1>20 DEF ProtectWrite, LeaveWith, Goto, Fault
  <2>2. \/ step' = "protect_rename" /\ Present(real) /\ tmp' = Seal(real)
        \/ step' = "reopen" /\ reopen' = "real" /\ outcome' = "err"
    BY <1>20 DEF ProtectWrite, LeaveWith, Goto, Fault
  <2>3. CASE step' = "protect_rename" /\ Present(real) /\ tmp' = Seal(real)
    BY <2>1, <2>3
  <2>4. CASE step' = "reopen" /\ reopen' = "real" /\ outcome' = "err"
    BY <2>1, <2>4
  <2>5. QED
    BY <2>2, <2>3, <2>4
<1>21. CASE ProtectRename
  <2>1. /\ step = "protect_rename"
        /\ UNCHANGED <<work, realWal, workWal, conn, toggle, shown, spoiled, stored, purpose>>
    BY <1>21 DEF ProtectRename, LeaveWith, Goto, Fault
  <2>2. \/ step' = "unprotect_write" /\ real' = tmp
        \/ step' = "reopen" /\ reopen' = "real" /\ outcome' = "err" /\ real' = real
    BY <1>21 DEF ProtectRename, LeaveWith, Goto, Fault
  <2>3. CASE step' = "unprotect_write" /\ real' = tmp
    BY <2>1, <2>3
  <2>4. CASE step' = "reopen" /\ reopen' = "real" /\ outcome' = "err" /\ real' = real
    BY <2>1, <2>4
  <2>5. QED
    BY <2>2, <2>3, <2>4
<1>22. CASE UnprotectWrite
  <2>1. /\ step = "unprotect_write"
        /\ UNCHANGED <<real, work, realWal, workWal, conn, toggle, shown, spoiled, stored, purpose>>
    BY <1>22 DEF UnprotectWrite, RetryOrGiveUp, LeaveWith, Goto, Fault
  <2>2. \/ step' = "unprotect_rename" /\ tmp' = Unseal(real)
        \/ step' = "unprotect_write"
        \/ step' = "reopen" /\ reopen' = "real" /\ outcome' = "err"
    BY <1>22 DEF UnprotectWrite, RetryOrGiveUp, LeaveWith, Goto, Fault
  <2>3. CASE step' = "unprotect_rename" /\ tmp' = Unseal(real)
    <3>1. /\ Present(tmp') /\ tmp'.layers = 0 /\ tmp'.clips = real.clips
          /\ stored \subseteq real.clips
      BY <2>1, <2>3
    <3>2. QED
      BY <2>1, <2>3, <3>1
  <2>4. CASE step' = "unprotect_write"
    BY <2>1, <2>4
  <2>5. CASE step' = "reopen" /\ reopen' = "real" /\ outcome' = "err"
    BY <2>1, <2>5
  <2>6. QED
    BY <2>2, <2>3, <2>4, <2>5
<1>23. CASE UnprotectRename
  <2>1. /\ step = "unprotect_rename"
        /\ UNCHANGED <<real, realWal, workWal, conn, toggle, shown, spoiled, stored, purpose>>
    BY <1>23 DEF UnprotectRename, RetryOrGiveUp, LeaveWith, Goto, Fault
  <2>2. \/ step' = "reopen" /\ reopen' = "work" /\ outcome' = "ok" /\ work' = tmp
        \/ step' = "unprotect_write" /\ work' = work
        \/ step' = "reopen" /\ reopen' = "real" /\ outcome' = "err" /\ work' = work
    BY <1>23 DEF UnprotectRename, RetryOrGiveUp, LeaveWith, Goto, Fault
  <2>3. CASE step' = "reopen" /\ reopen' = "work" /\ outcome' = "ok" /\ work' = tmp
    BY <2>1, <2>3
  <2>4. CASE step' = "unprotect_write" /\ work' = work
    BY <2>1, <2>4
  <2>5. CASE step' = "reopen" /\ reopen' = "real" /\ outcome' = "err" /\ work' = work
    BY <2>1, <2>5
  <2>6. QED
    BY <2>2, <2>3, <2>4, <2>5
<1>24. CASE Promote
  BY <1>24 DEF Promote, LeaveWith, Goto, Fault
<1>25. CASE Reopen
  BY <1>25 DEF Reopen, OpenTarget, Answer
<1>26. CASE ReopenFail
  <2>1. /\ step = "reopen" /\ step' = "idle" /\ toggle' = "failed"
        /\ UNCHANGED <<files, conn, job, shown, spoiled, stored>>
    BY <1>26 DEF ReopenFail
  <2>2. QED
    BY <2>1
<1>27. CASE RequestSwitch
  <2>1. /\ toggle = "none" /\ spoiled = "no"
        /\ UNCHANGED <<files, conn, step, job, spoiled, stored>>
    BY <1>27 DEF RequestSwitch \* spoiled' is not "insisted"
  <2>2. (shown' <=> ~shown) /\ toggle' = IF shown THEN "disable" ELSE "enable"
    BY <1>27, Zenon DEF RequestSwitch
  <2>3. (Kept /\ ResealInv /\ StartInv /\ RewriteInv /\ ConnInv)'
    BY <2>1
  <2>4. step \in RunSteps \cup SwitchSteps
    BY <1>27 DEF RequestSwitch, Running
  <2>5. SwitchInv'
    BY <2>1, <2>2, <2>4
  <2>6. QED
    BY <2>3, <2>5
<1>28. CASE EvictSwitch
  BY <1>28 DEF EvictSwitch, Fault
<1>29. CASE OnToggleDone
  <2>1. (Kept /\ ResealInv /\ StartInv)'
    BY <1>29 DEF OnToggleDone, ReadBanner
  <2>2. RewriteInv'
    BY <1>29 DEF OnToggleDone, ReadBanner
  <2>3. (ConnInv /\ SwitchInv)'
    BY <1>29 DEF OnToggleDone, ReadBanner
  <2>4. QED
    BY <2>1, <2>2, <2>3
<1>30. CASE OpenHistory
  BY <1>30 DEF OpenHistory, ReadBanner
<1>31. CASE Quit
  BY <1>31 DEF Quit
<1>32. CASE Stop
  BY <1>32 DEF Stop, Checkpoint, CheckpointReal, CheckpointWork
<1>33. CASE Crash
  BY <1>33 DEF Crash, PowerOff
<1>34. CASE Ready \/ StartGivenUp
  BY <1>34 DEF Ready, StartGivenUp
<1>35. CASE GiveUp
  BY <1>35 DEF GiveUp, Checkpoint, CheckpointReal, CheckpointWork, PowerOff
<1>36. CASE UNCHANGED vars
  BY <1>36 DEF vars
<1>37. CASE CaptureFail
  BY <1>36, <1>37 DEF CaptureFail
<1>38. QED
  BY <1>1, <1>2, <1>3, <1>4, <1>5, <1>6, <1>7, <1>8, <1>9, <1>10, <1>11, <1>12, <1>13, <1>14, <1>15, <1>16, <1>17, <1>18, <1>19, <1>20, <1>21, <1>22, <1>23, <1>24, <1>25, <1>26, <1>27, <1>28, <1>29, <1>30, <1>31, <1>32, <1>33, <1>34, <1>35, <1>36, <1>37
     DEF Next, Startup, Reseal, Switch, Window

\* What the invariant gives the properties.
LEMMA SafeInvImplies ==
    SafeInv => NothingLost /\ ShownIsTrue /\ ReencryptedBeforeUse
<1> SUFFICES ASSUME TypeInv, FilesInv
             PROVE  NothingLost /\ ShownIsTrue /\ ReencryptedBeforeUse
  BY DEF SafeInv, NothingLost, ShownIsTrue, ReencryptedBeforeUse
<1> USE DEF FilesInv, TypeInv, TypeOK, Kept, Protected, Present
<1>1. NothingLost
  BY DEF NothingLost, OnDisk
<1>2. ShownIsTrue
  BY DEF ShownIsTrue, ConnInv, SwitchInv, RunSteps, IsBlob
<1>3. ReencryptedBeforeUse
  BY DEF ReencryptedBeforeUse, StartInv
<1>4. QED
  BY <1>1, <1>2, <1>3

\* As long as no switch is asked for in a session where one has failed, every
\* committed clip stays within reach of the next start, through every
\* interleaving of crashes and failures, however many.
THEOREM HistoryKept == Spec => []NothingLost
BY SafeInvInit, SafeInvStep, SafeInvImplies, PTL DEF Spec

\* Until a switch of the session fails, the Settings show the protection the
\* disk has.
THEOREM SettingsTellTheTruth == Spec => []ShownIsTrue
BY SafeInvInit, SafeInvStep, SafeInvImplies, PTL DEF Spec

\* As long as no switch is asked for in a session where one has failed, a start
\* accepts items in a work copy only once everything the last session left in
\* it is sealed in the real file.
THEOREM SealedBeforeItemsAreAccepted == Spec => []ReencryptedBeforeUse
BY SafeInvInit, SafeInvStep, SafeInvImplies, PTL DEF Spec

-----------------------------------------------------------------------------
(* Nothing plain is left behind by an orderly exit.  As long as no file      *)
(* operation has failed, a swap file exists only between the write and the   *)
(* rename of a rewrite, or after an end of the process in between, and the   *)
(* next start removes it before anything else.  No switch fails then either, *)
(* so the user never insists and FilesInv holds throughout: a work copy is   *)
(* always one over a sealed real file.                                       *)

RenameSteps == {"protect_rename", "unprotect_rename", "reseal_rename",
                "start_unseal_rename"}

TmpInv ==
    /\ step \notin RenameSteps \cup {"off", "start_cleanup"} => ~Present(tmp)
    /\ step = "off" /\ exit = "clean" => ~Present(work) /\ ~Present(tmp)
    /\ step = "off" /\ exit = "failed" => ~Present(tmp)

NoFailInv ==
    /\ spoiled = "no" /\ toggle # "failed"
    /\ step = "protect_write" => Present(real)
    /\ step = "reopen" => outcome = "ok"
    /\ step = "reopen" /\ reopen = "real" => Opens(real)

RestInv == SafeInv /\ (faults = 0 => TmpInv /\ NoFailInv)

LEMMA RestInvInit == Init => RestInv
BY SafeInvInit, AbsentFile
   DEF Init, RestInv, TmpInv, NoFailInv, Present

\* No failure is forgotten, so a step into a state without one starts from one.
LEMMA FaultsLast == TypeInv /\ [Next]_vars /\ faults' = 0 => faults = 0
<1> SUFFICES ASSUME TypeInv, [Next]_vars, faults' = 0
             PROVE  faults = 0
  OBVIOUS
<1>0. faults \in Nat /\ ~Fault
  BY ProtectionAssumption DEF TypeInv, TypeOK, Fault
<1>1. CASE Launch \/ Startup \/ Ready \/ StartGivenUp
  BY <1>0, <1>1 DEF Launch, Startup, CleanupStaleSwapTemp, StartProbe,
              StartUnsealWrite, StartUnsealRename, StartOpen, StartFail,
              CreateBlank, Ready, StartGivenUp
<1>2. CASE Reseal
  BY <1>0, <1>2 DEF Reseal, ResealCheck, ResealCheckpoint, ResealWrite,
              ResealRename, ResealRemove, ResealFail
<1>3. CASE (\E c \in Clip : Capture(c)) \/ Purge \/ Stop \/ GiveUp \/ Crash
  BY <1>3 DEF Capture, Purge, Stop, GiveUp, Crash
<1>4. CASE Switch
  BY <1>0, <1>4 DEF Switch, TakeSwitch, ToggleClose, ToggleCloseFail,
              ProtectWrite, ProtectRename, UnprotectWrite, UnprotectRename,
              Promote, CreateBlank, Reopen, ReopenFail, Answer
<1>5. CASE Window
  BY <1>0, <1>5 DEF Window, RequestSwitch, EvictSwitch, OnToggleDone,
              OpenHistory, Quit
<1>6. CASE CaptureFail \/ UNCHANGED vars
  BY <1>6 DEF vars, CaptureFail
<1>7. QED
  BY <1>1, <1>2, <1>3, <1>4, <1>5, <1>6 DEF Next

\* The swap file.
LEMMA TmpInvStep ==
    ASSUME SafeInv, TmpInv, NoFailInv, [Next]_vars, faults = 0, ~Fault
    PROVE  TmpInv'
<1>0. FilesInv /\ TypeInv
  BY DEF SafeInv, NoFailInv
<1> USE AbsentFile
        DEF TmpInv, RenameSteps, Present, files, job, ui, Goto
<1>1. CASE Launch \/ Ready \/ StartGivenUp
  BY <1>1 DEF Launch, Ready, StartGivenUp, RunSteps
<1>2. CASE Startup
  BY <1>2 DEF Startup, CleanupStaleSwapTemp, StartProbe,
              StartUnsealWrite, StartUnsealRename, StartOpen, StartFail,
              CreateBlank, PowerOff
<1>3. CASE ResealCheck \/ ResealRemove
  BY <1>3 DEF ResealCheck, ResealRemove, AfterReseal, PowerOff
<1>4. CASE ResealCheckpoint \/ ResealWrite \/ ResealRename \/ ResealFail
  <2>1. ~ResealFail
    BY <1>0 DEF ResealFail, FilesInv, Kept, ResealInv, ResealSteps, Opens
  <2>2. QED
    BY <1>4, <2>1 DEF ResealCheckpoint, ResealWrite, ResealRename
<1>5. CASE (\E c \in Clip : Capture(c)) \/ Purge
  BY <1>5 DEF Capture, Purge
<1>6. CASE TakeSwitch \/ ToggleClose \/ ToggleCloseFail
  BY <1>6 DEF TakeSwitch, ToggleClose, ToggleCloseFail
<1>7. CASE ProtectWrite \/ ProtectRename
  BY <1>7 DEF ProtectWrite, ProtectRename, LeaveWith
<1>8. CASE UnprotectWrite \/ UnprotectRename
  BY <1>8 DEF UnprotectWrite, UnprotectRename, LeaveWith
<1>9. CASE Promote \/ (step = "reopen" /\ CreateBlank) \/ Reopen \/ ReopenFail
  BY <1>9 DEF Promote, CreateBlank, Reopen, ReopenFail, LeaveWith, Answer
<1>10. CASE Window
  <2>1. step \in RunSteps \cup SwitchSteps => step # "off"
    BY DEF RunSteps, SwitchSteps
  <2>2. QED
    BY <1>10, <2>1 DEF Window, RequestSwitch, EvictSwitch, OnToggleDone,
              OpenHistory, Quit, Running
<1>11. CASE Stop \/ GiveUp \/ Crash
  BY <1>11 DEF Stop, GiveUp, Crash, PowerOff
<1>12. CASE CaptureFail \/ UNCHANGED vars
  BY <1>12 DEF vars, CaptureFail
<1>13. QED
  BY <1>1, <1>2, <1>3, <1>4, <1>5, <1>6, <1>7, <1>8, <1>9, <1>10, <1>11, <1>12
     DEF Next, Reseal, Switch

\* No switch fails.
LEMMA NoFailInvStep ==
    ASSUME SafeInv, NoFailInv, [Next]_vars, faults = 0, ~Fault
    PROVE  NoFailInv'
<1>0. FilesInv /\ TypeInv
  BY DEF SafeInv, NoFailInv
<1> USE DEF NoFailInv, Present, Opens, files, job, ui, Goto
<1>1. CASE Launch \/ Ready \/ StartGivenUp
  BY <1>1 DEF Launch, Ready, StartGivenUp, RunSteps
<1>2. CASE Startup
  BY <1>2 DEF Startup, CleanupStaleSwapTemp, StartProbe, StartUnsealWrite,
              StartUnsealRename, StartOpen, StartFail, CreateBlank, PowerOff
<1>3. CASE Reseal
  BY <1>3 DEF Reseal, ResealCheck, ResealCheckpoint, ResealWrite,
              ResealRename, ResealRemove, ResealFail, AfterReseal, PowerOff
<1>4. CASE (\E c \in Clip : Capture(c)) \/ Purge
  BY <1>4 DEF Capture, Purge
<1>5. CASE TakeSwitch \/ ToggleClose \/ ToggleCloseFail
  <2>1. step = "toggle_close" /\ toggle = "enable" => Present(real)
    BY <1>0 DEF FilesInv, ConnInv, SwitchInv
  <2>2. QED
    BY <1>0, <1>5, <2>1, WithWalFile
       DEF TakeSwitch, ToggleClose, ToggleCloseFail, Checkpoint,
           CheckpointReal, CheckpointWork, TypeInv, TypeOK
<1>6. CASE ProtectWrite \/ ProtectRename
  BY <1>6 DEF ProtectWrite, ProtectRename, LeaveWith
<1>7. CASE UnprotectWrite \/ UnprotectRename
  BY <1>7 DEF UnprotectWrite, UnprotectRename, LeaveWith
<1>8. CASE Promote
  BY <1>0, <1>8
     DEF Promote, LeaveWith, FilesInv, Kept, RewriteInv
<1>9. CASE (step = "reopen" /\ CreateBlank) \/ Reopen \/ ReopenFail
  <2>1. step = "reopen" => ~TargetRefused
    BY <1>0 DEF FilesInv, Kept, RewriteInv, TargetRefused
  <2>2. CASE step = "reopen" /\ CreateBlank
    BY <1>0, <2>2, CreateFile DEF CreateBlank, TypeInv, TypeOK
  <2>3. CASE Reopen \/ ReopenFail
    BY <2>1, <2>3 DEF Reopen, ReopenFail, Answer
  <2>4. QED
    BY <1>9, <2>2, <2>3
<1>10. CASE Window
  BY <1>10 DEF Window, RequestSwitch, EvictSwitch, OnToggleDone, OpenHistory,
              Quit
<1>11. CASE Stop \/ GiveUp \/ Crash
  BY <1>11 DEF Stop, GiveUp, Crash, PowerOff
<1>12. CASE CaptureFail \/ UNCHANGED vars
  BY <1>12 DEF vars, CaptureFail
<1>13. QED
  BY <1>1, <1>2, <1>3, <1>4, <1>5, <1>6, <1>7, <1>8, <1>9, <1>10, <1>11, <1>12
     DEF Next, Switch

LEMMA RestInvStep == RestInv /\ [Next]_vars => RestInv'
<1> SUFFICES ASSUME SafeInv, RestInv, [Next]_vars, faults' = 0
             PROVE  TmpInv' /\ NoFailInv'
  BY SafeInvStep DEF RestInv
<1>1. faults = 0 /\ ~Fault
  <2>1. faults = 0
    BY FaultsLast DEF SafeInv
  <2>2. QED
    BY <2>1 DEF Fault
<1>2. QED
  BY <1>1, TmpInvStep, NoFailInvStep DEF RestInv

\* With no failing file operation, a session that reached its message loop and
\* ended in good order leaves no plain copy of a protected history: the work
\* copy is resealed and no swap file remains, whatever switches, crashes and
\* failed starts came before.  A start that run() gives up after the unsealing
\* leaves the work copy plain, but only beside a sealed real file, and no
\* half-done rewrite.
THEOREM NothingPlainAtRest == Spec => []SealedAtRest
<1>1. RestInv => SealedAtRest
  BY DEF RestInv, TmpInv, NoFailInv, SealedAtRest, SafeInv, FilesInv, Kept,
         Protected, Present
<1>2. QED
  BY <1>1, RestInvInit, RestInvStep, PTL DEF Spec

=============================================================================
