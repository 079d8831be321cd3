------------------------ MODULE SettingsSession_proofs ------------------------
(***************************************************************************)
(* Proofs about SettingsSession, for every set of hotkeys, programs and    *)
(* numbers, whatever config.toml held at the first start, and any number   *)
(* of edits, failures and events around the window.                        *)
(***************************************************************************)
EXTENDS SettingsSession, TLAPS

-----------------------------------------------------------------------------
(* What a session is, and the relations between it, the configuration, the  *)
(* worker and the last choice.                                              *)

SessionField == {"saved", "in_effect", "draft", "text", "shown",
                 "startup_blocked", "protection_busy", "win_v_status",
                 "restart_in_progress"}

IsSession(ses) ==
    /\ DOMAIN ses = SessionField
    /\ ValuesOf(Setting, ses.saved)
    /\ ValuesOf(Setting, ses.in_effect)
    /\ ValuesOf(Setting, ses.draft)
    /\ ses.text \in [Numeric -> Nat \cup {NoText}]
    /\ ses.shown \in [Numeric -> Nat]
    /\ ses.startup_blocked \in BOOLEAN
    /\ ses.protection_busy \in BOOLEAN
    /\ ses.restart_in_progress \in BOOLEAN
    /\ ses.win_v_status \in OnStatus \cup OffStatus

\* The session follows the Win+V of the program.
FollowsWinV(ses, on, new) ==
    ses.win_v_status = new /\ ses.saved.win_v = on /\ ses.in_effect.win_v = on

Closed == window \in {"closed", "ended"}

WorldTyped ==
    /\ ValuesOf(ConfigField, config)
    /\ ValuesOf(FileField, file)
    /\ registered \in Combos \cup {NoCombo}
    /\ entry \in BOOLEAN /\ blocked \in BOOLEAN /\ restarting \in BOOLEAN
    /\ protected \in BOOLEAN /\ armed \in BOOLEAN /\ torn \in BOOLEAN
    /\ status \in (IF config.win_v THEN OnStatus ELSE OffStatus)
    /\ switch \in {"idle", "to_on", "to_off"}
    /\ window \in {"closed", "open", "confirm_save", "confirm_restart", "ended"}
    /\ owner \in {"none", "settings", "standalone"}
    /\ edits \in 0 .. MaxEdits /\ events \in 0 .. MaxTurns

SessionTyped ==
    IF Closed THEN session = NoSession
    ELSE IsSession(session) /\ FollowsWinV(session, config.win_v, status)

TypeInv == WorldTyped /\ SessionTyped

\* The worker and the History window know the configuration.
ToldInv == told = SentOf(config)

\* What is in effect is the configuration, what is saved the last choice.
CopiesInv ==
    /\ DOMAIN kept = Written \cup {"hotkey"}
    /\ Closed => \A s \in Written : config[s] = kept[s]
    /\ ~Closed => \A s \in Written : /\ session.in_effect[s] = config[s]
                                     /\ session.saved[s] = kept[s]

\* A switch under way locks the protection of the session on its target.
SwitchInv ==
    /\ switch # "idle" => config.protection = (switch = "to_on")
    /\ ~Closed =>
          /\ session.saved.protection = config.protection
          /\ session.in_effect.protection = config.protection
          /\ switch # "idle" =>
                /\ session.protection_busy
                /\ session.draft.protection = config.protection

\* What is in effect reduces nothing below the last choice, an entry that the
\* Task Manager has disabled is not what Cancel goes back to, and a question
\* that is open names what it asks for.
LinesInv ==
    ~Closed =>
        /\ \A s \in Reducible : session.in_effect[s] >= session.saved[s]
        /\ session.saved.startup => ~session.startup_blocked
        /\ window = "confirm_save" =>
              /\ \A s \in Reducible : session.draft[s] < session.saved[s] =>
                                         <<s, session.draft[s]>> \in lines
              /\ /\ session.draft.startup /\ ~session.in_effect.startup
                 /\ session.startup_blocked
                 => <<"startup">> \in lines

CopyInv == ToldInv /\ CopiesInv /\ SwitchInv /\ LinesInv

SessionInv == TypeInv /\ CopyInv

\* What a session shows of everything but Win+V.
SameButWinV(new, old) ==
    /\ \A s \in Setting \ {"win_v"} :
          /\ new.saved[s] = old.saved[s]
          /\ new.in_effect[s] = old.in_effect[s]
          /\ new.draft[s] = old.draft[s]
    /\ new.startup_blocked = old.startup_blocked
    /\ new.protection_busy = old.protection_busy

-----------------------------------------------------------------------------
(* The operators of the model.                                              *)

\* Reading a file keeps it one, changes nothing but the names of programs, and
\* reading what was read changes nothing more.
LEMMA LoadFile ==
    ASSUME NEW f, ValuesOf(FileField, f)
    PROVE  /\ ValuesOf(FileField, Load(f))
           /\ \A s \in FileField \ {"blocked_programs"} : Load(f)[s] = f[s]
           /\ Load(Load(f)).blocked_programs = Load(f).blocked_programs
<1> DEFINE read(b) == (b \ Hashed) \cup (IF b \cap Hashed = {} THEN {} ELSE {Cut})
<1>1. "blocked_programs" \in FileField
  BY DEF FileField, ConfigField, Setting, Written, Filters
<1>2. DOMAIN Load(f) = FileField
  BY DEF Load, ValuesOf
<1>3. \A s \in FileField \ {"blocked_programs"} : Load(f)[s] = f[s]
  BY DEF Load, ValuesOf
<1>4. Load(f).blocked_programs = read(f.blocked_programs)
  BY <1>1 DEF Load, ValuesOf
<1>5. Load(Load(f)).blocked_programs = read(Load(f).blocked_programs)
  BY <1>1, <1>2 DEF Load
<1>6. read(read(f.blocked_programs)) = read(f.blocked_programs)
  OBVIOUS
<1>7. f.blocked_programs \in SUBSET (Programs \cup {Cut})
  BY <1>1 DEF ValuesOf, Allowed, Reducible
<1>8. read(f.blocked_programs) \in SUBSET (Programs \cup {Cut})
  BY <1>7
<1>9. Allowed("blocked_programs") = SUBSET (Programs \cup {Cut})
  BY DEF Allowed, Reducible
<1>10. \A s \in FileField : Load(f)[s] \in Allowed(s)
  BY <1>3, <1>4, <1>8, <1>9 DEF ValuesOf
<1>11. ValuesOf(FileField, Load(f))
  BY <1>2, <1>10 DEF ValuesOf
<1>12. QED
  BY <1>3, <1>4, <1>5, <1>6, <1>11

\* The Win+V of a session follows the program's and nothing else changes.
LEMMA SyncSession ==
    ASSUME NEW ses, IsSession(ses), NEW on \in BOOLEAN,
           NEW new \in OnStatus \cup OffStatus
    PROVE  /\ IsSession(SyncWinV(ses, on, new))
           /\ FollowsWinV(SyncWinV(ses, on, new), on, new)
           /\ SameButWinV(SyncWinV(ses, on, new), ses)
<1> DEFINE new_ses == SyncWinV(ses, on, new)
<1>1. "win_v" \in Setting
  BY DEF Setting
<1>2. Allowed("win_v") = BOOLEAN
  BY DEF Allowed, Reducible
<1>3. /\ new_ses.saved = [ses.saved EXCEPT !["win_v"] = on]
      /\ new_ses.in_effect = [ses.in_effect EXCEPT !["win_v"] = on]
      /\ new_ses.draft = [ses.draft EXCEPT !["win_v"] =
                            IF @ = ses.in_effect.win_v THEN on ELSE @]
      /\ new_ses.win_v_status = new
      /\ DOMAIN new_ses = SessionField
      /\ new_ses.text = ses.text /\ new_ses.shown = ses.shown
      /\ new_ses.startup_blocked = ses.startup_blocked
      /\ new_ses.protection_busy = ses.protection_busy
      /\ new_ses.restart_in_progress = ses.restart_in_progress
  BY DEF SyncWinV, IsSession, SessionField
<1>4. ValuesOf(Setting, new_ses.saved)
  BY <1>1, <1>2, <1>3 DEF IsSession, ValuesOf
<1>5. ValuesOf(Setting, new_ses.in_effect)
  BY <1>1, <1>2, <1>3 DEF IsSession, ValuesOf
<1>6. ValuesOf(Setting, new_ses.draft)
  BY <1>1, <1>2, <1>3 DEF IsSession, ValuesOf
<1>7. IsSession(new_ses)
  BY <1>3, <1>4, <1>5, <1>6 DEF IsSession
<1>8. FollowsWinV(new_ses, on, new)
  BY <1>1, <1>3 DEF FollowsWinV, IsSession, ValuesOf
<1>9. \A s \in Setting \ {"win_v"} :
         /\ new_ses.saved[s] = ses.saved[s]
         /\ new_ses.in_effect[s] = ses.in_effect[s]
         /\ new_ses.draft[s] = ses.draft[s]
  BY <1>3 DEF IsSession, ValuesOf
<1>10. QED
  BY <1>3, <1>7, <1>8, <1>9 DEF SameButWinV

\* The fields show the numbers of the draft again.
LEMMA RewrittenSession ==
    ASSUME NEW ses, IsSession(ses)
    PROVE  /\ IsSession(RewriteFields(ses))
           /\ \A x \in SessionField \ {"text", "shown"} :
                 RewriteFields(ses)[x] = ses[x]
<1> DEFINE fields == [s \in Numeric |-> ses.draft[s]]
           new_ses == RewriteFields(ses)
<1>1. fields \in [Numeric -> Nat]
  <2>1. ASSUME NEW s \in Numeric
        PROVE  ses.draft[s] \in Nat
    <3>1. s \in Setting /\ ses.draft[s] \in Allowed(s)
      BY DEF IsSession, ValuesOf, Setting, Written
    <3>2. Allowed(s) \subseteq Nat
      BY NumbersAssumption DEF Allowed, Numeric, Reducible
    <3>3. QED
      BY <3>1, <3>2
  <2>2. QED
    BY <2>1
<1>2. /\ DOMAIN new_ses = SessionField
      /\ new_ses.text = fields /\ new_ses.shown = fields
      /\ \A x \in SessionField \ {"text", "shown"} : new_ses[x] = ses[x]
  BY DEF RewriteFields, IsSession, SessionField
<1>3. /\ new_ses.saved = ses.saved /\ new_ses.in_effect = ses.in_effect
      /\ new_ses.draft = ses.draft /\ new_ses.startup_blocked = ses.startup_blocked
      /\ new_ses.protection_busy = ses.protection_busy
      /\ new_ses.restart_in_progress = ses.restart_in_progress
      /\ new_ses.win_v_status = ses.win_v_status
  BY <1>2 DEF SessionField
<1>4. QED
  BY <1>1, <1>2, <1>3 DEF IsSession

\* A window that opens shows what is in effect, as what was saved last; a
\* switch under way locks the protection on its target.
LEMMA OpenedSession ==
    ASSUME TypeInv
    PROVE  /\ IsSession(OpenSession)
           /\ FollowsWinV(OpenSession, config.win_v, status)
           /\ \A s \in Written : /\ OpenSession.saved[s] = config[s]
                                 /\ OpenSession.in_effect[s] = config[s]
           /\ OpenSession.saved.startup => ~OpenSession.startup_blocked
           /\ OpenSession.saved.protection = OpenSession.in_effect.protection
           /\ switch # "idle" =>
                 /\ OpenSession.protection_busy
                 /\ OpenSession.in_effect.protection = (switch = "to_on")
                 /\ OpenSession.draft.protection = (switch = "to_on")
           /\ switch = "idle" =>
                 OpenSession.in_effect.protection = config.protection
<1> DEFINE values == [s \in Setting |->
                         IF s = "startup" THEN entry /\ ~blocked ELSE config[s]]
           fields == [s \in Numeric |-> values[s]]
           blank == [saved |-> values, in_effect |-> values, draft |-> values,
                     text |-> fields, shown |-> fields,
                     startup_blocked |-> blocked, protection_busy |-> FALSE,
                     win_v_status |-> "Off", restart_in_progress |-> restarting]
           fresh == SyncWinV(blank, config.win_v, status)
           on == switch = "to_on"
<1>1. (entry /\ ~blocked) \in BOOLEAN /\ on \in BOOLEAN /\ FALSE \in BOOLEAN
  OBVIOUS
<1>2. /\ \A s \in Written \cup {"hotkey", "protection", "win_v"} :
            values[s] = config[s]
      /\ values["startup"] = (entry /\ ~blocked)
      /\ DOMAIN values = Setting
  BY DEF Setting, Written, Numeric, Reducible, Filters
<1>3. Allowed("startup") = BOOLEAN /\ Allowed("protection") = BOOLEAN
      /\ Allowed("win_v") = BOOLEAN
  BY DEF Allowed, Reducible
<1>4. \A s \in Setting \ {"startup"} : s \in ConfigField
  BY DEF ConfigField
<1>5. ValuesOf(Setting, values)
  BY <1>1, <1>2, <1>3, <1>4 DEF TypeInv, WorldTyped, ValuesOf
<1>6. fields \in [Numeric -> Nat]
  <2>1. ASSUME NEW s \in Numeric
        PROVE  values[s] \in Nat
    <3>1. s \in Setting /\ values[s] \in Allowed(s)
      BY <1>5 DEF ValuesOf, Setting, Written
    <3>2. Allowed(s) \subseteq Nat
      BY NumbersAssumption DEF Allowed, Numeric, Reducible
    <3>3. QED
      BY <3>1, <3>2
  <2>2. QED
    BY <2>1
<1>7. IsSession(blank)
  <2>1. DOMAIN blank = SessionField
    BY DEF SessionField
  <2>2. blocked \in BOOLEAN /\ restarting \in BOOLEAN
    BY DEF TypeInv, WorldTyped
  <2>3. fields \in [Numeric -> Nat \cup {NoText}]
    BY <1>6
  <2> HIDE DEF values, fields
  <2>4. QED
    BY <1>1, <1>5, <1>6, <2>1, <2>2, <2>3 DEF IsSession, OffStatus
<1>8. config.win_v \in BOOLEAN /\ status \in OnStatus \cup OffStatus
  BY <1>3 DEF TypeInv, WorldTyped, ValuesOf, ConfigField, Setting
<1>9. /\ IsSession(fresh)
      /\ FollowsWinV(fresh, config.win_v, status)
      /\ \A s \in Setting \ {"win_v"} :
            /\ fresh.saved[s] = values[s]
            /\ fresh.in_effect[s] = values[s]
            /\ fresh.draft[s] = values[s]
      /\ fresh.startup_blocked = blocked
  <2> HIDE DEF values, fields
  <2>1. /\ blank.saved = values /\ blank.in_effect = values /\ blank.draft = values
        /\ blank.startup_blocked = blocked
    OBVIOUS
  <2> HIDE DEF blank
  <2>2. QED
    BY <1>7, <1>8, <2>1, SyncSession DEF SameButWinV
<1>10. /\ \A s \in Written : fresh.saved[s] = config[s] /\ fresh.in_effect[s] = config[s]
       /\ fresh.saved.startup = (entry /\ ~blocked)
       /\ fresh.saved.protection = fresh.in_effect.protection
  <2>1. /\ \A s \in Written \cup {"startup", "protection"} : s \in Setting \ {"win_v"}
        /\ Written \subseteq Written \cup {"hotkey", "protection", "win_v"}
    BY DEF Setting, Written, Numeric, Reducible, Filters
  <2> HIDE DEF values, fields, blank, fresh
  <2>2. QED
    BY <1>2, <1>9, <2>1
<1> HIDE DEF values, fields, blank, fresh
<1>11. fresh.saved.startup => ~fresh.startup_blocked
  BY <1>9, <1>10
<1>12. CASE switch = "idle"
  <2>1. OpenSession = fresh
    BY <1>12 DEF OpenSession, fresh, blank, fields, values
  <2>2. fresh.in_effect.protection = config.protection
    <3>1. "protection" \in Setting \ {"win_v"}
      BY DEF Setting
    <3>2. QED
      BY <1>2, <1>9, <3>1
  <2>3. QED
    BY <1>9, <1>10, <1>11, <1>12, <2>1, <2>2
<1>13. CASE switch # "idle"
  <2> DEFINE locked == ProtectionInProgress(fresh, on)
  <2>1. OpenSession = locked
    BY <1>13 DEF OpenSession, fresh, blank, fields, values
  <2>2. /\ locked.saved = [fresh.saved EXCEPT !["protection"] = on]
        /\ locked.in_effect = [fresh.in_effect EXCEPT !["protection"] = on]
        /\ locked.draft = [fresh.draft EXCEPT !["protection"] = on]
        /\ locked.protection_busy = TRUE
        /\ DOMAIN locked = SessionField
        /\ locked.text = fresh.text /\ locked.shown = fresh.shown
        /\ locked.startup_blocked = fresh.startup_blocked
        /\ locked.win_v_status = fresh.win_v_status
        /\ locked.restart_in_progress = fresh.restart_in_progress
    BY <1>9 DEF ProtectionInProgress, IsSession, SessionField
  <2> HIDE DEF locked
  <2>3. "protection" \in Setting /\ on \in BOOLEAN
    BY DEF Setting
  <2> HIDE DEF on
  <2>4. ValuesOf(Setting, locked.saved)
    BY <1>3, <1>9, <2>2, <2>3 DEF IsSession, ValuesOf
  <2>5. ValuesOf(Setting, locked.in_effect)
    BY <1>3, <1>9, <2>2, <2>3 DEF IsSession, ValuesOf
  <2>6. ValuesOf(Setting, locked.draft)
    BY <1>3, <1>9, <2>2, <2>3 DEF IsSession, ValuesOf
  <2>7. IsSession(locked)
    BY <1>9, <2>2, <2>4, <2>5, <2>6 DEF IsSession
  <2>8. /\ locked.saved.protection = on /\ locked.in_effect.protection = on
        /\ locked.draft.protection = on
    BY <1>9, <2>2, <2>3 DEF IsSession, ValuesOf
  <2>9. \A s \in Setting \ {"protection"} :
           locked.saved[s] = fresh.saved[s] /\ locked.in_effect[s] = fresh.in_effect[s]
    BY <1>9, <2>2 DEF IsSession, ValuesOf
  <2>10. /\ \A s \in Written \cup {"startup", "win_v"} : s \in Setting \ {"protection"}
    BY DEF Setting, Written, Numeric, Reducible, Filters
  <2>11. FollowsWinV(locked, config.win_v, status)
    BY <1>9, <2>2, <2>9, <2>10 DEF FollowsWinV
  <2>12. \A s \in Written : locked.saved[s] = config[s] /\ locked.in_effect[s] = config[s]
    BY <1>10, <2>9, <2>10
  <2>13. locked.saved.startup => ~locked.startup_blocked
    BY <1>11, <2>2, <2>9, <2>10
  <2>14. on = (switch = "to_on")
    BY Zenon DEF on
  <2>15. locked.protection_busy
    BY <2>2
  <2>16. QED
    BY <1>13, <2>1, <2>7, <2>8, <2>11, <2>12, <2>13, <2>14, <2>15
<1>14. QED
  BY <1>12, <1>13

\* What can come of the effects.
LEMMA OutcomeFields ==
    ASSUME NEW from, NEW to, NEW mode, NEW out \in Outcomes(from, to, mode)
    PROVE  /\ out.hotkey \in BOOLEAN /\ out.entry \in BOOLEAN
           /\ out.approval \in BOOLEAN /\ out.persist \in BOOLEAN
           /\ out.undone \in BOOLEAN
           /\ from.win_v = to.win_v => out.win_v = "none"
           /\ from.win_v # to.win_v /\ to.win_v =>
                 out.win_v \in {"failed", "Active", "AwaitingRestart"}
           /\ from.win_v # to.win_v /\ ~to.win_v =>
                 out.win_v \in {"failed"} \cup OffStatus
           /\ mode # "Save" => out.persist
           /\ out.left \in {file, Default}
           /\ out.persist => out.left = file
           /\ out.undone => /\ ~out.persist /\ to.win_v
                            /\ out.win_v \in OnStatus
BY DEF Outcomes

\* What carrying out the effects leaves: every value of the session but those
\* with an effect of their own is the configuration, and the worker knows it.
LEMMA ExecuteEffects ==
    ASSUME TypeInv,
           NEW from, ValuesOf(Setting, from), from.win_v = config.win_v,
           NEW to, ValuesOf(Setting, to),
           NEW mode, NEW out \in Outcomes(from, to, mode),
           Execute(from, to, mode, out)
    PROVE  /\ ValuesOf(ConfigField, config')
           /\ ValuesOf(FileField, file')
           /\ registered' \in Combos \cup {NoCombo}
           /\ entry' \in BOOLEAN /\ blocked' \in BOOLEAN
           /\ status' \in (IF config'.win_v THEN OnStatus ELSE OffStatus)
           /\ switch' \in {"idle", "to_on", "to_off"}
           /\ events' \in 0 .. MaxTurns
           /\ UNCHANGED <<restarting, protected>>
           /\ from.win_v = to.win_v =>
                 status' = status /\ config'.win_v = config.win_v
<1>0. /\ Setting = Written \cup {"hotkey", "startup", "protection", "win_v"}
      /\ ConfigField = Written \cup {"hotkey", "protection", "win_v"}
      /\ FileField = Written \cup {"hotkey", "win_v"}
      /\ Written = {"retention_days", "max_items", "max_pinned",
                    "blocked_programs", "secret_detection"}
  BY DEF Setting, ConfigField, FileField, Written, Numeric, Reducible, Filters
<1>1. /\ Allowed("startup") = BOOLEAN /\ Allowed("win_v") = BOOLEAN
      /\ Allowed("hotkey") = Combos
  BY DEF Allowed, Reducible
<1>2. /\ DOMAIN from = Setting /\ \A s \in Setting : from[s] \in Allowed(s)
      /\ DOMAIN to = Setting /\ \A s \in Setting : to[s] \in Allowed(s)
      /\ DOMAIN config = ConfigField /\ \A s \in ConfigField : config[s] \in Allowed(s)
      /\ DOMAIN file = FileField /\ \A s \in FileField : file[s] \in Allowed(s)
  BY DEF TypeInv, WorldTyped, ValuesOf
<1>3. /\ out.left \in {file, Default}
      /\ out.hotkey \in BOOLEAN /\ out.entry \in BOOLEAN
      /\ out.approval \in BOOLEAN /\ out.persist \in BOOLEAN
      /\ out.undone \in BOOLEAN
      /\ out.undone => ~out.persist /\ to.win_v /\ out.win_v \in OnStatus
      /\ from.win_v = to.win_v => out.win_v = "none"
      /\ from.win_v # to.win_v /\ to.win_v =>
            out.win_v \in {"failed", "Active", "AwaitingRestart"}
      /\ from.win_v # to.win_v /\ ~to.win_v =>
            out.win_v \in {"failed"} \cup OffStatus
  BY OutcomeFields
<1>4. /\ config' = ConfigAfter(from, to, mode, out)
      /\ registered' \in RegisteredAfter(from, to, mode, out)
      /\ entry' = (IF from.startup # to.startup /\ out.entry THEN to.startup ELSE entry)
      /\ blocked' = (blocked /\ ~(ClearsBlock(from, to) /\ out.approval))
      /\ switch' = SwitchAfter(from, to)
      /\ status' = StatusAfter(out)
      /\ file' = FileAfter(from, to, mode, out)
      /\ IF Fails(out) THEN Event ELSE UNCHANGED events
      /\ UNCHANGED <<restarting, protected>>
  BY DEF Execute
<1>5. /\ DOMAIN config' = ConfigField
      /\ config'["hotkey"] \in {to.hotkey, config.hotkey}
      /\ config'["win_v"] = IF SwitchedWinV(out) THEN to.win_v ELSE config.win_v
      /\ \A s \in Written \cup {"protection"} : config'[s] \in {to[s], config[s]}
  BY <1>0, <1>4 DEF ConfigAfter
<1>6. ValuesOf(ConfigField, config')
  BY <1>0, <1>2, <1>5 DEF ValuesOf
<1>7. ValuesOf(FileField, file')
  <2>1. ValuesOf(FileField, out.left)
    BY <1>3, FilesAssumption DEF TypeInv, WorldTyped
  <2>2. ValuesOf(FileField, FieldsOf(config'))
    BY <1>0, <1>6 DEF ValuesOf, FieldsOf
  <2>3. ValuesOf(FileField, [Load(out.left) EXCEPT !["win_v"] = TRUE])
    <3>1. ValuesOf(FileField, Load(out.left))
      BY <2>1, LoadFile
    <3>2. PICK b \in BOOLEAN : b = TRUE
      OBVIOUS
    <3>3. ValuesOf(FileField, [Load(out.left) EXCEPT !["win_v"] = b])
      BY <1>1, <3>1 DEF ValuesOf
    <3>4. QED
      BY <3>2, <3>3
  <2>4. file' \in {file, FieldsOf(config'), out.left, [Load(out.left) EXCEPT !["win_v"] = TRUE]}
    BY <1>4 DEF FileAfter
  <2>5. QED
    BY <2>1, <2>2, <2>3, <2>4 DEF TypeInv, WorldTyped
<1>8. registered' \in Combos \cup {NoCombo}
  <2>1. registered \in Combos \cup {NoCombo} /\ to.hotkey \in Combos
    BY <1>0, <1>1, <1>2 DEF TypeInv, WorldTyped
  <2>2. config'.hotkey \in Combos
    BY <1>0, <1>1, <1>6 DEF ValuesOf
  <2>3. registered' \in {registered, to.hotkey, NoCombo, config'.hotkey}
    BY <1>4 DEF RegisteredAfter
  <2>4. QED
    BY <2>1, <2>2, <2>3
<1>9. entry' \in BOOLEAN
  <2>1. entry \in BOOLEAN /\ to.startup \in BOOLEAN
    BY <1>0, <1>1, <1>2 DEF TypeInv, WorldTyped
  <2>2. QED
    BY <1>4, <2>1
<1>10. blocked' \in BOOLEAN
  BY <1>4, Zenon
<1>11. /\ status' \in (IF config'.win_v THEN OnStatus ELSE OffStatus)
       /\ from.win_v = to.win_v => status' = status /\ config'.win_v = config.win_v
  <2>1. /\ config.win_v \in BOOLEAN /\ to.win_v \in BOOLEAN
        /\ status \in (IF config.win_v THEN OnStatus ELSE OffStatus)
    BY <1>0, <1>1, <1>2 DEF TypeInv, WorldTyped
  <2>2. CASE from.win_v = to.win_v
    <3>1. out.win_v = "none" /\ ~out.undone
      BY <1>3, <2>2 DEF OnStatus
    <3>2. QED
      BY <1>4, <1>5, <2>1, <3>1 DEF StatusAfter, SwitchedWinV, OnStatus, OffStatus
  <2>3. CASE from.win_v # to.win_v /\ to.win_v
    <3>1. ~config.win_v
      BY <2>1, <2>3
    <3>2. QED
      BY <1>3, <1>4, <1>5, <2>1, <2>3, <3>1 DEF StatusAfter, SwitchedWinV, OnStatus, OffStatus
  <2>4. CASE from.win_v # to.win_v /\ ~to.win_v
    <3>1. config.win_v /\ ~out.undone
      BY <1>3, <2>1, <2>4
    <3>2. QED
      BY <1>3, <1>4, <1>5, <2>1, <2>4, <3>1 DEF StatusAfter, SwitchedWinV, OnStatus, OffStatus
  <2>5. QED
    BY <2>2, <2>3, <2>4
<1>12. switch' \in {"idle", "to_on", "to_off"}
  BY <1>4 DEF SwitchAfter, TypeInv, WorldTyped
<1>13. events' \in 0 .. MaxTurns
  BY <1>4, BoundsAssumption DEF Event, TypeInv, WorldTyped
<1>14. QED
  BY <1>4, <1>6, <1>7, <1>8, <1>9, <1>10, <1>11, <1>12, <1>13

\* The configuration takes the values, and the worker is told them.
LEMMA ExecuteValues ==
    ASSUME NEW from, NEW to, NEW mode, NEW out,
           Execute(from, to, mode, out),
           DOMAIN told = Numeric \cup {"secret_detection", "window_pinned"},
           \A s \in Written : from[s] = config[s]
    PROVE  /\ \A s \in Written : config'[s] = to[s]
           /\ told = SentOf(config) => told' = SentOf(config')
<1>0. /\ ConfigField = Written \cup {"hotkey", "protection", "win_v"}
      /\ Written = {"retention_days", "max_items", "max_pinned",
                    "blocked_programs", "secret_detection"}
      /\ Numeric = {"retention_days", "max_items", "max_pinned"}
      /\ Reducible = {"retention_days", "max_items"}
      /\ Filters = {"blocked_programs", "secret_detection"}
  BY DEF Setting, ConfigField, FileField, Written, Numeric, Reducible, Filters
<1>1. /\ config' = ConfigAfter(from, to, mode, out)
      /\ told' = ToldAfter(from, to, mode, out)
  BY DEF Execute
<1>2. \A s \in Written : config'[s] = to[s]
  BY <1>0, <1>1 DEF ConfigAfter, Assigned, Differ
<1>3. ASSUME told = SentOf(config)
      PROVE  told' = SentOf(config')
  <2>1. \A s \in Numeric : told[s] = config[s]
    BY <1>0, <1>3 DEF SentOf
  <2>2. told.secret_detection = config.secret_detection
    BY <1>0, <1>3 DEF SentOf
  <2>3. told.window_pinned = config.max_pinned
    BY <1>0, <1>3 DEF SentOf
  <2>4. told' = [s \in Numeric \cup {"secret_detection", "window_pinned"} |-> told'[s]]
    BY <1>1 DEF ToldAfter
  <2>5. ASSUME NEW s \in Numeric PROVE told'[s] = config'[s]
    BY <1>0, <1>1, <1>2, <2>1 DEF ToldAfter, Differ
  <2>6. told'["secret_detection"] = config'.secret_detection
    BY <1>0, <1>1, <1>2, <2>2 DEF ToldAfter, Differ
  <2>7. told'["window_pinned"] = config'.max_pinned
    BY <1>0, <1>1, <1>2, <2>3 DEF ToldAfter, Differ
  <2>8. QED
    BY <1>0, <2>4, <2>5, <2>6, <2>7 DEF SentOf
<1>4. QED
  BY <1>2, <1>3

\* The switch asked for goes to the value the configuration takes, and a
\* disabled entry is enabled only by the effect that clears the block.
LEMMA ExecuteSwitch ==
    ASSUME NEW from, NEW to, NEW mode, NEW out,
           Execute(from, to, mode, out),
           from.protection = config.protection,
           to.protection \in BOOLEAN
    PROVE  /\ config'.protection = to.protection
           /\ from.protection = to.protection \/ switch # "idle" => switch' = switch
           /\ from.protection # to.protection /\ switch = "idle" =>
                 (switch' = IF to.protection THEN "to_on" ELSE "to_off")
           /\ blocked /\ ~blocked' => ClearsBlock(from, to)
<1>1. /\ config' = ConfigAfter(from, to, mode, out)
      /\ switch' = SwitchAfter(from, to)
  BY DEF Execute
<1>2. blocked /\ ~blocked' => ClearsBlock(from, to)
  <2>1. blocked' = (blocked /\ ~(ClearsBlock(from, to) /\ out.approval))
    BY DEF Execute
  <2>2. QED
    BY <2>1, Zenon
<1>3. config'.protection = to.protection
  <2>1. /\ "protection" \in ConfigField /\ "protection" \notin Reducible
        /\ "protection" \notin Filters
    BY DEF ConfigField, Setting, Reducible, Filters
  <2>2. QED
    BY <1>1, <2>1 DEF ConfigAfter, Assigned
<1>4. QED
  BY <1>1, <1>2, <1>3 DEF SwitchAfter

-----------------------------------------------------------------------------
(* Types of the values of a setting.                                        *)

LEMMA Settings ==
    /\ Setting = Written \cup {"hotkey", "startup", "protection", "win_v"}
    /\ ConfigField = Written \cup {"hotkey", "protection", "win_v"}
    /\ FileField = Written \cup {"hotkey", "win_v"}
    /\ Written = Numeric \cup Filters
    /\ Numeric = Reducible \cup {"max_pinned"}
    /\ Reducible = {"retention_days", "max_items"}
    /\ Filters = {"blocked_programs", "secret_detection"}
    /\ Allowed("startup") = BOOLEAN /\ Allowed("win_v") = BOOLEAN
    /\ Allowed("protection") = BOOLEAN
    /\ Allowed("secret_detection") = BOOLEAN
    /\ Allowed("hotkey") = Combos
    /\ Allowed("max_pinned") = 0 .. MaxPins
    /\ Allowed("blocked_programs") = SUBSET (Programs \cup {Cut})
    /\ \A s \in Reducible : Allowed(s) = Nat \ {0}
BY DEF Setting, ConfigField, FileField, Written, Numeric, Reducible, Filters,
       Allowed

LEMMA NoSessionIsNone == \A ses : IsSession(ses) => ses # NoSession
<1> SUFFICES ASSUME NEW ses, IsSession(ses), ses = NoSession
             PROVE  FALSE
  OBVIOUS
<1>1. DOMAIN ses = {}
  BY DEF NoSession
<1>2. "saved" \in DOMAIN ses
  BY DEF IsSession, SessionField
<1>3. QED
  BY <1>1, <1>2

\* A value of the draft is edited.
LEMMA EditedSession ==
    ASSUME NEW ses, IsSession(ses), NEW s \in Setting, NEW v \in Allowed(s)
    PROVE  /\ IsSession([ses EXCEPT !.draft[s] = v])
           /\ \A x \in SessionField \ {"draft"} :
                 [ses EXCEPT !.draft[s] = v][x] = ses[x]
           /\ \A x \in Setting \ {s} :
                 [ses EXCEPT !.draft[s] = v].draft[x] = ses.draft[x]
<1> DEFINE new == [ses EXCEPT !.draft[s] = v]
<1>1. /\ DOMAIN new = SessionField
      /\ new.draft = [ses.draft EXCEPT ![s] = v]
      /\ \A x \in SessionField \ {"draft"} : new[x] = ses[x]
  BY DEF IsSession, SessionField
<1>2. ValuesOf(Setting, new.draft) /\ \A x \in Setting \ {s} : new.draft[x] = ses.draft[x]
  BY <1>1 DEF IsSession, ValuesOf
<1>3. /\ new.saved = ses.saved /\ new.in_effect = ses.in_effect
      /\ new.text = ses.text /\ new.shown = ses.shown
      /\ new.startup_blocked = ses.startup_blocked
      /\ new.protection_busy = ses.protection_busy
      /\ new.restart_in_progress = ses.restart_in_progress
      /\ new.win_v_status = ses.win_v_status
  BY <1>1 DEF SessionField
<1>4. IsSession(new)
  BY <1>1, <1>2, <1>3 DEF IsSession
<1>5. QED
  BY <1>1, <1>2, <1>4

-----------------------------------------------------------------------------
(* Steps that leave what the session, the configuration and the worker have *)
(* to do with each other as it was.                                         *)

LEMMA KeepsStep ==
    ASSUME SessionInv,
           UNCHANGED <<told, switch>>,
           DOMAIN kept' = DOMAIN kept,
           \A s \in Written : kept'[s] = kept[s],
           \A s \in Written \cup {"protection"} : config'[s] = config[s],
           \/ Closed /\ Closed'
           \/ /\ ~Closed /\ ~Closed'
              /\ SameButWinV(session', session)
              /\ window' = "confirm_save" => window = "confirm_save" /\ lines' = lines
    PROVE  CopyInv'
<1>1. ToldInv'
  <2>1. SentOf(config') = SentOf(config)
    BY Settings DEF SentOf
  <2>2. QED
    BY <2>1 DEF ToldInv, SessionInv, CopyInv
<1>2. CopiesInv'
  BY Settings DEF CopiesInv, SessionInv, CopyInv, SameButWinV
<1>3. SwitchInv'
  BY Settings DEF SwitchInv, SessionInv, CopyInv, SameButWinV
<1>4. LinesInv'
  BY Settings DEF LinesInv, SessionInv, CopyInv, SameButWinV
<1>5. QED
  BY <1>1, <1>2, <1>3, <1>4 DEF CopyInv

\* A draft changes; a locked protection keeps its draft.
LEMMA EditStep ==
    ASSUME SessionInv, window = "open",
           UNCHANGED <<world, window, lines, kept>>,
           \A x \in {"saved", "in_effect", "startup_blocked", "protection_busy"} :
              session'[x] = session[x],
           session.protection_busy => session'.draft.protection = session.draft.protection
    PROVE  CopyInv'
BY DEF world, CopyInv, SessionInv, ToldInv, CopiesInv, SwitchInv, LinesInv, Closed

\* What the session looks like while the window is open.
LEMMA OpenIsTyped ==
    ASSUME SessionInv, ~Closed
    PROVE  /\ IsSession(session) /\ session # NoSession
           /\ FollowsWinV(session, config.win_v, status)
           /\ config.win_v \in BOOLEAN /\ status \in OnStatus \cup OffStatus
<1>1. IsSession(session) /\ FollowsWinV(session, config.win_v, status)
  BY DEF SessionInv, TypeInv, SessionTyped
<1>2. config.win_v \in BOOLEAN /\ status \in OnStatus \cup OffStatus
  BY Settings DEF SessionInv, TypeInv, WorldTyped, ValuesOf
<1>3. QED
  BY <1>1, <1>2, NoSessionIsNone

LEMMA SameSession == SameButWinV(session, session)
BY DEF SameButWinV

\* Steps of the window that leave the session alone.
LEMMA QuietStep ==
    ASSUME SessionInv,
           Alter \/ Disarm \/ Back \/ AskToRestart \/ ConflictOpens
             \/ ConflictCloses \/ TaskManager
    PROVE  SessionInv'
<1> USE DEF Closed
<1>0. armed' \in BOOLEAN
  <2>1. armed \in BOOLEAN
    BY DEF SessionInv, TypeInv, WorldTyped
  <2>2. CASE Alter
    BY <2>2, Zenon DEF Alter
  <2>3. CASE Disarm
    BY <2>3, Zenon DEF Disarm
  <2>4. CASE Back \/ AskToRestart \/ TaskManager
    BY <2>1, <2>4 DEF Back, AskToRestart, TaskManager, capture
  <2>5. CASE ConflictOpens
    BY <2>5, Zenon DEF ConflictOpens
  <2>6. CASE ConflictCloses
    <3>1. armed' = FALSE \/ armed' = armed
      BY <2>6, Zenon DEF ConflictCloses, Release, capture
    <3>2. QED
      BY <2>1, <3>1
  <2>7. QED
    BY <2>2, <2>3, <2>4, <2>5, <2>6
<1>1. blocked' \in BOOLEAN
  <2>1. blocked \in BOOLEAN /\ (~blocked) \in BOOLEAN
    BY Zenon DEF SessionInv, TypeInv, WorldTyped
  <2>2. blocked' = blocked \/ blocked' = (~blocked)
    BY DEF Alter, Disarm, Back, AskToRestart, ConflictOpens, ConflictCloses,
           TaskManager, world
  <2>3. QED
    BY <2>1, <2>2
<1>2. /\ UNCHANGED <<config, file, registered, entry, told, status, restarting,
                    protected, switch, session, kept, torn, edits>>
      /\ owner' \in {"none", "settings", "standalone"}
      /\ events' \in 0 .. MaxTurns
      /\ \/ Closed /\ window' = window
         \/ ~Closed /\ window' \in {"open", "confirm_restart"}
         \/ UNCHANGED <<window, lines>>
  BY BoundsAssumption
     DEF SessionInv, TypeInv, WorldTyped, Alter, Disarm, Back, AskToRestart,
         Ready, ConflictOpens, ConflictCloses, TaskManager, Release, Event,
         world, ghosts, capture
<1>3. WorldTyped'
  BY <1>0, <1>1, <1>2 DEF SessionInv, TypeInv, WorldTyped
<1>4. SessionTyped'
  BY <1>2 DEF SessionInv, TypeInv, SessionTyped
<1>5. \/ Closed /\ Closed'
      \/ ~Closed /\ ~Closed' /\ (window' = "confirm_save" => window = "confirm_save" /\ lines' = lines)
  BY <1>2
<1>6. CopyInv'
  BY <1>2, <1>5, KeepsStep, SameSession DEF SameButWinV
<1>7. QED
  BY <1>3, <1>4, <1>6 DEF SessionInv, TypeInv

\* Edits of the draft.
LEMMA DraftStep ==
    ASSUME SessionInv, window = "open", Edit,
           UNCHANGED <<world, window, lines, events, ghosts, owner>>,
           armed' \in BOOLEAN,
           IsSession(session'),
           \A x \in SessionField \ {"draft", "text"} : session'[x] = session[x],
           session.protection_busy => session'.draft.protection = session.draft.protection
    PROVE  SessionInv'
<1>0. ~Closed /\ ~Closed'
  BY DEF Closed
<1>1. WorldTyped'
  BY BoundsAssumption DEF SessionInv, TypeInv, WorldTyped, world, ghosts, Edit
<1>2. \A x \in {"saved", "in_effect", "startup_blocked", "protection_busy", "win_v_status"} :
         session'[x] = session[x]
  BY DEF SessionField
<1>3. SessionTyped'
  BY <1>0, <1>2, OpenIsTyped DEF SessionTyped, FollowsWinV, world
<1>4. CopyInv'
  BY <1>2, EditStep DEF ghosts
<1>5. QED
  BY <1>1, <1>3, <1>4 DEF SessionInv, TypeInv

LEMMA NormalizedNumber ==
    ASSUME NEW s \in Numeric, NEW t \in Nat \cup {NoText}, NEW previous \in Nat
    PROVE  Normalize(s, t, previous) \in Allowed(s)
BY Settings, NumbersAssumption DEF Normalize

LEMMA EditsStep ==
    ASSUME SessionInv,
           \/ \E s \in Numeric, t \in Numbers \cup {NoText} : SetNumericText(s, t)
           \/ \E s \in {"startup", "secret_detection", "protection", "win_v"} : Toggle(s)
           \/ \E p \in Programs : AddProgram(p)
           \/ RemoveProgram
           \/ \E combo \in Combos : PressKey(combo)
    PROVE  SessionInv'
<1> DEFINE others == SessionField \ {"draft", "text"}
<1>1. ASSUME NEW s \in Numeric, NEW t \in Numbers \cup {NoText}, SetNumericText(s, t)
      PROVE  SessionInv'
  <2>1. /\ window = "open" /\ Edit
        /\ session' = [session EXCEPT !.text[s] = t,
                                      !.draft[s] = Normalize(s, t, session.shown[s])]
        /\ UNCHANGED <<world, window, lines, events, ghosts, owner, armed>>
    BY <1>1 DEF SetNumericText, Draft, Ready, capture
  <2>2. IsSession(session) /\ armed \in BOOLEAN
    BY <2>1, OpenIsTyped DEF Closed, SessionInv, TypeInv, WorldTyped
  <2>3. t \in Nat \cup {NoText} /\ session.shown[s] \in Nat /\ s \in Setting
        /\ s # "protection"
    BY <2>2, NumbersAssumption, Settings DEF IsSession
  <2> DEFINE v == Normalize(s, t, session.shown[s])
  <2>4. v \in Allowed(s)
    BY <2>3, NormalizedNumber
  <2> HIDE DEF v
  <2>5. session' = [session EXCEPT !.text[s] = t, !.draft[s] = v]
    BY <2>1 DEF v
  <2>6. /\ DOMAIN session' = SessionField
        /\ session'.text = [session.text EXCEPT ![s] = t]
        /\ session'.draft = [session.draft EXCEPT ![s] = v]
        /\ \A x \in others : session'[x] = session[x]
    BY <2>2, <2>5 DEF IsSession, SessionField
  <2>7. /\ session'.saved = session.saved /\ session'.in_effect = session.in_effect
        /\ session'.shown = session.shown
        /\ session'.startup_blocked = session.startup_blocked
        /\ session'.protection_busy = session.protection_busy
        /\ session'.restart_in_progress = session.restart_in_progress
        /\ session'.win_v_status = session.win_v_status
    BY <2>6 DEF SessionField
  <2>8. ValuesOf(Setting, session'.draft) /\ session'.draft.protection = session.draft.protection
    BY <2>2, <2>3, <2>4, <2>6 DEF IsSession, ValuesOf
  <2>9. session'.text \in [Numeric -> Nat \cup {NoText}]
    BY <2>2, <2>3, <2>6 DEF IsSession
  <2>10. IsSession(session')
    BY <2>2, <2>6, <2>7, <2>8, <2>9 DEF IsSession
  <2>11. QED
    BY <2>1, <2>2, <2>6, <2>8, <2>10, DraftStep
<1>2. ASSUME NEW s \in Setting, NEW v \in Allowed(s), window = "open", Edit,
             session' = [session EXCEPT !.draft[s] = v],
             s = "protection" => ~session.protection_busy,
             UNCHANGED <<world, window, lines, events, ghosts, owner>>,
             armed' \in BOOLEAN
      PROVE  SessionInv'
  <2>1. IsSession(session)
    BY <1>2, OpenIsTyped DEF Closed
  <2>2. /\ IsSession(session')
        /\ \A x \in SessionField \ {"draft"} : session'[x] = session[x]
        /\ \A x \in Setting \ {s} : session'.draft[x] = session.draft[x]
    BY <1>2, <2>1, EditedSession
  <2>3. "protection" \in Setting
    BY Settings
  <2>4. session.protection_busy => session'.draft.protection = session.draft.protection
    BY <1>2, <2>2, <2>3
  <2>5. QED
    BY <1>2, <2>2, <2>4, DraftStep
<1>3. ASSUME NEW s \in {"startup", "secret_detection", "protection", "win_v"}, Toggle(s)
      PROVE  SessionInv'
  <2>1. /\ window = "open" /\ Edit
        /\ session' = [session EXCEPT !.draft[s] = ~@]
        /\ s = "protection" => ~session.protection_busy
        /\ UNCHANGED <<world, window, lines, events, ghosts, owner, armed>>
    BY <1>3 DEF Toggle, Draft, Ready, capture
  <2>2. IsSession(session) /\ armed \in BOOLEAN
    BY <2>1, OpenIsTyped DEF Closed, SessionInv, TypeInv, WorldTyped
  <2> DEFINE v == ~session.draft[s]
  <2>3. v \in Allowed(s) /\ s \in Setting
    BY Settings
  <2>4. session' = [session EXCEPT !.draft[s] = v]
    BY <2>1, <2>2 DEF IsSession, SessionField
  <2> HIDE DEF v
  <2>5. QED
    BY <1>2, <2>1, <2>2, <2>3, <2>4
<1>4. ASSUME NEW p \in Programs \cup {Cut}, NEW b \in SUBSET (Programs \cup {Cut}),
             Draft([session EXCEPT !.draft["blocked_programs"] = b])
      PROVE  SessionInv'
  <2>1. /\ window = "open" /\ Edit
        /\ session' = [session EXCEPT !.draft["blocked_programs"] = b]
        /\ UNCHANGED <<world, window, lines, events, ghosts, owner, armed>>
    BY <1>4 DEF Draft, Ready, capture
  <2>2. armed \in BOOLEAN /\ b \in Allowed("blocked_programs")
        /\ "blocked_programs" \in Setting
    BY Settings DEF SessionInv, TypeInv, WorldTyped
  <2>3. QED
    BY <1>2, <2>1, <2>2
<1>5. ASSUME NEW p, p \in Programs \/ (p \in session.draft.blocked_programs /\ ~Closed),
             session # NoSession
      PROVE  /\ p \in Programs \cup {Cut}
             /\ session.draft.blocked_programs \cup {p} \in SUBSET (Programs \cup {Cut})
             /\ session.draft.blocked_programs \ {p} \in SUBSET (Programs \cup {Cut})
  <2>1. IsSession(session)
    BY <1>5 DEF SessionInv, TypeInv, SessionTyped
  <2>2. session.draft.blocked_programs \in SUBSET (Programs \cup {Cut})
    BY <2>1, Settings DEF IsSession, ValuesOf
  <2>3. QED
    BY <1>5, <2>2
<1>6. ASSUME NEW p \in Programs, AddProgram(p)
      PROVE  SessionInv'
  <2>1. session # NoSession /\ window = "open"
        /\ Draft([session EXCEPT !.draft["blocked_programs"] = @ \cup {p}])
    BY <1>6 DEF AddProgram, Draft, Ready
  <2>2. IsSession(session)
    BY <2>1, OpenIsTyped DEF Closed
  <2>3. [session EXCEPT !.draft["blocked_programs"] = @ \cup {p}]
          = [session EXCEPT !.draft["blocked_programs"] = session.draft.blocked_programs \cup {p}]
    BY <2>2 DEF IsSession, SessionField
  <2>4. QED
    BY <1>4, <1>5, <2>1, <2>3
<1>7. CASE RemoveProgram
  <2>1. PICK p \in session.draft.blocked_programs :
           Draft([session EXCEPT !.draft["blocked_programs"] = @ \ {p}])
    BY <1>7 DEF RemoveProgram
  <2>2. window = "open" /\ ~Closed
    BY <2>1 DEF Draft, Ready, Closed
  <2>3. IsSession(session) /\ session # NoSession
    BY <2>2, OpenIsTyped
  <2>4. [session EXCEPT !.draft["blocked_programs"] = @ \ {p}]
          = [session EXCEPT !.draft["blocked_programs"] = session.draft.blocked_programs \ {p}]
    BY <2>3 DEF IsSession, SessionField
  <2>5. QED
    BY <1>4, <1>5, <2>1, <2>2, <2>3, <2>4
<1>8. ASSUME NEW combo \in Combos, PressKey(combo)
      PROVE  SessionInv'
  <2>1. /\ window = "open" /\ Edit
        /\ session' = [session EXCEPT !.draft["hotkey"] = combo]
        /\ UNCHANGED <<world, window, lines, events, ghosts, owner>>
    BY <1>8 DEF PressKey
  <2>2. armed' \in BOOLEAN
    BY <1>8, Zenon DEF PressKey
  <2>3. QED
    BY <1>2, <2>1, <2>2, Settings
<1>9. QED
  BY <1>1, <1>3, <1>6, <1>7, <1>8

LEMMA OpenStep == ASSUME SessionInv, Open PROVE SessionInv'
<1>1. /\ window = "closed" /\ window' = "open" /\ session' = OpenSession
      /\ UNCHANGED <<world, lines, capture, edits, events, ghosts>>
  BY DEF Open
<1>2. Closed /\ ~Closed' /\ window' # "confirm_save"
  BY <1>1 DEF Closed
<1>3. WorldTyped'
  BY <1>1 DEF SessionInv, TypeInv, WorldTyped, world, capture, ghosts
<1>4. /\ IsSession(session')
      /\ FollowsWinV(session', config.win_v, status)
      /\ \A s \in Written : /\ session'.saved[s] = config[s]
                            /\ session'.in_effect[s] = config[s]
      /\ session'.saved.startup => ~session'.startup_blocked
      /\ session'.saved.protection = session'.in_effect.protection
      /\ switch # "idle" =>
            /\ session'.protection_busy
            /\ session'.in_effect.protection = (switch = "to_on")
            /\ session'.draft.protection = (switch = "to_on")
      /\ switch = "idle" => session'.in_effect.protection = config.protection
  BY <1>1, OpenedSession DEF SessionInv
<1>5. SessionTyped'
  BY <1>1, <1>2, <1>4 DEF SessionTyped, world, FollowsWinV
<1>6. ToldInv'
  BY <1>1 DEF SessionInv, CopyInv, ToldInv, world
<1>7. CopiesInv'
  BY <1>1, <1>2, <1>4 DEF SessionInv, CopyInv, CopiesInv, world, ghosts
<1>8. SwitchInv'
  <2>1. switch # "idle" => config.protection = (switch = "to_on")
    BY DEF SessionInv, CopyInv, SwitchInv
  <2>2. UNCHANGED <<config, switch>>
    BY <1>1 DEF world
  <2>3. switch # "idle" =>
           /\ session'.in_effect.protection = config.protection
           /\ session'.draft.protection = config.protection
    BY <1>4, <2>1, Zenon
  <2>4. QED
    BY <1>4, <2>1, <2>2, <2>3 DEF SwitchInv
<1>9. LinesInv'
  <2>1. ASSUME NEW s \in Reducible
        PROVE  session'.in_effect[s] >= session'.saved[s]
    <3>1. session'.in_effect[s] = config[s] /\ session'.saved[s] = config[s]
      BY <1>4, Settings
    <3>2. config[s] \in Nat
      BY Settings DEF SessionInv, TypeInv, WorldTyped, ValuesOf
    <3>3. QED
      BY <3>1, <3>2
  <2>2. QED
    BY <1>2, <1>4, <2>1 DEF LinesInv
<1>10. QED
  BY <1>3, <1>5, <1>6, <1>7, <1>8, <1>9 DEF SessionInv, TypeInv, CopyInv

\* The question before an irreversible Save has a line for each reduction and
\* for the entry that the Task Manager has disabled.
LEMMA LinesAreComplete ==
    ASSUME SessionInv, ~Closed
    PROVE  /\ \A s \in Reducible : session.draft[s] < session.saved[s] =>
                                      <<s, session.draft[s]>> \in ConfirmLines
           /\ /\ session.draft.startup /\ ~session.in_effect.startup
              /\ session.startup_blocked
              => <<"startup">> \in ConfirmLines
<1>1. ASSUME NEW s \in Reducible, session.draft[s] < session.saved[s]
      PROVE  <<s, session.draft[s]>> \in ConfirmLines
  <2>1. Kind(s) = "Irreversible"
    BY <1>1 DEF Kind
  <2>2. QED
    BY <1>1, <2>1 DEF ConfirmLines
<1>2. ASSUME session.draft.startup, ~session.in_effect.startup, session.startup_blocked
      PROVE  <<"startup">> \in ConfirmLines
  <2>1. session.draft.startup \in BOOLEAN /\ session.in_effect.startup \in BOOLEAN
    BY OpenIsTyped, Settings DEF IsSession, ValuesOf
  <2>2. session.draft["startup"] # session.in_effect["startup"]
    BY <1>2, <2>1
  <2>3. Kind("startup") = "Irreversible"
    BY <1>2, <2>2, Settings DEF Kind
  <2>4. QED
    BY <2>3 DEF ConfirmLines
<1>3. QED
  BY <1>1, <1>2

LEMMA AskToConfirmStep == ASSUME SessionInv, AskToConfirm PROVE SessionInv'
<1>1. /\ window = "open" /\ window' = "confirm_save" /\ lines' = ConfirmLines
      /\ session' = RewriteFields(session)
      /\ UNCHANGED <<world, capture, edits, events, ghosts>>
  BY DEF AskToConfirm, Ready
<1>2. ~Closed /\ ~Closed'
  BY <1>1 DEF Closed
<1>3. WorldTyped'
  BY <1>1 DEF SessionInv, TypeInv, WorldTyped, world, capture, ghosts
<1>4. /\ IsSession(session')
      /\ \A x \in SessionField \ {"text", "shown"} : session'[x] = session[x]
  BY <1>1, <1>2, OpenIsTyped, RewrittenSession
<1>5. /\ session'.saved = session.saved /\ session'.in_effect = session.in_effect
      /\ session'.draft = session.draft
      /\ session'.startup_blocked = session.startup_blocked
      /\ session'.protection_busy = session.protection_busy
      /\ session'.win_v_status = session.win_v_status
  BY <1>4 DEF SessionField
<1>6. SessionTyped'
  BY <1>1, <1>2, <1>4, <1>5, OpenIsTyped DEF SessionTyped, FollowsWinV, world
<1>7. LinesInv'
  BY <1>1, <1>2, <1>5, LinesAreComplete DEF SessionInv, CopyInv, LinesInv
<1>8. (ToldInv /\ CopiesInv /\ SwitchInv)'
  BY <1>1, <1>2, <1>5 DEF SessionInv, CopyInv, ToldInv, CopiesInv, SwitchInv, world, ghosts
<1>9. QED
  BY <1>3, <1>6, <1>7, <1>8 DEF SessionInv, TypeInv, CopyInv

\* The session is told of another Win+V.
LEMMA FollowStep ==
    ASSUME SessionInv, WorldTyped',
           UNCHANGED <<told, switch>>,
           DOMAIN kept' = DOMAIN kept,
           \A s \in Written : kept'[s] = kept[s],
           \A s \in Written \cup {"protection"} : config'[s] = config[s],
           \/ Closed /\ Closed' /\ UNCHANGED session
           \/ /\ ~Closed /\ ~Closed'
              /\ IsSession(session') /\ FollowsWinV(session', config'.win_v, status')
              /\ SameButWinV(session', session)
              /\ window' = "confirm_save" => window = "confirm_save" /\ lines' = lines
    PROVE  SessionInv'
<1>1. CopyInv'
  BY KeepsStep
<1>2. SessionTyped'
  BY DEF SessionTyped, SessionInv, TypeInv
<1>3. QED
  BY <1>1, <1>2 DEF SessionInv, TypeInv

\* A part of the session that has nothing to do with its values changes.
LEMMA RestartFieldOfSession ==
    ASSUME NEW ses, IsSession(ses), NEW b \in BOOLEAN
    PROVE  /\ IsSession([ses EXCEPT !.restart_in_progress = b])
           /\ SameButWinV([ses EXCEPT !.restart_in_progress = b], ses)
           /\ \A on, new : FollowsWinV(ses, on, new) =>
                 FollowsWinV([ses EXCEPT !.restart_in_progress = b], on, new)
<1> DEFINE new_ses == [ses EXCEPT !.restart_in_progress = b]
<1>1. /\ DOMAIN new_ses = SessionField
      /\ new_ses.saved = ses.saved /\ new_ses.in_effect = ses.in_effect
      /\ new_ses.draft = ses.draft /\ new_ses.text = ses.text
      /\ new_ses.shown = ses.shown
      /\ new_ses.startup_blocked = ses.startup_blocked
      /\ new_ses.protection_busy = ses.protection_busy
      /\ new_ses.restart_in_progress = b
      /\ new_ses.win_v_status = ses.win_v_status
  BY DEF IsSession, SessionField
<1>2. IsSession(new_ses)
  BY <1>1 DEF IsSession
<1>3. QED
  BY <1>1, <1>2 DEF SameButWinV, FollowsWinV

LEMMA ConfirmRestartStep == ASSUME SessionInv, ConfirmRestart PROVE SessionInv'
<1> DEFINE synced == SyncWinV(session, config.win_v, status)
           starts == AwaitsRestart(status) /\ ~session.restart_in_progress
           b == synced.restart_in_progress \/ starts
<1>1. /\ window = "confirm_restart" /\ window' = "open"
      /\ restarting' = (restarting \/ starts)
      /\ session' = [synced EXCEPT !.restart_in_progress = @ \/ starts]
      /\ UNCHANGED <<config, file, registered, entry, blocked, told, status,
                     protected, switch, lines, capture, edits, events, ghosts>>
  BY DEF ConfirmRestart
<1>2. ~Closed /\ ~Closed' /\ window' # "confirm_save"
  BY <1>1 DEF Closed
<1>3. restarting' \in BOOLEAN
  BY <1>1, Zenon
<1>4. WorldTyped'
  BY <1>1, <1>3 DEF SessionInv, TypeInv, WorldTyped, capture, ghosts
<1>5. /\ IsSession(synced) /\ FollowsWinV(synced, config.win_v, status)
      /\ SameButWinV(synced, session)
  BY <1>2, OpenIsTyped, SyncSession
<1> HIDE DEF synced, starts
<1>6. b \in BOOLEAN
  OBVIOUS
<1>7. session' = [synced EXCEPT !.restart_in_progress = b]
  BY <1>1, <1>5 DEF IsSession, SessionField
<1> HIDE DEF b
<1>8. /\ IsSession(session') /\ FollowsWinV(session', config.win_v, status)
      /\ SameButWinV(session', synced)
  BY <1>5, <1>6, <1>7, RestartFieldOfSession
<1>9. SameButWinV(session', session)
  BY <1>5, <1>8 DEF SameButWinV
<1>10. QED
  BY <1>1, <1>2, <1>4, <1>8, <1>9, FollowStep DEF ghosts

LEMMA RestartDoneStep == ASSUME SessionInv, RestartDone PROVE SessionInv'
<1> DEFINE synced == SyncWinV(session, config.win_v, status)
<1>1. /\ session' = (IF session = NoSession THEN session
                     ELSE [synced EXCEPT !.restart_in_progress = FALSE])
      /\ UNCHANGED <<config, file, registered, entry, blocked, told, status,
                     protected, switch, window, lines, capture, edits, events, ghosts>>
  BY DEF RestartDone
<1>2. restarting' \in BOOLEAN
  BY Zenon DEF RestartDone
<1>3. WorldTyped'
  BY <1>1, <1>2 DEF SessionInv, TypeInv, WorldTyped, capture, ghosts
<1>4. CASE Closed
  <2>1. session = NoSession /\ Closed'
    BY <1>1, <1>4 DEF SessionInv, TypeInv, SessionTyped, Closed
  <2>2. QED
    BY <1>1, <1>3, <1>4, <2>1, FollowStep DEF ghosts
<1>5. CASE ~Closed
  <2>0. ~Closed'
    BY <1>1, <1>5 DEF Closed
  <2>1. /\ IsSession(synced) /\ FollowsWinV(synced, config.win_v, status)
        /\ SameButWinV(synced, session) /\ session # NoSession
    BY <1>5, OpenIsTyped, SyncSession
  <2> HIDE DEF synced
  <2>2. PICK b \in BOOLEAN : b = FALSE
    OBVIOUS
  <2>3. session' = [synced EXCEPT !.restart_in_progress = b]
    BY <1>1, <2>1, <2>2
  <2>4. /\ IsSession(session') /\ FollowsWinV(session', config.win_v, status)
        /\ SameButWinV(session', synced)
    BY <2>1, <2>3, RestartFieldOfSession
  <2>5. SameButWinV(session', session)
    BY <2>1, <2>4 DEF SameButWinV
  <2>6. QED
    BY <1>1, <1>3, <1>5, <2>0, <2>4, <2>5, FollowStep DEF ghosts
<1>6. QED
  BY <1>4, <1>5

\* The contents a write may leave are those of a configuration file.
LEMMA PersistedFile ==
    ASSUME TypeInv, NEW content, ValuesOf(FileField, content),
           file' \in Persist(content)
    PROVE  ValuesOf(FileField, file')
BY FilesAssumption DEF Persist, TypeInv, WorldTyped

LEMMA FollowingSession ==
    ASSUME SessionInv, ~Closed, session' = Refreshed(session),
           config'.win_v \in BOOLEAN, status' \in OnStatus \cup OffStatus
    PROVE  /\ IsSession(session') /\ FollowsWinV(session', config'.win_v, status')
           /\ SameButWinV(session', session)
<1>1. IsSession(session) /\ session # NoSession
  BY OpenIsTyped
<1>2. session' = SyncWinV(session, config'.win_v, status')
  BY <1>1 DEF Refreshed
<1>3. QED
  BY <1>1, <1>2, SyncSession

LEMMA ClosedHasNone ==
    ASSUME SessionInv, Closed
    PROVE  session = NoSession /\ Refreshed(session) = session
BY DEF SessionInv, TypeInv, SessionTyped, Refreshed

LEMMA ReleaseTypes ==
    ASSUME SessionInv, NEW who, Release(who) \/ UNCHANGED capture
    PROVE  owner' \in {"none", "settings", "standalone"} /\ armed' \in BOOLEAN
<1>1. owner \in {"none", "settings", "standalone"} /\ armed \in BOOLEAN
  BY DEF SessionInv, TypeInv, WorldTyped
<1>2. armed' = FALSE \/ armed' = armed
  BY Zenon DEF Release, capture
<1>3. owner' = "none" \/ owner' = owner
  BY DEF Release, capture
<1>4. QED
  BY <1>1, <1>2, <1>3

LEMMA TornType ==
    ASSUME NEW content, Tears(content) \/ torn' = torn, torn \in BOOLEAN
    PROVE  torn' \in BOOLEAN
BY Zenon DEF Tears

LEMMA ExplorerReturnedStep ==
    ASSUME SessionInv, ExplorerReturned
    PROVE  SessionInv'
<1>1. /\ UNCHANGED <<config, entry, blocked, told, restarting, protected, switch,
                     window, lines, edits, kept>>
      /\ session' = Refreshed(session)
      /\ Event
  BY DEF ExplorerReturned
<1>2. WorldTyped
  BY DEF SessionInv, TypeInv
<1>3. /\ config.win_v \in BOOLEAN /\ config.hotkey \in Combos
  BY <1>2, Settings DEF WorldTyped, ValuesOf
<1>4. status' \in (IF config.win_v THEN OnStatus ELSE OffStatus)
  BY <1>2, <1>3 DEF ExplorerReturned, WorldTyped, OnStatus, OffStatus
<1>5. registered' \in Combos \cup {NoCombo}
  BY <1>2, <1>3 DEF ExplorerReturned, WorldTyped
<1>6. owner' \in {"none", "settings", "standalone"} /\ armed' \in BOOLEAN
  BY ReleaseTypes DEF ExplorerReturned
<1>7. ValuesOf(FileField, file')
  <2>1. ValuesOf(FileField, file) /\ ValuesOf(FileField, Load(file))
    BY <1>2, LoadFile DEF WorldTyped
  <2>2. file' = file \/ file' \in Persist(Load(file))
    BY DEF ExplorerReturned
  <2>3. QED
    BY <2>1, <2>2, PersistedFile DEF SessionInv
<1>8. torn' \in BOOLEAN
  <2>1. torn' = torn \/ Tears(Load(file))
    BY DEF ExplorerReturned
  <2>2. QED
    BY <1>2, <2>1, TornType DEF WorldTyped
<1>9. WorldTyped'
  BY <1>1, <1>2, <1>4, <1>5, <1>6, <1>7, <1>8, BoundsAssumption DEF WorldTyped, Event
<1>10. status' \in OnStatus \cup OffStatus /\ config'.win_v \in BOOLEAN
  BY <1>1, <1>3, <1>4
<1>11. CASE Closed
  <2>1. Closed' /\ session' = session
    BY <1>1, <1>11, ClosedHasNone DEF Closed
  <2>2. QED
    BY <1>1, <1>9, <1>11, <2>1, FollowStep
<1>12. CASE ~Closed
  <2>1. ~Closed'
    BY <1>1, <1>12 DEF Closed
  <2>2. /\ IsSession(session') /\ FollowsWinV(session', config'.win_v, status')
        /\ SameButWinV(session', session)
    BY <1>1, <1>10, <1>12, FollowingSession
  <2>3. QED
    BY <1>1, <1>9, <1>12, <2>1, <2>2, FollowStep
<1>13. QED
  BY <1>11, <1>12

LEMMA TurnOffWinVStep == ASSUME SessionInv, TurnOffWinV PROVE SessionInv'
<1>1. /\ UNCHANGED <<registered, entry, blocked, told, restarting, protected,
                     switch, window, lines, capture, edits, kept>>
      /\ session' = Refreshed(session)
      /\ Event
      /\ status' \in OffStatus
      /\ config' = [config EXCEPT !["win_v"] = FALSE]
      /\ file' \in Persist([Load(file) EXCEPT !["win_v"] = FALSE])
      /\ Tears([Load(file) EXCEPT !["win_v"] = FALSE])
  BY DEF TurnOffWinV
<1>2. WorldTyped
  BY DEF SessionInv, TypeInv
<1>3. PICK b \in BOOLEAN : b = FALSE
  OBVIOUS
<1>4. /\ config' = [config EXCEPT !["win_v"] = b]
      /\ file' \in Persist([Load(file) EXCEPT !["win_v"] = b])
      /\ Tears([Load(file) EXCEPT !["win_v"] = b])
  BY <1>1, <1>3
<1>5. ValuesOf(ConfigField, config') /\ config'.win_v = b
      /\ \A s \in ConfigField \ {"win_v"} : config'[s] = config[s]
  BY <1>2, <1>4, Settings DEF WorldTyped, ValuesOf
<1>6. ValuesOf(FileField, [Load(file) EXCEPT !["win_v"] = b])
  <2>1. ValuesOf(FileField, Load(file))
    BY <1>2, LoadFile DEF WorldTyped
  <2>2. QED
    BY <2>1, Settings DEF ValuesOf
<1>7. ValuesOf(FileField, file')
  BY <1>4, <1>6, PersistedFile DEF SessionInv
<1>8. torn' \in BOOLEAN
  BY <1>2, <1>4, TornType DEF WorldTyped
<1>9. status' \in (IF config'.win_v THEN OnStatus ELSE OffStatus)
  BY <1>1, <1>3, <1>5
<1>10. WorldTyped'
  BY <1>1, <1>2, <1>5, <1>7, <1>8, <1>9, BoundsAssumption DEF WorldTyped, Event, capture
<1>11. status' \in OnStatus \cup OffStatus /\ config'.win_v \in BOOLEAN
  BY <1>1, <1>5
<1>12. \A s \in Written \cup {"protection"} : config'[s] = config[s]
  BY <1>5, Settings
<1>13. CASE Closed
  <2>1. Closed' /\ session' = session
    BY <1>1, <1>13, ClosedHasNone DEF Closed
  <2>2. QED
    BY <1>1, <1>10, <1>12, <1>13, <2>1, FollowStep
<1>14. CASE ~Closed
  <2>1. ~Closed'
    BY <1>1, <1>14 DEF Closed
  <2>2. /\ IsSession(session') /\ FollowsWinV(session', config'.win_v, status')
        /\ SameButWinV(session', session)
    BY <1>1, <1>11, <1>14, FollowingSession
  <2>3. QED
    BY <1>1, <1>10, <1>12, <1>14, <2>1, <2>2, FollowStep
<1>15. QED
  BY <1>13, <1>14

LEMMA ExchangeStep ==
    ASSUME SessionInv, NEW combo \in Combos, Exchange(combo)
    PROVE  SessionInv'
<1>1. /\ UNCHANGED <<entry, blocked, told, status, restarting, protected,
                     switch, window, session, lines, edits, last>>
      /\ Event
      /\ registered' = combo
      /\ config' = [config EXCEPT !["hotkey"] = combo]
      /\ file' \in Persist(PersistHotkeyOnly(combo))
      /\ Tears(PersistHotkeyOnly(combo))
      /\ Release("standalone")
      /\ kept' = [kept EXCEPT !["hotkey"] = combo]
  BY DEF Exchange
<1>2. WorldTyped
  BY DEF SessionInv, TypeInv
<1>3. ValuesOf(ConfigField, config')
      /\ \A s \in ConfigField \ {"hotkey"} : config'[s] = config[s]
  BY <1>1, <1>2, Settings DEF WorldTyped, ValuesOf
<1>4. ValuesOf(FileField, PersistHotkeyOnly(combo))
  <2>1. ValuesOf(FileField, Load(file))
    BY <1>2, LoadFile DEF WorldTyped
  <2>2. QED
    BY <2>1, Settings DEF ValuesOf, PersistHotkeyOnly
<1>5. ValuesOf(FileField, file')
  BY <1>1, <1>4, PersistedFile DEF SessionInv
<1>6. torn' \in BOOLEAN
  BY <1>1, <1>2, TornType DEF WorldTyped
<1>7. owner' \in {"none", "settings", "standalone"} /\ armed' \in BOOLEAN
  BY <1>1, ReleaseTypes
<1>8. config'.win_v = config.win_v
  BY <1>3, Settings
<1>9. WorldTyped'
  BY <1>1, <1>2, <1>3, <1>5, <1>6, <1>7, <1>8, BoundsAssumption DEF WorldTyped, Event
<1>10. \A s \in Written \cup {"protection"} : config'[s] = config[s]
  BY <1>3, Settings
<1>11. DOMAIN kept' = DOMAIN kept /\ \A s \in Written : kept'[s] = kept[s]
  BY <1>1, Settings DEF SessionInv, CopyInv, CopiesInv
<1>12. CASE Closed
  <2>1. Closed' /\ session' = session
    BY <1>1, <1>12 DEF Closed
  <2>2. QED
    BY <1>1, <1>9, <1>10, <1>11, <1>12, <2>1, FollowStep
<1>13. CASE ~Closed
  <2>1. ~Closed'
    BY <1>1, <1>13 DEF Closed
  <2>2. /\ IsSession(session') /\ FollowsWinV(session', config'.win_v, status')
        /\ SameButWinV(session', session)
    BY <1>1, <1>8, <1>13, OpenIsTyped, SameSession
  <2>3. QED
    BY <1>1, <1>9, <1>10, <1>11, <1>13, <2>1, <2>2, FollowStep
<1>14. QED
  BY <1>12, <1>13

LEMMA ProtectionDoneStep == ASSUME SessionInv, ProtectionDone PROVE SessionInv'
<1>1. /\ UNCHANGED <<config, file, registered, entry, blocked, told, status,
                     restarting, window, lines, capture, edits, events, ghosts>>
      /\ switch' = "idle"
      /\ session' = (IF session = NoSession THEN session
                     ELSE [session EXCEPT !.protection_busy = FALSE])
  BY DEF ProtectionDone
<1>2. protected' \in BOOLEAN
  <2>1. (switch = "to_on") \in BOOLEAN /\ protected \in BOOLEAN
    BY DEF SessionInv, TypeInv, WorldTyped
  <2>2. protected' = protected \/ protected' = (switch = "to_on")
    BY Zenon DEF ProtectionDone
  <2>3. QED
    BY <2>1, <2>2
<1>3. WorldTyped'
  BY <1>1, <1>2 DEF SessionInv, TypeInv, WorldTyped, capture, ghosts
<1>4. ToldInv'
  BY <1>1 DEF SessionInv, CopyInv, ToldInv
<1>5. CASE Closed
  <2>1. Closed' /\ session' = session
    BY <1>1, <1>5, ClosedHasNone DEF Closed
  <2>2. (CopiesInv /\ SwitchInv /\ LinesInv)'
    BY <1>1, <1>5, <2>1 DEF SessionInv, CopyInv, CopiesInv, SwitchInv, LinesInv, ghosts
  <2>3. SessionTyped'
    BY <1>1, <1>5, <2>1 DEF SessionInv, TypeInv, SessionTyped
  <2>4. QED
    BY <1>3, <1>4, <2>2, <2>3 DEF SessionInv, TypeInv, CopyInv
<1>6. CASE ~Closed
  <2>0. ~Closed'
    BY <1>1, <1>6 DEF Closed
  <2>1. IsSession(session) /\ FollowsWinV(session, config.win_v, status)
        /\ session # NoSession
    BY <1>6, OpenIsTyped
  <2>2. PICK b \in BOOLEAN : b = FALSE
    OBVIOUS
  <2>3. session' = [session EXCEPT !.protection_busy = b]
    BY <1>1, <2>1, <2>2
  <2>4. /\ DOMAIN session' = SessionField
        /\ session'.saved = session.saved /\ session'.in_effect = session.in_effect
        /\ session'.draft = session.draft /\ session'.text = session.text
        /\ session'.shown = session.shown
        /\ session'.startup_blocked = session.startup_blocked
        /\ session'.protection_busy = b
        /\ session'.restart_in_progress = session.restart_in_progress
        /\ session'.win_v_status = session.win_v_status
    BY <2>1, <2>3 DEF IsSession, SessionField
  <2>5. SessionTyped'
    BY <1>1, <2>0, <2>1, <2>4 DEF SessionTyped, IsSession, FollowsWinV
  <2>6. (CopiesInv /\ SwitchInv /\ LinesInv)'
    BY <1>1, <1>6, <2>0, <2>4 DEF SessionInv, CopyInv, CopiesInv, SwitchInv, LinesInv, ghosts
  <2>7. QED
    BY <1>3, <1>4, <2>5, <2>6 DEF SessionInv, TypeInv, CopyInv
<1>7. QED
  BY <1>5, <1>6

LEMMA StartStep == ASSUME SessionInv, Start PROVE SessionInv'
<1> DEFINE loaded == Load(file)
<1>1. /\ Event
      /\ config' = [s \in ConfigField |->
                       IF s = "protection" THEN protected' ELSE loaded[s]]
      /\ told' = SentOf(config')
      /\ status' \in (IF loaded.win_v THEN OnStatus ELSE OffStatus)
      /\ registered' \in (IF status' = "Active" THEN {NoCombo}
                                                ELSE {loaded.hotkey, NoCombo})
      /\ switch' = "idle" /\ window' = "closed" /\ session' = NoSession
      /\ owner' = "none"
      /\ kept' = ChosenIn(config')
      /\ UNCHANGED <<file, entry, blocked, edits, last, torn>>
  BY DEF Start
<1>2. protected' \in BOOLEAN /\ restarting' \in BOOLEAN /\ armed' \in BOOLEAN
  <2>1. restarting' \in BOOLEAN /\ armed' \in BOOLEAN
    BY Zenon DEF Start
  <2>2. protected' \in BOOLEAN
    BY DEF Start, SessionInv, TypeInv, WorldTyped
  <2>3. QED
    BY <2>1, <2>2
<1>3. WorldTyped
  BY DEF SessionInv, TypeInv
<1>4. ValuesOf(FileField, loaded)
  BY <1>3, LoadFile DEF WorldTyped
<1> HIDE DEF loaded
<1>5. ValuesOf(ConfigField, config')
  BY <1>1, <1>2, <1>4, Settings DEF ValuesOf
<1>6. config'.win_v = loaded.win_v /\ loaded.hotkey \in Combos
  BY <1>1, <1>4, Settings DEF ValuesOf
<1>7. registered' \in Combos \cup {NoCombo}
  BY <1>1, <1>6
<1>8. WorldTyped'
  BY <1>1, <1>2, <1>3, <1>5, <1>6, <1>7, BoundsAssumption DEF WorldTyped, Event
<1>9. Closed'
  BY <1>1 DEF Closed
<1>10. SessionTyped' /\ ToldInv'
  BY <1>1, <1>9 DEF SessionTyped, ToldInv
<1>11. CopiesInv'
  BY <1>1, <1>9, Settings DEF CopiesInv, ChosenIn
<1>12. SwitchInv' /\ LinesInv'
  BY <1>1, <1>9 DEF SwitchInv, LinesInv
<1>13. QED
  BY <1>8, <1>10, <1>11, <1>12 DEF SessionInv, TypeInv, CopyInv

-----------------------------------------------------------------------------
(* Applying, taking back and saving.                                        *)

\* What carrying out the effects of an open window leaves.
LEMMA WindowExecutes ==
    ASSUME SessionInv, ~Closed, NEW to, ValuesOf(Setting, to), NEW mode,
           NEW out \in Outcomes(session.in_effect, to, mode),
           Execute(session.in_effect, to, mode, out),
           switch # "idle" => to.protection = config.protection
    PROVE  /\ ValuesOf(ConfigField, config')
           /\ ValuesOf(FileField, file')
           /\ registered' \in Combos \cup {NoCombo}
           /\ entry' \in BOOLEAN /\ blocked' \in BOOLEAN
           /\ status' \in (IF config'.win_v THEN OnStatus ELSE OffStatus)
           /\ status' \in OnStatus \cup OffStatus /\ config'.win_v \in BOOLEAN
           /\ switch' \in {"idle", "to_on", "to_off"}
           /\ events' \in 0 .. MaxTurns
           /\ UNCHANGED <<restarting, protected>>
           /\ to.win_v = session.in_effect.win_v =>
                 status' = status /\ config'.win_v = config.win_v
           /\ \A s \in Written : config'[s] = to[s]
           /\ ToldInv'
           /\ config'.protection = to.protection
           /\ switch' # "idle" => config'.protection = (switch' = "to_on")
           /\ to.protection = config.protection => switch' = switch
           /\ switch # "idle" => switch' = switch
           /\ blocked /\ ~blocked' => ClearsBlock(session.in_effect, to)
<1> DEFINE from == session.in_effect
<1>1. ValuesOf(Setting, from) /\ from.win_v = config.win_v
  BY OpenIsTyped DEF IsSession, FollowsWinV
<1>2. \A s \in Written : from[s] = config[s]
  BY DEF SessionInv, CopyInv, CopiesInv
<1>3. told = SentOf(config)
      /\ DOMAIN told = Numeric \cup {"secret_detection", "window_pinned"}
  BY DEF SessionInv, CopyInv, ToldInv, SentOf
<1>4. from.protection = config.protection
  BY DEF SessionInv, CopyInv, SwitchInv
<1>5. to.protection \in BOOLEAN
  BY Settings DEF ValuesOf
<1>6. TypeInv
  BY DEF SessionInv
<1> HIDE DEF from
<1>7. /\ Execute(from, to, mode, out) /\ out \in Outcomes(from, to, mode)
      /\ from = session.in_effect
  BY DEF from
<1>8. /\ ValuesOf(ConfigField, config')
      /\ ValuesOf(FileField, file')
      /\ registered' \in Combos \cup {NoCombo}
      /\ entry' \in BOOLEAN /\ blocked' \in BOOLEAN
      /\ status' \in (IF config'.win_v THEN OnStatus ELSE OffStatus)
      /\ switch' \in {"idle", "to_on", "to_off"}
      /\ events' \in 0 .. MaxTurns
      /\ UNCHANGED <<restarting, protected>>
      /\ from.win_v = to.win_v => status' = status /\ config'.win_v = config.win_v
  BY <1>1, <1>6, <1>7, ExecuteEffects
<1>9. /\ \A s \in Written : config'[s] = to[s]
      /\ told' = SentOf(config')
  BY <1>2, <1>3, <1>7, ExecuteValues
<1>10. /\ config'.protection = to.protection
       /\ from.protection = to.protection \/ switch # "idle" => switch' = switch
       /\ from.protection # to.protection /\ switch = "idle" =>
             (switch' = IF to.protection THEN "to_on" ELSE "to_off")
       /\ blocked /\ ~blocked' => ClearsBlock(from, to)
  BY <1>4, <1>5, <1>7, ExecuteSwitch
<1>11. switch' # "idle" => config'.protection = (switch' = "to_on")
  <2>1. CASE switch # "idle"
    <3>1. config.protection = (switch = "to_on")
      BY <2>1 DEF SessionInv, CopyInv, SwitchInv
    <3>2. switch' = switch /\ config'.protection = config.protection
      BY <1>10, <2>1
    <3>3. QED
      BY <3>1, <3>2, Zenon
  <2>2. CASE switch = "idle" /\ from.protection = to.protection
    BY <1>10, <2>2
  <2>3. CASE switch = "idle" /\ from.protection # to.protection
    <3>1. config'.protection = to.protection
          /\ (switch' = IF to.protection THEN "to_on" ELSE "to_off")
      BY <1>10, <2>3
    <3>2. CASE to.protection
      <4>1. to.protection = TRUE /\ (switch' = "to_on") = TRUE
        BY <1>5, <3>1, <3>2
      <4>2. QED
        BY <3>1, <4>1
    <3>3. CASE ~to.protection
      <4>1. to.protection = FALSE /\ (switch' = "to_on") = FALSE
        BY <1>5, <3>1, <3>3
      <4>2. QED
        BY <3>1, <4>1
    <3>4. QED
      BY <3>2, <3>3
  <2>4. QED
    BY <2>1, <2>2, <2>3
<1>12. status' \in OnStatus \cup OffStatus /\ config'.win_v \in BOOLEAN
  BY <1>8, Settings DEF ValuesOf
<1>13. QED
  BY <1>4, <1>7, <1>8, <1>9, <1>10, <1>11, <1>12 DEF ToldInv

\* What Apply puts in effect: nothing irreversible.
LEMMA AppliedValues ==
    ASSUME SessionInv, ~Closed,
           NEW to,
           to = [s \in Setting |-> IF Kind(s) = "Reversible" THEN session.draft[s]
                                                            ELSE session.in_effect[s]]
    PROVE  /\ ValuesOf(Setting, to)
           /\ to.win_v = session.in_effect.win_v
           /\ to.protection = session.in_effect.protection
           /\ \A s \in Reducible : to[s] >= session.saved[s]
           /\ ~ClearsBlock(session.in_effect, to)
<1>1. IsSession(session)
  BY OpenIsTyped
<1>2. ValuesOf(Setting, to)
  BY <1>1 DEF IsSession, ValuesOf
<1>3. to.win_v = session.in_effect.win_v /\ to.protection = session.in_effect.protection
  <2>1. \A s \in {"win_v", "protection"} : Kind(s) # "Reversible" /\ s \in Setting
    BY Settings DEF Kind
  <2>2. QED
    BY <2>1
<1>4. ASSUME NEW s \in Reducible
      PROVE  to[s] >= session.saved[s]
  <2>1. /\ s \in Setting
        /\ session.draft[s] \in Nat /\ session.saved[s] \in Nat
        /\ session.in_effect[s] \in Nat
    BY <1>1, Settings DEF IsSession, ValuesOf
  <2>2. session.in_effect[s] >= session.saved[s]
    BY DEF SessionInv, CopyInv, LinesInv
  <2>3. Kind(s) = "Reversible" => ~(session.draft[s] < session.saved[s])
    BY DEF Kind
  <2>4. QED
    BY <2>1, <2>2, <2>3
<1>5. ~ClearsBlock(session.in_effect, to)
  <2>1. SUFFICES ASSUME session.in_effect.startup # to.startup, to.startup,
                        session.startup_blocked
                 PROVE  FALSE
    BY DEF ClearsBlock
  <2>2. Kind("startup") = "Reversible" /\ to.startup = session.draft.startup
    BY <2>1, Settings
  <2>3. session.draft["startup"] # session.in_effect["startup"] /\ session.draft["startup"]
    BY <2>1, <2>2
  <2>4. Kind("startup") = "Irreversible"
    BY <2>1, <2>3, Settings DEF Kind
  <2>5. QED
    BY <2>2, <2>4
<1>6. QED
  BY <1>2, <1>3, <1>4, <1>5

LEMMA ApplyStep == ASSUME SessionInv, Apply PROVE SessionInv'
<1> DEFINE from == session.in_effect
           to == [s \in Setting |->
                     IF Kind(s) = "Reversible" THEN session.draft[s] ELSE from[s]]
           shown == RewriteFields(session)
<1>1. /\ window = "open"
      /\ UNCHANGED <<window, lines, capture, edits, ghosts>>
  BY DEF Apply, Ready
<1>2. PICK out \in Outcomes(from, to, "Apply") :
         /\ Execute(from, to, "Apply", out)
         /\ session' = (IF out.hotkey
                        THEN [shown EXCEPT !.in_effect = to]
                        ELSE [shown EXCEPT
                                 !.in_effect = [to EXCEPT !["hotkey"] = from.hotkey],
                                 !.draft["hotkey"] = from.hotkey])
  BY DEF Apply
<1>3. ~Closed /\ ~Closed' /\ window' # "confirm_save"
  BY <1>1 DEF Closed
<1>4. IsSession(session) /\ FollowsWinV(session, config.win_v, status)
  BY <1>3, OpenIsTyped
<1>5. /\ ValuesOf(Setting, to)
      /\ to.win_v = from.win_v
      /\ to.protection = from.protection
      /\ \A s \in Reducible : to[s] >= session.saved[s]
  BY <1>3, AppliedValues
<1>6. IsSession(shown) /\ \A x \in SessionField \ {"text", "shown"} : shown[x] = session[x]
  BY <1>4, RewrittenSession
<1> HIDE DEF to, shown
<1>7. from.protection = config.protection
  BY <1>3 DEF SessionInv, CopyInv, SwitchInv
<1>8. /\ ValuesOf(ConfigField, config')
      /\ ValuesOf(FileField, file')
      /\ registered' \in Combos \cup {NoCombo}
      /\ entry' \in BOOLEAN /\ blocked' \in BOOLEAN
      /\ switch' \in {"idle", "to_on", "to_off"}
      /\ events' \in 0 .. MaxTurns
      /\ UNCHANGED <<restarting, protected>>
      /\ status' = status /\ config'.win_v = config.win_v
      /\ \A s \in Written : config'[s] = to[s]
      /\ ToldInv'
      /\ config'.protection = to.protection
      /\ switch' = switch
  BY <1>2, <1>3, <1>5, <1>7, WindowExecutes
<1>9. WorldTyped'
  BY <1>1, <1>8 DEF SessionInv, TypeInv, WorldTyped, capture, ghosts
<1>10. /\ shown.saved = session.saved /\ shown.draft = session.draft
       /\ shown.startup_blocked = session.startup_blocked
       /\ shown.protection_busy = session.protection_busy
       /\ shown.win_v_status = session.win_v_status
  BY <1>6 DEF SessionField
<1>11. /\ DOMAIN session' = SessionField
       /\ session'.saved = shown.saved /\ session'.text = shown.text
       /\ session'.shown = shown.shown
       /\ session'.startup_blocked = shown.startup_blocked
       /\ session'.protection_busy = shown.protection_busy
       /\ session'.restart_in_progress = shown.restart_in_progress
       /\ session'.win_v_status = shown.win_v_status
       /\ session'.in_effect \in {to, [to EXCEPT !["hotkey"] = from.hotkey]}
       /\ session'.draft \in {shown.draft, [shown.draft EXCEPT !["hotkey"] = from.hotkey]}
  BY <1>2, <1>6 DEF IsSession, SessionField
<1>12. from.hotkey \in Combos
  BY <1>4, Settings DEF IsSession, ValuesOf
<1>13. /\ ValuesOf(Setting, session'.in_effect)
       /\ \A s \in Setting \ {"hotkey"} : session'.in_effect[s] = to[s]
  BY <1>5, <1>11, <1>12, Settings DEF ValuesOf
<1>14. /\ ValuesOf(Setting, session'.draft)
       /\ \A s \in Setting \ {"hotkey"} : session'.draft[s] = session.draft[s]
  <2>1. ValuesOf(Setting, session.draft) /\ "hotkey" \in Setting
    BY <1>4, Settings DEF IsSession
  <2>2. session'.draft \in {session.draft, [session.draft EXCEPT !["hotkey"] = from.hotkey]}
    BY <1>10, <1>11
  <2>3. QED
    BY <1>12, <2>1, <2>2, Settings DEF ValuesOf
<1>15. IsSession(session')
  BY <1>6, <1>11, <1>13, <1>14 DEF IsSession
<1>16. SessionTyped'
  BY <1>3, <1>4, <1>5, <1>8, <1>10, <1>11, <1>13, <1>15, Settings DEF SessionTyped, FollowsWinV
<1>17. CopiesInv'
  BY <1>1, <1>3, <1>8, <1>10, <1>11, <1>13, Settings
     DEF SessionInv, CopyInv, CopiesInv, ghosts
<1>18. SwitchInv'
  BY <1>3, <1>5, <1>7, <1>8, <1>10, <1>11, <1>13, <1>14, Settings
     DEF SessionInv, CopyInv, SwitchInv
<1>19. LinesInv'
  BY <1>3, <1>5, <1>10, <1>11, <1>13, Settings
     DEF SessionInv, CopyInv, LinesInv
<1>20. QED
  BY <1>8, <1>9, <1>16, <1>17, <1>18, <1>19 DEF SessionInv, TypeInv, CopyInv

\* Cancel, and the end of the program with the window open, go back to what is
\* saved.
LEMMA RevertStep ==
    ASSUME SessionInv, ~Closed, Revert,
           window' \in {"closed", "ended"}, session' = NoSession,
           owner' \in {"none", "settings", "standalone"}, armed' \in BOOLEAN,
           UNCHANGED <<edits, ghosts>>
    PROVE  /\ SessionInv'
           /\ ~(blocked /\ ~blocked')
<1>1. PICK out \in Outcomes(session.in_effect, session.saved, "Cancel") :
         Execute(session.in_effect, session.saved, "Cancel", out)
  BY DEF Revert
<1>2. IsSession(session) /\ FollowsWinV(session, config.win_v, status)
  BY OpenIsTyped
<1>3. /\ ValuesOf(Setting, session.saved)
      /\ session.saved.win_v = session.in_effect.win_v
  BY <1>2 DEF IsSession, FollowsWinV
<1>4. session.saved.protection = config.protection
  BY DEF SessionInv, CopyInv, SwitchInv
<1>5. /\ ValuesOf(ConfigField, config')
      /\ ValuesOf(FileField, file')
      /\ registered' \in Combos \cup {NoCombo}
      /\ entry' \in BOOLEAN /\ blocked' \in BOOLEAN
      /\ status' \in (IF config'.win_v THEN OnStatus ELSE OffStatus)
      /\ switch' \in {"idle", "to_on", "to_off"}
      /\ events' \in 0 .. MaxTurns
      /\ UNCHANGED <<restarting, protected>>
      /\ \A s \in Written : config'[s] = session.saved[s]
      /\ ToldInv'
      /\ switch' # "idle" => config'.protection = (switch' = "to_on")
      /\ blocked /\ ~blocked' => ClearsBlock(session.in_effect, session.saved)
  BY <1>1, <1>3, <1>4, WindowExecutes
<1>6. ~ClearsBlock(session.in_effect, session.saved)
  BY DEF SessionInv, CopyInv, LinesInv, ClearsBlock
<1>7. Closed'
  BY DEF Closed
<1>8. WorldTyped'
  BY <1>5 DEF SessionInv, TypeInv, WorldTyped, ghosts
<1>9. SessionTyped'
  BY <1>7 DEF SessionTyped
<1>10. CopiesInv'
  BY <1>5, <1>7 DEF SessionInv, CopyInv, CopiesInv, ghosts
<1>11. SwitchInv' /\ LinesInv'
  BY <1>5, <1>7 DEF SwitchInv, LinesInv
<1>12. QED
  BY <1>5, <1>6, <1>8, <1>9, <1>10, <1>11 DEF SessionInv, TypeInv, CopyInv

LEMMA CancelStep == ASSUME SessionInv, Cancel PROVE SessionInv'
<1>1. /\ ~Closed /\ Revert /\ window' = "closed" /\ session' = NoSession
      /\ Release("settings")
      /\ UNCHANGED <<edits, ghosts>>
  BY DEF Cancel, Ready, Close, Closed
<1>2. owner' \in {"none", "settings", "standalone"} /\ armed' \in BOOLEAN
  BY <1>1, ReleaseTypes
<1>3. QED
  BY <1>1, <1>2, RevertStep

LEMMA QuitStep == ASSUME SessionInv, Quit PROVE SessionInv'
<1>1. /\ IF session = NoSession THEN UNCHANGED <<world, events>> ELSE Revert
      /\ window # "ended" /\ window' = "ended" /\ session' = NoSession
      /\ owner' = "none"
      /\ UNCHANGED <<edits, ghosts>>
  BY DEF Quit
<1>2. armed' \in BOOLEAN
  BY Zenon DEF Quit
<1>3. CASE ~Closed
  BY <1>1, <1>2, <1>3, OpenIsTyped, RevertStep
<1>4. CASE Closed
  <2>1. session = NoSession /\ Closed'
    BY <1>1, <1>4, ClosedHasNone DEF Closed
  <2>2. WorldTyped'
    BY <1>1, <1>2, <2>1 DEF SessionInv, TypeInv, WorldTyped, world, ghosts
  <2>3. QED
    BY <1>1, <1>4, <2>1, <2>2, FollowStep DEF world, ghosts
<1>5. QED
  BY <1>3, <1>4

\* The session of a Save before Win+V is looked at: everything is in effect,
\* but a hotkey that was refused.
Confirmed(busy, still) ==
    [RewriteFields(session) EXCEPT !.in_effect = session.draft,
                                   !.protection_busy = busy,
                                   !.startup_blocked = still]

Reverted(busy, still, taken) ==
    IF taken THEN Confirmed(busy, still)
    ELSE [Confirmed(busy, still) EXCEPT
             !.in_effect["hotkey"] = session.in_effect.hotkey,
             !.draft["hotkey"] = session.in_effect.hotkey]

LEMMA ConfirmedSession ==
    ASSUME SessionInv, ~Closed, NEW busy \in BOOLEAN, NEW still \in BOOLEAN,
           NEW taken \in BOOLEAN
    PROVE  /\ IsSession(Reverted(busy, still, taken))
           /\ \A s \in Setting \ {"hotkey"} :
                 /\ Reverted(busy, still, taken).in_effect[s] = session.draft[s]
                 /\ Reverted(busy, still, taken).draft[s] = session.draft[s]
           /\ Reverted(busy, still, taken).protection_busy = busy
           /\ Reverted(busy, still, taken).startup_blocked = still
<1> DEFINE confirmed == Confirmed(busy, still)
           reverted == Reverted(busy, still, taken)
<1> DEFINE shown == RewriteFields(session)
<1>1. IsSession(session)
  BY OpenIsTyped
<1>2. IsSession(shown) /\ \A x \in SessionField \ {"text", "shown"} : shown[x] = session[x]
  BY <1>1, RewrittenSession
<1>3. shown.draft = session.draft
  BY <1>2 DEF SessionField
<1> HIDE DEF shown
<1>4. /\ DOMAIN confirmed = SessionField
      /\ confirmed.saved = shown.saved /\ confirmed.in_effect = session.draft
      /\ confirmed.draft = session.draft /\ confirmed.text = shown.text
      /\ confirmed.shown = shown.shown /\ confirmed.startup_blocked = still
      /\ confirmed.protection_busy = busy
      /\ confirmed.restart_in_progress = shown.restart_in_progress
      /\ confirmed.win_v_status = shown.win_v_status
  BY <1>2, <1>3 DEF IsSession, SessionField, shown, Confirmed
<1> HIDE DEF confirmed
<1>5. ValuesOf(Setting, session.draft) /\ session.in_effect.hotkey \in Combos
  BY <1>1, Settings DEF IsSession, ValuesOf
<1>6. /\ DOMAIN reverted = SessionField
      /\ reverted.saved = confirmed.saved
      /\ reverted.in_effect \in {session.draft,
            [session.draft EXCEPT !["hotkey"] = session.in_effect.hotkey]}
      /\ reverted.draft \in {session.draft,
            [session.draft EXCEPT !["hotkey"] = session.in_effect.hotkey]}
      /\ reverted.text = confirmed.text
      /\ reverted.shown = confirmed.shown /\ reverted.startup_blocked = still
      /\ reverted.protection_busy = busy
      /\ reverted.restart_in_progress = confirmed.restart_in_progress
      /\ reverted.win_v_status = confirmed.win_v_status
  <2>1. reverted = IF taken THEN confirmed
                   ELSE [confirmed EXCEPT
                            !.in_effect["hotkey"] = session.in_effect.hotkey,
                            !.draft["hotkey"] = session.in_effect.hotkey]
    BY DEF Reverted, confirmed
  <2> HIDE DEF reverted
  <2>2. QED
    BY <1>4, <2>1 DEF SessionField
<1> HIDE DEF reverted
<1>7. /\ ValuesOf(Setting, reverted.in_effect)
      /\ \A s \in Setting \ {"hotkey"} : reverted.in_effect[s] = session.draft[s]
  BY <1>5, <1>6, Settings DEF ValuesOf
<1>8. /\ ValuesOf(Setting, reverted.draft)
      /\ \A s \in Setting \ {"hotkey"} : reverted.draft[s] = session.draft[s]
  BY <1>5, <1>6, Settings DEF ValuesOf
<1>9. IsSession(reverted)
  BY <1>2, <1>4, <1>6, <1>7, <1>8 DEF IsSession
<1>10. QED
  BY <1>6, <1>7, <1>8, <1>9 DEF reverted

\* The session that stays open after a Save that failed: Win+V follows the
\* program, and what is in effect is what is saved.
Settled(ses, on, new, failed) ==
    IF failed
    THEN [SyncWinV(ses, on, new) EXCEPT
             !.in_effect["win_v"] = SyncWinV(ses, on, new).saved.win_v,
             !.draft["win_v"] = SyncWinV(ses, on, new).saved.win_v]
    ELSE SyncWinV(ses, on, new)

AllSaved(ses) == [ses EXCEPT !.saved = ses.in_effect]

LEMMA SettledSession ==
    ASSUME NEW ses, IsSession(ses), NEW on \in BOOLEAN,
           NEW new \in OnStatus \cup OffStatus, NEW failed \in BOOLEAN
    PROVE  /\ IsSession(AllSaved(Settled(ses, on, new, failed))) /\ FollowsWinV(AllSaved(Settled(ses, on, new, failed)), on, new)
           /\ \A s \in Setting \ {"win_v"} :
                 /\ AllSaved(Settled(ses, on, new, failed)).saved[s] = ses.in_effect[s]
                 /\ AllSaved(Settled(ses, on, new, failed)).in_effect[s] = ses.in_effect[s]
                 /\ AllSaved(Settled(ses, on, new, failed)).draft[s] = ses.draft[s]
           /\ AllSaved(Settled(ses, on, new, failed)).startup_blocked = ses.startup_blocked
           /\ AllSaved(Settled(ses, on, new, failed)).protection_busy = ses.protection_busy
<1> DEFINE settled == Settled(ses, on, new, failed)
           final == AllSaved(settled)
<1> DEFINE synced == SyncWinV(ses, on, new)
<1>1. /\ IsSession(synced) /\ FollowsWinV(synced, on, new)
      /\ SameButWinV(synced, ses)
  BY SyncSession
<1>2. settled = IF failed
                THEN [synced EXCEPT !.in_effect["win_v"] = synced.saved.win_v,
                                    !.draft["win_v"] = synced.saved.win_v]
                ELSE synced
  BY DEF Settled
<1> HIDE DEF synced, settled
<1>3. /\ DOMAIN settled = SessionField
      /\ settled.saved = synced.saved
      /\ settled.in_effect \in {synced.in_effect, [synced.in_effect EXCEPT !["win_v"] = on]}
      /\ settled.draft \in {synced.draft, [synced.draft EXCEPT !["win_v"] = on]}
      /\ settled.text = synced.text /\ settled.shown = synced.shown
      /\ settled.startup_blocked = synced.startup_blocked
      /\ settled.protection_busy = synced.protection_busy
      /\ settled.restart_in_progress = synced.restart_in_progress
      /\ settled.win_v_status = synced.win_v_status
  <2>1. DOMAIN synced = SessionField /\ synced.saved.win_v = on
    BY <1>1 DEF IsSession, FollowsWinV
  <2>2. CASE ~failed
    BY <1>2, <2>1, <2>2
  <2>3. CASE failed
    <3>1. settled = [synced EXCEPT !.in_effect["win_v"] = on, !.draft["win_v"] = on]
      BY <1>2, <2>1, <2>3
    <3>2. QED
      BY <2>1, <3>1 DEF SessionField
  <2>4. QED
    BY <2>2, <2>3
<1>4. /\ ValuesOf(Setting, settled.in_effect) /\ settled.in_effect.win_v = on
      /\ \A s \in Setting \ {"win_v"} : settled.in_effect[s] = synced.in_effect[s]
  <2>1. ValuesOf(Setting, synced.in_effect) /\ synced.in_effect.win_v = on
    BY <1>1 DEF IsSession, FollowsWinV
  <2>2. QED
    BY <1>3, <2>1, Settings DEF ValuesOf
<1>5. /\ ValuesOf(Setting, settled.draft)
      /\ \A s \in Setting \ {"win_v"} : settled.draft[s] = synced.draft[s]
  <2>1. ValuesOf(Setting, synced.draft)
    BY <1>1 DEF IsSession
  <2>2. QED
    BY <1>3, <2>1, Settings DEF ValuesOf
<1>6. /\ DOMAIN final = SessionField
      /\ final.saved = settled.in_effect /\ final.in_effect = settled.in_effect
      /\ final.draft = settled.draft /\ final.text = settled.text
      /\ final.shown = settled.shown
      /\ final.startup_blocked = settled.startup_blocked
      /\ final.protection_busy = settled.protection_busy
      /\ final.restart_in_progress = settled.restart_in_progress
      /\ final.win_v_status = settled.win_v_status
  <2>1. final = [settled EXCEPT !.saved = settled.in_effect]
    BY DEF AllSaved, final
  <2> HIDE DEF final
  <2>2. QED
    BY <1>3, <2>1 DEF SessionField
<1> HIDE DEF final
<1>7. IsSession(final)
  BY <1>1, <1>3, <1>4, <1>5, <1>6 DEF IsSession
<1>8. FollowsWinV(final, on, new)
  BY <1>1, <1>3, <1>4, <1>6 DEF FollowsWinV
<1>9. QED
  BY <1>1, <1>3, <1>4, <1>5, <1>6, <1>7, <1>8 DEF SameButWinV, final, settled

LEMMA SaveAllStep ==
    ASSUME SessionInv, ~Closed, SaveAll
    PROVE  /\ SessionInv'
           /\ \A s \in Reducible : told'[s] = session.draft[s]
           /\ blocked /\ ~blocked' => ClearsBlock(session.in_effect, session.draft)
<1> DEFINE from == session.in_effect
           to == session.draft
           busy == session.protection_busy \/ from.protection # to.protection
           still == session.startup_blocked /\ ~to.startup
<1>1. IsSession(session) /\ FollowsWinV(session, config.win_v, status)
  BY OpenIsTyped
<1> DEFINE confirmed == [RewriteFields(session) EXCEPT
                            !.in_effect = to,
                            !.protection_busy = @ \/ from.protection # to.protection,
                            !.startup_blocked = @ /\ ~to.startup]
           failed(out) == out.win_v = "failed" \/ out.undone
           reverted(out) == IF out.hotkey THEN confirmed
                            ELSE [confirmed EXCEPT !.in_effect["hotkey"] = from.hotkey,
                                                   !.draft["hotkey"] = from.hotkey]
           synced(out) == SyncWinV(reverted(out), config'.win_v, status')
           settled(out) == IF failed(out)
                           THEN [synced(out) EXCEPT
                                    !.in_effect["win_v"] = synced(out).saved.win_v,
                                    !.draft["win_v"] = synced(out).saved.win_v]
                           ELSE synced(out)
<1>2. PICK out \in Outcomes(from, to, "Save") :
         /\ Execute(from, to, "Save", out)
         /\ IF out.hotkey /\ out.persist /\ ~failed(out)
            THEN Close
            ELSE /\ window' = "open"
                 /\ session' = [settled(out) EXCEPT !.saved = settled(out).in_effect]
                 /\ lines' = {}
                 /\ UNCHANGED capture
         /\ kept' = ChosenIn(config')
         /\ last' = (IF out.persist
                     THEN [s \in Written |-> Load(FieldsOf(config'))[s]] ELSE last)
         /\ torn' = (~out.persist /\ (torn \/ out.left # file))
         /\ UNCHANGED edits
  BY Zenon DEF SaveAll
<1>3. ~(out.hotkey /\ out.persist /\ ~failed(out)) =>
         session' = AllSaved(Settled(Reverted(busy, still, out.hotkey),
                                 config'.win_v, status', failed(out)))
  <2>1. confirmed = Confirmed(busy, still)
    <3>1. \A x \in SessionField \ {"text", "shown"} : RewriteFields(session)[x] = session[x]
      BY <1>1, RewrittenSession
    <3>2. /\ RewriteFields(session).protection_busy = session.protection_busy
          /\ RewriteFields(session).startup_blocked = session.startup_blocked
      BY <3>1 DEF SessionField
    <3>3. QED
      BY <3>2 DEF Confirmed
  <2> HIDE DEF confirmed, busy, still
  <2>2. reverted(out) = Reverted(busy, still, out.hotkey)
    BY <2>1 DEF Reverted
  <2> HIDE DEF reverted
  <2>3. settled(out) = Settled(Reverted(busy, still, out.hotkey),
                               config'.win_v, status', failed(out))
    BY <2>2 DEF Settled
  <2> HIDE DEF settled, failed
  <2>4. QED
    BY <1>2, <2>3 DEF AllSaved
<1>4. ValuesOf(Setting, to) /\ ValuesOf(Setting, from)
  BY <1>1 DEF IsSession
<1>5. switch # "idle" => to.protection = config.protection /\ session.protection_busy
  BY DEF SessionInv, CopyInv, SwitchInv
<1>6. /\ ValuesOf(ConfigField, config')
      /\ ValuesOf(FileField, file')
      /\ registered' \in Combos \cup {NoCombo}
      /\ entry' \in BOOLEAN /\ blocked' \in BOOLEAN
      /\ status' \in (IF config'.win_v THEN OnStatus ELSE OffStatus)
      /\ status' \in OnStatus \cup OffStatus /\ config'.win_v \in BOOLEAN
      /\ switch' \in {"idle", "to_on", "to_off"}
      /\ events' \in 0 .. MaxTurns
      /\ UNCHANGED <<restarting, protected>>
      /\ \A s \in Written : config'[s] = to[s]
      /\ ToldInv'
      /\ config'.protection = to.protection
      /\ switch' # "idle" => config'.protection = (switch' = "to_on")
      /\ to.protection = config.protection => switch' = switch
      /\ switch # "idle" => switch' = switch
      /\ blocked /\ ~blocked' => ClearsBlock(from, to)
  <2> HIDE DEF to
  <2>1. QED
    BY <1>2, <1>4, <1>5, WindowExecutes
<1>7. owner' \in {"none", "settings", "standalone"} /\ armed' \in BOOLEAN
  <2>1. Release("settings") \/ UNCHANGED capture
    BY <1>2 DEF Close
  <2>2. QED
    BY <2>1, ReleaseTypes
<1>8. torn' \in BOOLEAN
  BY <1>2, Zenon
<1>9. window' \in {"closed", "open"}
  BY <1>2 DEF Close
<1>10. WorldTyped'
  BY <1>2, <1>6, <1>7, <1>8, <1>9 DEF SessionInv, TypeInv, WorldTyped
<1>11. \A s \in Reducible : told'[s] = to[s]
  <2>1. \A s \in Reducible : s \in Written /\ s \in Numeric /\ s # "window_pinned"
    BY Settings
  <2>2. QED
    BY <1>6, <2>1, Settings DEF ToldInv, SentOf
<1>12. DOMAIN kept' = Written \cup {"hotkey"}
       /\ \A s \in Written : kept'[s] = config'[s]
  BY <1>2, Settings DEF ChosenIn
<1>13. CASE out.hotkey /\ out.persist /\ ~failed(out)
  <2>1. window' = "closed" /\ session' = NoSession /\ Closed'
    BY <1>2, <1>13 DEF Close, Closed
  <2>2. SessionTyped'
    BY <2>1 DEF SessionTyped
  <2>3. CopiesInv'
    BY <1>12, <2>1 DEF CopiesInv
  <2>4. SwitchInv' /\ LinesInv'
    BY <1>6, <2>1 DEF SwitchInv, LinesInv
  <2>5. QED
    BY <1>6, <1>10, <1>11, <2>2, <2>3, <2>4 DEF SessionInv, TypeInv, CopyInv
<1>14. CASE ~(out.hotkey /\ out.persist /\ ~failed(out))
  <2>1. /\ window' = "open" /\ ~Closed' /\ window' # "confirm_save"
        /\ session' = AllSaved(Settled(Reverted(busy, still, out.hotkey),
                                   config'.win_v, status', failed(out)))
    BY <1>2, <1>3, <1>14 DEF Closed
  <2>2. busy \in BOOLEAN /\ still \in BOOLEAN
    OBVIOUS
  <2>3. out.hotkey \in BOOLEAN
    BY <1>2, OutcomeFields
  <2>4. failed(out) \in BOOLEAN
    OBVIOUS
  <2> DEFINE rev == Reverted(busy, still, out.hotkey)
  <2>5. /\ IsSession(rev)
        /\ \A s \in Setting \ {"hotkey"} :
              /\ rev.in_effect[s] = to[s]
              /\ rev.draft[s] = to[s]
        /\ rev.protection_busy = busy
        /\ rev.startup_blocked = still
    <3> HIDE DEF busy, still
    <3>1. QED
      BY <2>2, <2>3, ConfirmedSession
  <2> HIDE DEF rev, failed
  <2>6. /\ IsSession(session') /\ FollowsWinV(session', config'.win_v, status')
        /\ \A s \in Setting \ {"win_v"} :
              /\ session'.saved[s] = rev.in_effect[s]
              /\ session'.in_effect[s] = rev.in_effect[s]
              /\ session'.draft[s] = rev.draft[s]
        /\ session'.startup_blocked = rev.startup_blocked
        /\ session'.protection_busy = rev.protection_busy
    <3>1. session' = AllSaved(Settled(rev, config'.win_v, status', failed(out)))
      BY <2>1 DEF rev
    <3>2. /\ IsSession(rev) /\ config'.win_v \in BOOLEAN
          /\ status' \in OnStatus \cup OffStatus
      BY <1>6, <2>5
    <3> DEFINE fails == failed(out)
               final == AllSaved(Settled(rev, config'.win_v, status', fails))
    <3>3. fails \in BOOLEAN /\ session' = final
      BY <2>4, <3>1
    <3> HIDE DEF fails
    <3>4. /\ IsSession(final) /\ FollowsWinV(final, config'.win_v, status')
          /\ \A s \in Setting \ {"win_v"} :
                /\ final.saved[s] = rev.in_effect[s]
                /\ final.in_effect[s] = rev.in_effect[s]
                /\ final.draft[s] = rev.draft[s]
          /\ final.startup_blocked = rev.startup_blocked
          /\ final.protection_busy = rev.protection_busy
      BY <3>2, <3>3, SettledSession
    <3> HIDE DEF final
    <3>5. QED
      BY <3>3, <3>4
  <2>7. /\ \A s \in Written \cup {"protection", "startup"} :
              /\ session'.saved[s] = to[s]
              /\ session'.in_effect[s] = to[s]
              /\ session'.draft[s] = to[s]
        /\ session'.startup_blocked = still
        /\ session'.protection_busy = busy
    <3>1. \A s \in Written \cup {"protection", "startup"} :
             s \in Setting \ {"hotkey"} /\ s \in Setting \ {"win_v"}
      BY Settings
    <3> HIDE DEF to, busy, still
    <3>2. QED
      BY <2>5, <2>6, <3>1
  <2>8. SessionTyped'
    BY <2>1, <2>6 DEF SessionTyped
  <2>9. CopiesInv'
    BY <1>6, <1>12, <2>1, <2>7 DEF CopiesInv
  <2>10. SwitchInv'
    <3>1. switch' # "idle" => session'.protection_busy
      <4>1. from.protection = config.protection
        BY DEF SessionInv, CopyInv, SwitchInv
      <4>2. switch' # "idle" => session.protection_busy \/ from.protection # to.protection
        BY <1>5, <1>6, <4>1
      <4>3. QED
        BY <2>7, <4>2, Zenon
    <3>2. /\ session'.saved.protection = config'.protection
          /\ session'.in_effect.protection = config'.protection
          /\ session'.draft.protection = config'.protection
      BY <1>6, <2>7
    <3>3. QED
      BY <1>6, <3>1, <3>2 DEF SwitchInv
  <2>11. LinesInv'
    <3>1. \A s \in Reducible : session'.in_effect[s] >= session'.saved[s]
      <4>1. \A s \in Reducible : s \in Written /\ to[s] \in Nat
        BY <1>4, Settings DEF ValuesOf
      <4>2. QED
        BY <2>7, <4>1
    <3>2. session'.saved.startup => ~session'.startup_blocked
      BY <2>7, Zenon
    <3>3. QED
      BY <2>1, <3>1, <3>2 DEF LinesInv
  <2>12. QED
    BY <1>6, <1>10, <1>11, <2>8, <2>9, <2>10, <2>11 DEF SessionInv, TypeInv, CopyInv
<1>15. QED
  BY <1>13, <1>14

-----------------------------------------------------------------------------
(* The invariant.                                                           *)

LEMMA SessionInvInit == Init => SessionInv
<1> SUFFICES ASSUME Init
             PROVE  SessionInv
  OBVIOUS
<1>1. /\ file = Stored
      /\ protected \in BOOLEAN /\ entry \in BOOLEAN /\ blocked \in BOOLEAN
      /\ config = [s \in ConfigField |->
                      IF s = "protection" THEN protected ELSE Load(Stored)[s]]
      /\ registered = (IF config.win_v THEN NoCombo ELSE config.hotkey)
      /\ told = SentOf(config)
      /\ status = (IF config.win_v THEN "Active" ELSE "Off")
      /\ switch = "idle" /\ window = "closed" /\ session = NoSession
      /\ owner = "none" /\ edits = 0 /\ events = 0
      /\ kept = ChosenIn(config)
  BY DEF Init
<1>2. restarting \in BOOLEAN /\ armed \in BOOLEAN /\ torn \in BOOLEAN
  BY Zenon DEF Init
<1>3. ValuesOf(FileField, Stored) /\ ValuesOf(FileField, Load(Stored))
  BY FilesAssumption, LoadFile
<1>4. ValuesOf(ConfigField, config)
  BY <1>1, <1>3, Settings DEF ValuesOf
<1>5. config.hotkey \in Combos
  BY <1>4, Settings DEF ValuesOf
<1>6. Closed
  BY <1>1 DEF Closed
<1>7. WorldTyped
  BY <1>1, <1>2, <1>3, <1>4, <1>5, BoundsAssumption DEF WorldTyped, OnStatus, OffStatus
<1>8. SessionTyped /\ ToldInv /\ SwitchInv /\ LinesInv
  BY <1>1, <1>6 DEF SessionTyped, ToldInv, SwitchInv, LinesInv
<1>9. CopiesInv
  BY <1>1, <1>6, Settings DEF CopiesInv, ChosenIn
<1>10. QED
  BY <1>7, <1>8, <1>9 DEF SessionInv, TypeInv, CopyInv

LEMMA SessionInvStep == SessionInv /\ [Next]_vars => SessionInv'
<1> SUFFICES ASSUME SessionInv, [Next]_vars
             PROVE  SessionInv'
  OBVIOUS
<1>1. CASE Open
  BY <1>1, OpenStep
<1>2. CASE \/ \E s \in Numeric, t \in Numbers \cup {NoText} : SetNumericText(s, t)
           \/ \E s \in {"startup", "secret_detection", "protection", "win_v"} : Toggle(s)
           \/ \E p \in Programs : AddProgram(p)
           \/ RemoveProgram
           \/ \E combo \in Combos : PressKey(combo)
  BY <1>2, EditsStep
<1>3. CASE Alter \/ Disarm \/ Back \/ AskToRestart \/ ConflictOpens
             \/ ConflictCloses \/ TaskManager
  BY <1>3, QuietStep
<1>4. CASE Apply
  BY <1>4, ApplyStep
<1>5. CASE Cancel
  BY <1>5, CancelStep
<1>6. CASE Save \/ Confirm
  <2>1. ~Closed /\ SaveAll
    BY <1>6 DEF Save, Confirm, Ready, Closed
  <2>2. QED
    BY <2>1, SaveAllStep
<1>7. CASE AskToConfirm
  BY <1>7, AskToConfirmStep
<1>8. CASE ConfirmRestart \/ RestartDone
  BY <1>8, ConfirmRestartStep, RestartDoneStep
<1>9. CASE ExplorerReturned \/ TurnOffWinV
  BY <1>9, ExplorerReturnedStep, TurnOffWinVStep
<1>10. CASE ProtectionDone
  BY <1>10, ProtectionDoneStep
<1>11. CASE \E combo \in Combos : Exchange(combo)
  BY <1>11, ExchangeStep
<1>12. CASE Quit
  BY <1>12, QuitStep
<1>13. CASE Start
  BY <1>13, StartStep
<1>14. CASE UNCHANGED vars
  <2>1. UNCHANGED <<config, file, registered, entry, blocked, told, status,
                    restarting, protected, switch, window, session, lines,
                    owner, armed, edits, events, kept, torn>>
    BY <1>14 DEF vars
  <2>2. QED
    BY <2>1 DEF SessionInv, TypeInv, WorldTyped, SessionTyped, CopyInv, ToldInv,
                CopiesInv, SwitchInv, LinesInv, Closed
<1>15. QED
  BY <1>1, <1>2, <1>3, <1>4, <1>5, <1>6, <1>7, <1>8, <1>9, <1>10, <1>11, <1>12,
     <1>13, <1>14 DEF Next

\* Every variable keeps its type in every behaviour, an open window has a
\* session of the right shape, and its Win+V is the program's.
THEOREM TypeCorrect == Spec => []TypeOK
<1>1. SessionInv => TypeOK
  <2> SUFFICES ASSUME SessionInv
               PROVE  TypeOK
    OBVIOUS
  <2>1. WorldTyped /\ SessionTyped
    BY DEF SessionInv, TypeInv
  <2>2. session = NoSession <=> window \in {"closed", "ended"}
    BY <2>1, NoSessionIsNone DEF SessionTyped, Closed
  <2>3. ASSUME session # NoSession
        PROVE  SessionOK /\ session.win_v_status = status
               /\ session.saved.win_v = config.win_v
    <3>1. IsSession(session) /\ FollowsWinV(session, config.win_v, status)
      BY <2>1, <2>3 DEF SessionTyped
    <3>2. /\ ValuesOf(Setting, session["saved"])
          /\ ValuesOf(Setting, session["in_effect"])
          /\ ValuesOf(Setting, session["draft"])
      BY <3>1 DEF IsSession
    <3>3. \A s \in Numeric : session.text[s] \in Numbers \cup Nat \cup {NoText}
                             /\ session.shown[s] \in Nat
      BY <3>1 DEF IsSession
    <3>4. {session.startup_blocked, session.protection_busy,
           session.restart_in_progress} \subseteq BOOLEAN
      BY <3>1 DEF IsSession
    <3>5. QED
      BY <3>1, <3>2, <3>3, <3>4 DEF SessionOK, IsSession, FollowsWinV
  <2>4. {entry, blocked, restarting, protected, armed, torn} \subseteq BOOLEAN
    BY <2>1 DEF WorldTyped
  <2>5. QED
    BY <2>1, <2>2, <2>3, <2>4 DEF TypeOK, WorldTyped
<1>2. QED
  BY <1>1, SessionInvInit, SessionInvStep, PTL DEF Spec

\* With the window closed, whatever was applied, cancelled or left by a Save
\* that failed, the configuration is that of the last Save and the worker has
\* been told that.
THEOREM ClosingGoesBack == Spec => []ClosingReverts
<1>1. SessionInv => ClosingReverts
  BY DEF SessionInv, CopyInv, ToldInv, CopiesInv, ClosingReverts, Closed
<1>2. QED
  BY <1>1, SessionInvInit, SessionInvStep, PTL DEF Spec

\* While the database is rewritten the configuration shows the form it is
\* rewritten to.
THEOREM TargetIsShown == Spec => []ShownIsTheTarget
<1>1. SessionInv => ShownIsTheTarget
  BY DEF SessionInv, CopyInv, SwitchInv, ShownIsTheTarget
<1>2. QED
  BY <1>1, SessionInvInit, SessionInvStep, PTL DEF Spec

-----------------------------------------------------------------------------
(* No reduction without its line.                                           *)

\* What the worker was told keeps at least what the last choice keeps.
KeepsAll == \A s \in Reducible : told[s] \in Nat /\ kept[s] \in Nat /\ told[s] >= kept[s]

LEMMA NothingReduced == SessionInv => KeepsAll
<1> SUFFICES ASSUME SessionInv, NEW s \in Reducible
             PROVE  told[s] \in Nat /\ kept[s] \in Nat /\ told[s] >= kept[s]
  BY DEF KeepsAll
<1>1. s \in Written /\ s \in Setting /\ s \in ConfigField /\ s # "window_pinned"
      /\ s \in Numeric
  BY Settings
<1>2. told[s] = config[s]
  BY <1>1 DEF SessionInv, CopyInv, ToldInv, SentOf
<1>3. config[s] \in Nat
  BY <1>1, Settings DEF SessionInv, TypeInv, WorldTyped, ValuesOf
<1>4. CASE Closed
  BY <1>1, <1>2, <1>3, <1>4 DEF SessionInv, CopyInv, CopiesInv
<1>5. CASE ~Closed
  <2>1. session.saved[s] \in Nat
    BY <1>1, <1>5, OpenIsTyped, Settings DEF IsSession, ValuesOf
  <2>2. session.in_effect[s] = config[s] /\ session.saved[s] = kept[s]
    BY <1>1, <1>5 DEF SessionInv, CopyInv, CopiesInv
  <2>3. session.in_effect[s] >= session.saved[s]
    BY <1>5 DEF SessionInv, CopyInv, LinesInv
  <2>4. QED
    BY <1>2, <1>3, <2>1, <2>2, <2>3
<1>6. QED
  BY <1>4, <1>5

\* The worker is not told of a shorter term or of fewer items than the last
\* Save left, and the disabled start with Windows is not enabled again, unless
\* the user has confirmed a text that says so.
THEOREM ReductionsAreConfirmed == Spec => ReductionIsConfirmed
<1> DEFINE Answered ==
              /\ \A s \in Reducible : told'[s] < kept[s] => <<s, told'[s]>> \in lines
              /\ blocked /\ ~blocked' /\ ~TaskManager => <<"startup">> \in lines
<1>1. SessionInv /\ [Next]_vars => [~Start => Answered]_vars
  <2> SUFFICES ASSUME SessionInv, Next, ~Start
               PROVE  Answered
    OBVIOUS
  <2>0. SessionInv'
    BY SessionInvStep
  <2>1. ASSUME \A s \in Written : kept'[s] = kept[s]
        PROVE  \A s \in Reducible : told'[s] < kept[s] => <<s, told'[s]>> \in lines
    <3>1. \A s \in Reducible : /\ told'[s] \in Nat /\ kept'[s] \in Nat
                               /\ told'[s] >= kept'[s]
      <4>1. SessionInv' => KeepsAll'
        BY NothingReduced, PTL
      <4>2. QED
        BY <2>0, <4>1 DEF KeepsAll
    <3>2. \A s \in Reducible : s \in Written
      BY Settings
    <3>3. QED
      BY <2>1, <3>1, <3>2
  <2>2. CASE Save \/ Confirm
    <3>1. ~Closed /\ SaveAll
      BY <2>2 DEF Save, Confirm, Ready, Closed
    <3>2. /\ \A s \in Reducible : told'[s] = session.draft[s]
          /\ blocked /\ ~blocked' => ClearsBlock(session.in_effect, session.draft)
      BY <3>1, SaveAllStep
    <3>3. \A s \in Reducible : kept[s] = session.saved[s]
      BY <3>1, Settings DEF SessionInv, CopyInv, CopiesInv
    <3>4. ClearsBlock(session.in_effect, session.draft) =>
             /\ session.draft.startup /\ ~session.in_effect.startup
             /\ session.startup_blocked
      <4>1. session.draft.startup \in BOOLEAN /\ session.in_effect.startup \in BOOLEAN
        BY <3>1, OpenIsTyped, Settings DEF IsSession, ValuesOf
      <4>2. QED
        BY <4>1 DEF ClearsBlock
    <3>5. /\ \A s \in Reducible : session.draft[s] < session.saved[s] =>
                                     <<s, session.draft[s]>> \in lines
          /\ /\ session.draft.startup /\ ~session.in_effect.startup
             /\ session.startup_blocked
             => <<"startup">> \in lines
      <4>1. CASE Save
        <5>1. ConfirmLines = {}
          BY <4>1 DEF Save
        <5>2. QED
          BY <3>1, <5>1, LinesAreComplete
      <4>2. CASE Confirm
        BY <3>1, <4>2 DEF Confirm, SessionInv, CopyInv, LinesInv
      <4>3. QED
        BY <2>2, <4>1, <4>2
    <3>6. QED
      BY <3>2, <3>3, <3>4, <3>5
  <2>3. CASE Apply
    <3> DEFINE to == [s \in Setting |-> IF Kind(s) = "Reversible" THEN session.draft[s]
                                                                ELSE session.in_effect[s]]
    <3>1. ~Closed /\ UNCHANGED kept
      BY <2>3 DEF Apply, Ready, Closed, ghosts
    <3>2. PICK out \in Outcomes(session.in_effect, to, "Apply") :
             Execute(session.in_effect, to, "Apply", out)
      BY <2>3 DEF Apply
    <3>3. /\ ValuesOf(Setting, to) /\ to.protection = session.in_effect.protection
          /\ ~ClearsBlock(session.in_effect, to)
      BY <3>1, AppliedValues
    <3> HIDE DEF to
    <3>4. session.in_effect.protection = config.protection
      BY <3>1 DEF SessionInv, CopyInv, SwitchInv
    <3>5. blocked /\ ~blocked' => ClearsBlock(session.in_effect, to)
      BY <3>1, <3>2, <3>3, <3>4, WindowExecutes
    <3>6. QED
      BY <2>1, <3>1, <3>3, <3>5
  <2>4. CASE Cancel \/ Quit
    <3>1. UNCHANGED kept
      BY <2>4 DEF Cancel, Quit, ghosts
    <3>2. ~(blocked /\ ~blocked')
      <4>1. CASE Cancel
        <5>1. /\ ~Closed /\ Revert /\ window' = "closed" /\ session' = NoSession
              /\ Release("settings")
              /\ UNCHANGED <<edits, ghosts>>
          BY <4>1 DEF Cancel, Ready, Close, Closed
        <5>2. owner' \in {"none", "settings", "standalone"} /\ armed' \in BOOLEAN
          BY <5>1, ReleaseTypes
        <5>3. QED
          BY <5>1, <5>2, RevertStep
      <4>2. CASE Quit
        <5>1. /\ IF session = NoSession THEN UNCHANGED world ELSE Revert
              /\ window' = "ended" /\ session' = NoSession /\ owner' = "none"
              /\ UNCHANGED <<edits, ghosts>>
          BY <4>2 DEF Quit
        <5>2. armed' \in BOOLEAN
          BY <4>2, Zenon DEF Quit
        <5>3. CASE ~Closed
          BY <5>1, <5>2, <5>3, OpenIsTyped, RevertStep
        <5>4. CASE Closed
          BY <5>1, <5>4, ClosedHasNone DEF world
        <5>5. QED
          BY <5>3, <5>4
      <4>3. QED
        BY <2>4, <4>1, <4>2
    <3>3. QED
      BY <2>1, <3>1, <3>2
  <2>5. CASE \E combo \in Combos : Exchange(combo)
    <3>1. UNCHANGED blocked
      BY <2>5 DEF Exchange
    <3>2. PICK combo \in Combos : kept' = [kept EXCEPT !["hotkey"] = combo]
      BY <2>5 DEF Exchange
    <3>3. \A s \in Written : kept'[s] = kept[s]
      BY <3>2, Settings DEF SessionInv, CopyInv, CopiesInv
    <3>4. QED
      BY <2>1, <3>1, <3>3
  <2>6. CASE TaskManager
    <3>1. UNCHANGED kept
      BY <2>6 DEF TaskManager, ghosts
    <3>2. QED
      BY <2>1, <2>6, <3>1
  <2>7. CASE \/ Open \/ Alter \/ Disarm \/ AskToConfirm \/ Back \/ AskToRestart
             \/ ConfirmRestart \/ ExplorerReturned \/ TurnOffWinV \/ RestartDone
             \/ ProtectionDone \/ ConflictOpens \/ ConflictCloses
             \/ \E s \in Numeric, t \in Numbers \cup {NoText} : SetNumericText(s, t)
             \/ \E s \in {"startup", "secret_detection", "protection", "win_v"} : Toggle(s)
             \/ \E p \in Programs : AddProgram(p)
             \/ RemoveProgram
             \/ \E combo \in Combos : PressKey(combo)
    <3>1. UNCHANGED <<blocked, kept>>
      BY <2>7 DEF Open, Alter, Disarm, AskToConfirm, Back, AskToRestart, ConfirmRestart,
                  ExplorerReturned, TurnOffWinV, RestartDone, ProtectionDone,
                  ConflictOpens, ConflictCloses, SetNumericText, Toggle, AddProgram,
                  RemoveProgram, Draft, PressKey, world, ghosts
    <3>2. QED
      BY <2>1, <3>1
  <2>8. QED
    BY <2>2, <2>3, <2>4, <2>5, <2>6, <2>7 DEF Next
<1>2. QED
  BY <1>1, SessionInvInit, SessionInvStep, PTL DEF Spec, ReductionIsConfirmed


-----------------------------------------------------------------------------
(* What is applied is not written.                                          *)

\* Writing one field over what was read of a file leaves what is read of the
\* others.
LEMMA LoadAgain ==
    ASSUME NEW f, ValuesOf(FileField, f)
    PROVE  /\ \A s \in Written : Load(Load(f))[s] = Load(f)[s]
           /\ \A x \in {"hotkey", "win_v"} : \A v : \A s \in Written :
                 Load([Load(f) EXCEPT ![x] = v])[s] = Load(f)[s]
<1>1. ValuesOf(FileField, Load(f))
      /\ Load(Load(f)).blocked_programs = Load(f).blocked_programs
  BY LoadFile
<1>2. DOMAIN Load(f) = FileField
  BY <1>1 DEF ValuesOf
<1>3. \A s \in FileField \ {"blocked_programs"} : Load(Load(f))[s] = Load(f)[s]
  BY <1>1, LoadFile
<1>4. \A s \in Written : Load(Load(f))[s] = Load(f)[s]
  BY <1>1, <1>3, Settings
<1>5. ASSUME NEW x \in {"hotkey", "win_v"}, NEW v, NEW s \in Written
      PROVE  Load([Load(f) EXCEPT ![x] = v])[s] = Load(f)[s]
  <2> DEFINE r == Load(f)
             g == [r EXCEPT ![x] = v]
  <2>1. s \in FileField /\ s # x
    BY Settings
  <2> HIDE DEF r
  <2>2. DOMAIN r = FileField
    BY <1>2 DEF r
  <2>3. \A y \in FileField \ {x} : g[y] = r[y]
    BY <2>2
  <2>4. DOMAIN g = FileField /\ g.blocked_programs = r.blocked_programs
    BY <2>2, <2>3, Settings
  <2> HIDE DEF g
  <2>5. Load(g)[s] = Load(r)[s]
    BY <2>1, <2>2, <2>3, <2>4 DEF Load
  <2>6. Load(r)[s] = r[s]
    BY <1>4 DEF r
  <2>7. QED
    BY <2>5, <2>6 DEF g, r
<1>6. QED
  BY <1>4, <1>5

\* A step that leaves what is read of the file, unless it tears it.
LEMMA FileKept ==
    ASSUME AppliedIsNotWritten, UNCHANGED last,
           ~torn' => ~torn /\ \A s \in Written : Load(file')[s] = Load(file)[s]
    PROVE  AppliedIsNotWritten'
BY DEF AppliedIsNotWritten

LEMMA TornFile ==
    ASSUME TypeInv, AppliedIsNotWritten, UNCHANGED last, NEW content, Tears(content),
           \A s \in Written : Load(content)[s] = Load(file)[s]
    PROVE  AppliedIsNotWritten'
<1>1. ~torn' => ~torn /\ file' \in {file, content}
  BY Zenon DEF Tears
<1>2. QED
  BY <1>1, FileKept

LEMMA SaveKeepsFile ==
    ASSUME SessionInv, AppliedIsNotWritten, SaveAll
    PROVE  AppliedIsNotWritten'
<1> DEFINE from == session.in_effect
           to == session.draft
<1>1. PICK out \in Outcomes(from, to, "Save") :
         /\ Execute(from, to, "Save", out)
         /\ last' = (IF out.persist
                     THEN [s \in Written |-> Load(FieldsOf(config'))[s]] ELSE last)
         /\ torn' = (~out.persist /\ (torn \/ out.left # file))
  BY Zenon DEF SaveAll
<1>2. file' = FileAfter(from, to, "Save", out) /\ config' = ConfigAfter(from, to, "Save", out)
  BY <1>1 DEF Execute
<1>3. ValuesOf(FileField, file)
  BY DEF SessionInv, TypeInv, WorldTyped
<1>4. CASE out.persist
  <2>1. file' = FieldsOf(config')
    BY <1>2, <1>4 DEF FileAfter
  <2>2. last' = [s \in Written |-> Load(FieldsOf(config'))[s]]
    BY <1>1, <1>4
  <2>3. QED
    BY <2>1, <2>2 DEF AppliedIsNotWritten
<1>5. CASE ~out.persist
  <2>1. UNCHANGED last
    BY <1>1, <1>5
  <2>2. ~torn' => ~torn /\ out.left = file
    BY <1>1, <1>5, Zenon
  <2>3. file' \in {out.left, [Load(out.left) EXCEPT !["win_v"] = TRUE]}
    BY <1>2, <1>5 DEF FileAfter
  <2>4. \A s \in Written : Load([Load(file) EXCEPT !["win_v"] = TRUE])[s] = Load(file)[s]
    BY <1>3, LoadAgain
  <2>5. QED
    BY <2>1, <2>2, <2>3, <2>4, FileKept
<1>6. QED
  BY <1>4, <1>5

LEMMA FileStep ==
    SessionInv /\ AppliedIsNotWritten /\ [Next]_vars => AppliedIsNotWritten'
<1> SUFFICES ASSUME SessionInv, AppliedIsNotWritten, [Next]_vars
             PROVE  AppliedIsNotWritten'
  OBVIOUS
<1>1. TypeInv /\ ValuesOf(FileField, file)
  BY DEF SessionInv, TypeInv, WorldTyped
<1>2. CASE Save \/ Confirm
  BY <1>2, SaveKeepsFile DEF Save, Confirm
<1>3. CASE ExplorerReturned
  <2>1. UNCHANGED last /\ (UNCHANGED <<file, torn>> \/ Tears(Load(file)))
    BY <1>3 DEF ExplorerReturned
  <2>2. CASE UNCHANGED <<file, torn>>
    BY <2>1, <2>2, FileKept
  <2>3. CASE Tears(Load(file))
    <3>1. \A s \in Written : Load(Load(file))[s] = Load(file)[s]
      BY <1>1, LoadAgain
    <3>2. QED
      BY <1>1, <2>1, <2>3, <3>1, TornFile
  <2>4. QED
    BY <2>1, <2>2, <2>3
<1>4. CASE TurnOffWinV
  <2>1. UNCHANGED last /\ Tears([Load(file) EXCEPT !["win_v"] = FALSE])
    BY <1>4 DEF TurnOffWinV
  <2>2. \A s \in Written : Load([Load(file) EXCEPT !["win_v"] = FALSE])[s] = Load(file)[s]
    BY <1>1, LoadAgain
  <2>3. QED
    BY <1>1, <2>1, <2>2, TornFile
<1>5. CASE \E combo \in Combos : Exchange(combo)
  <2>1. PICK combo \in Combos : UNCHANGED last /\ Tears(PersistHotkeyOnly(combo))
    BY <1>5 DEF Exchange
  <2>2. \A s \in Written : Load(PersistHotkeyOnly(combo))[s] = Load(file)[s]
    BY <1>1, LoadAgain DEF PersistHotkeyOnly
  <2>3. QED
    BY <1>1, <2>1, <2>2, TornFile
<1>6. CASE Apply
  <2>1. UNCHANGED <<last, torn>>
    BY <1>6 DEF Apply, ghosts
  <2>2. UNCHANGED file
    BY <1>6 DEF Apply, Execute, FileAfter
  <2>3. QED
    BY <2>1, <2>2, FileKept
<1>7. CASE Cancel \/ Quit
  <2>1. UNCHANGED <<last, torn>>
    BY <1>7 DEF Cancel, Quit, ghosts
  <2>2. UNCHANGED file
    BY <1>7 DEF Cancel, Quit, Revert, Execute, FileAfter, world
  <2>3. QED
    BY <2>1, <2>2, FileKept
<1>8. CASE \/ Open \/ Alter \/ Disarm \/ AskToConfirm \/ Back \/ AskToRestart
           \/ ConfirmRestart \/ RestartDone \/ ProtectionDone \/ ConflictOpens
           \/ ConflictCloses \/ TaskManager \/ Start
           \/ \E s \in Numeric, t \in Numbers \cup {NoText} : SetNumericText(s, t)
           \/ \E s \in {"startup", "secret_detection", "protection", "win_v"} : Toggle(s)
           \/ \E p \in Programs : AddProgram(p)
           \/ RemoveProgram
           \/ \E combo \in Combos : PressKey(combo)
           \/ UNCHANGED vars
  <2>1. UNCHANGED <<file, last, torn>>
    BY <1>8 DEF Open, Alter, Disarm, AskToConfirm, Back, AskToRestart, ConfirmRestart,
                RestartDone, ProtectionDone, ConflictOpens, ConflictCloses, TaskManager,
                Start, SetNumericText, Toggle, AddProgram, RemoveProgram, Draft,
                PressKey, world, ghosts, vars
  <2>2. QED
    BY <2>1, FileKept
<1>9. QED
  BY <1>2, <1>3, <1>4, <1>5, <1>6, <1>7, <1>8 DEF Next

\* config.toml holds what a Save last wrote, whatever was applied since and
\* whoever else wrote to it, unless a write that failed emptied it.
THEOREM WhatIsAppliedIsNotWritten == Spec => []AppliedIsNotWritten
<1>1. Init => AppliedIsNotWritten
  <2> SUFFICES ASSUME Init
               PROVE  \A s \in Written : Load(file)[s] = last[s]
    BY DEF AppliedIsNotWritten
  <2>1. \A s \in Written : s \in ConfigField /\ s # "protection"
    BY Settings
  <2>2. QED
    BY <2>1 DEF Init
<1>2. QED
  BY <1>1, SessionInvInit, SessionInvStep, FileStep, PTL DEF Spec
=============================================================================
