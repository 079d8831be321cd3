------------------------- MODULE MCSettingsSession -------------------------
(* A small instance of SettingsSession for TLC. *)
EXTENDS SettingsSession

CONSTANTS h1, h2, h3, p1

Values(combo, days, items, pins, programs) ==
    [s \in FileField |->
        CASE s = "hotkey" -> combo
          [] s = "retention_days" -> days
          [] s = "max_items" -> items
          [] s = "max_pinned" -> pins
          [] s = "blocked_programs" -> programs
          [] s = "secret_detection" -> TRUE
          [] s = "win_v" -> FALSE]

MCDefault == Values(h1, 1, 2, 1, {})
MCStored == Values(h1, 2, 2, 1, {p1})
=============================================================================
