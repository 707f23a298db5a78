---------------------------- MODULE SettingsPage ----------------------------
(***************************************************************************)
(* Settings: the form of the global settings, which sends them all, and    *)
(* the form that changes the administrator's password.  Each has a flag of *)
(* its own; neither closes when it was saved.                              *)
(***************************************************************************)
EXTENDS FormPage

VARIABLES saving,      \* the settings' Save is waiting
          passLoading  \* the password's button is waiting

settingsPage == <<saving, passLoading>>

SettingsPageMounted == saving' = FALSE /\ passLoading' = FALSE

\* The page shows its forms when the settings have been loaded.
SettingsShown == route = "settings" /\ ~loading /\ ~failed

RetrySettings ==
  /\ route = "settings" /\ failed /\ ~loading
  /\ Send(Call("settings", None, None))
  /\ loading' = TRUE /\ failed' = FALSE
  /\ UNCHANGED <<route, holds, typed, strayed, settingsPage>>

-----------------------------------------------------------------------------
(* Seeded faults: bugs this code might have had, one per property.  No     *)
(* definition of the model uses them.                                      *)

SettingsFailShown(i) ==
  /\ calls[i].op = "settings"
  /\ loading' = FALSE
  /\ Done(i)
  /\ UNCHANGED <<route, holds, typed, failed, strayed, settingsPage>>
SubmitSettingsAgain ==
  /\ SettingsShown
  /\ Send(Call("saveSettings", "settings", holds))
  /\ saving' = TRUE
  /\ UNCHANGED <<route, holds, typed, loading, failed, strayed, passLoading>>
SettingsAnsweredSaving(i) ==
  /\ calls[i].op = "saveSettings"
  /\ Done(i)
  /\ UNCHANGED <<route, holds, typed, loading, failed, strayed, settingsPage>>
SettingsAnsweredReset(i) ==
  /\ calls[i].op = "saveSettings"
  /\ saving' = FALSE /\ typed' = None
  /\ Done(i)
  /\ UNCHANGED <<route, holds, loading, failed, strayed, passLoading>>

-----------------------------------------------------------------------------
SettingsLoaded(i) ==
  /\ calls[i].op = "settings"
  /\ holds' = "settings" /\ typed' = None
  /\ loading' = FALSE
  /\ Done(i)
  /\ UNCHANGED <<route, failed, strayed, settingsPage>>

\* Not a 401, nor is any of the page's other failures.
SettingsFail(i) ==
  /\ calls[i].op = "settings"
  /\ failed' = TRUE /\ loading' = FALSE
  /\ Done(i)
  /\ UNCHANGED <<route, holds, typed, strayed, settingsPage>>

TypeSetting == SettingsShown /\ TypeInto({"settings"}) /\ UNCHANGED settingsPage

SubmitSettings ==
  /\ SettingsShown /\ ~saving
  /\ Send(Call("saveSettings", "settings", holds))
  /\ saving' = TRUE
  /\ UNCHANGED <<route, holds, typed, loading, failed, strayed, passLoading>>

\* Saved or refused, the form stays as it is.
SettingsAnswered(i) ==
  /\ calls[i].op = "saveSettings"
  /\ saving' = FALSE
  /\ Done(i)
  /\ UNCHANGED <<route, holds, typed, loading, failed, strayed, passLoading>>

\* A new password that was repeated differently is not sent.
SubmitPassword ==
  /\ SettingsShown /\ ~passLoading
  /\ Send(Call("password", None, None))
  /\ passLoading' = TRUE
  /\ UNCHANGED <<route, holds, typed, loading, failed, strayed, saving>>

\* Changed, or refused for another reason than the old password.
PasswordAnswered(i) ==
  /\ calls[i].op = "password"
  /\ passLoading' = FALSE
  /\ Done(i)
  /\ UNCHANGED <<route, holds, typed, loading, failed, strayed, saving>>

SettingsPageNext == RetrySettings \/ TypeSetting \/ SubmitSettings \/ SubmitPassword

SettingsPageAnswered(i) ==
  SettingsLoaded(i) \/ SettingsFail(i) \/ SettingsAnswered(i) \/ PasswordAnswered(i)
=============================================================================
