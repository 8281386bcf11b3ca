------------------------------ MODULE Settings ------------------------------
(***************************************************************************)
(* The one setting that the program itself changes while it runs: whether  *)
(* the tool is in service (settings.h, settings.cpp).  `status' is         *)
(* acsettings.status, the copy in RAM; `saved' is the copy in the EEPROM,  *)
(* which get_settings() loads when the node starts.                        *)
(***************************************************************************)
EXTENDS Integers

VARIABLES status, saved

settingsVars == <<status, saved>>

SettingsTypeOK == status \in {0, 1} /\ saved \in {0, 1}

\* acsettings.status is a field of one bit: it keeps the low bit of an int.
StatusField(answer) == answer % 2

\* set_settings(acsettings), after `v' was assigned to acsettings.status.
SetSettings(v) == status' = v /\ saved' = v

\* acsettings = get_settings()
GetSettings == status' = saved /\ UNCHANGED saved

=============================================================================
