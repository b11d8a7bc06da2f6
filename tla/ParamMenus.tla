----------------------------- MODULE ParamMenus -----------------------------
(***************************************************************************)
(* The parameters menu and the six below it.  Each prompt is one of a few  *)
(* functions on some parameter; what the parameter is does not matter, but *)
(* that a change of it must be saved does.                                 *)
(***************************************************************************)
EXTENDS SysopFiles

\* RTF_PARAM_EDITED
EditsParam(u, s) == Takes(u, s, Touch(desk[u], "param")) /\ sys' = Owing(u, "param")

\* The kinds of prompts of each of the menus
SystemConfigParams == {"string_param", "octal_param"}
ConfigFilesParams == {"string_param"}
MaximumsParams == {"int_param", "param_cached", "param_cache_timeout"}
StringsParams == {"string_param"}
LogParams == {"param_logfile", "string_param"}

\* Reading them all anew gives up what was changed since they were saved.  With
\* Ctrl-R a menu that cannot be read is not called again.
StateParametersMenu(u) ==
  LET s == us[u]
      Unflagged == [desk[u] EXCEPT !.dirty = @ \ {"param"}]
  IN
  \/ Menu(u, "parameters_menu")
  \/ /\ Keyed(u, "parameters_menu")
     /\ \/ Leave(u, Ret(s), "param")
        \/ Does(u, {Call(s, f) : f \in {"system_config_menu", "config_files_menu",
             "maximums_menu", "strings_menu", "log_menu", "features_menu"}})
        \/ \E t \in {s, Current(s)} :
             Takes(u, t, Unflagged) /\ sys' = [sys EXCEPT !.owed["param"] = {}]

\* A menu that is left without saving anything
ParamMenu(u, f, prompts) ==
  \/ Menu(u, f)
  \/ Keyed(u, f) /\ Does(u, {Ret(us[u])} \cup {Call(us[u], p) : p \in prompts})

StateSystemConfigMenu(u) == ParamMenu(u, "system_config_menu", SystemConfigParams)
StateConfigFilesMenu(u) == ParamMenu(u, "config_files_menu", ConfigFilesParams)
StateStringsMenu(u) == ParamMenu(u, "strings_menu", StringsParams)

\* RTF_WRAPPER_EDITED is used for another timeout of the cache, or another log file,
\* that must be acted upon when the menu is left.
FlagMenu(u, f, prompts) ==
  LET s == us[u] IN
  \/ Menu(u, f)
  \/ Keyed(u, f) /\ Does(u, {Call(s, p) : p \in prompts})
  \/ Keyed(u, f) /\ TakesOnly(u, Ret(s), [desk[u] EXCEPT !.dirty = @ \ {"wrapper"}])

StateMaximumsMenu(u) == FlagMenu(u, "maximums_menu", MaximumsParams)

\* How often logs are rotated changes without being flagged; what happens at a
\* crash is flagged.
StateLogMenu(u) ==
  \/ FlagMenu(u, "log_menu", LogParams)
  \/ Keyed(u, "log_menu") /\ EditsParam(u, Current(us[u]))

\* Each feature is toggled at once.
StateFeaturesMenu(u) ==
  \/ ParamMenu(u, "features_menu", {})
  \/ Keyed(u, "features_menu") /\ EditsParam(u, Current(us[u]))

------------------------------------------------------------------------------
\* The prompt leaves the parameter as it is, or changes it.
ChangeParam(u, f) == Question(u, f) \/ (Keyed(u, f) /\ EditsParam(u, Ret(us[u])))

ChangeStringParam(u) == ChangeParam(u, "string_param")
ChangeOctalParam(u) == ChangeParam(u, "octal_param")
ChangeIntParam(u) == ChangeParam(u, "int_param")

\* change_int0_param; the cache is resized to it.
StateParamCached(u) == ChangeParam(u, "param_cached")

\* The flag is set at each call and key, whatever becomes of the parameter.
Flagging(u, f) ==
  LET s == us[u]
      d == Touch(desk[u], "wrapper")
  IN
  \/ Called(u, f, "init") /\ TakesOnly(u, Wait(s), d)
  \/ Keyed(u, f) /\ TakesOnly(u, Ret(s), d)
  \/ Keyed(u, f) /\ Takes(u, Ret(s), Touch(d, "param")) /\ sys' = Owing(u, "param")

StateParamCacheTimeout(u) == Flagging(u, "param_cache_timeout")
StateParamLogfile(u) == Flagging(u, "param_logfile")

Params(u) ==
  \/ StateParametersMenu(u) \/ StateSystemConfigMenu(u) \/ StateConfigFilesMenu(u)
  \/ StateStringsMenu(u) \/ StateMaximumsMenu(u) \/ StateLogMenu(u) \/ StateFeaturesMenu(u)
  \/ ChangeStringParam(u) \/ ChangeOctalParam(u) \/ ChangeIntParam(u) \/ StateParamCached(u)
  \/ StateParamCacheTimeout(u) \/ StateParamLogfile(u)

=============================================================================
