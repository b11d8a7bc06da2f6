----------------------------- MODULE SysopFiles -----------------------------
(***************************************************************************)
(* The screens, help files, logs and feelings that Sysops look at and      *)
(* replace.  The name of the file is passed on in tmpbuf[TMP_NAME]; the    *)
(* caches of the files are in FileCache.                                   *)
(***************************************************************************)
EXTENDS SysopMenus

\* screen_menu: the description is a constant, in a buffer that is freed.
ScreenMenu(u) ==
  TakesOnly(u, Call(us[u], "screen_action"), [desk[u] EXCEPT
    !.name = "file", !.passwd = "const", !.freed = @ \/ desk[u].passwd = "const"])

StateScreensMenu(u) ==
  \/ Menu(u, "screens_menu")
  \/ /\ Keyed(u, "screens_menu")
     /\ Does(u, {Ret(us[u]), Call(us[u], "help_files")}) \/ ScreenMenu(u)

StateHelpFiles(u) ==
  \/ Menu(u, "help_files")
  \/ Keyed(u, "help_files") /\ (Does(u, {Ret(us[u])}) \/ ScreenMenu(u))

\* Mutant of LeaveScreen: the name is kept.
LeaveScreenNamed(u) == TakesOnly(u, Ret(us[u]), [desk[u] EXCEPT !.passwd = "none"])

\* The name is freed, the constant only forgotten.
LeaveScreen(u) == TakesOnly(u, Ret(us[u]), [desk[u] EXCEPT !.name = "none", !.passwd = "none"])

\* A file that is not there, to view or to download, is left as by KEY_RETURN.
StateScreenAction(u) ==
  LET s == us[u] IN
  \/ Called(u, "screen_action", "init") /\ Does(u, {Wait(s)})
  \/ /\ Keyed(u, "screen_action")
     /\ \/ LeaveScreen(u)
        \/ Does(u, {Current(s)} \cup Boss(s) \cup {ShowFile(s), Call(FreeText(s), "download_text"),
                    EditText(s, "upload_save", "upload_abort")})

\* upload_save writes to the name that is in TMP_NAME.
UploadSave(u) == Called(u, "upload_save", "init") /\ Does(u, {Ret(us[u])})
UploadAbort(u) == Called(u, "upload_abort", "init") /\ Does(u, {Ret(FreeText(us[u]))})

------------------------------------------------------------------------------
\* A log, of today or of yesterday, is there or not.  The archive is a tree of
\* years, months and files.
StateViewLogs(u) ==
  LET s == us[u] IN
  \/ Menu(u, "view_logs")
  \/ /\ Keyed(u, "view_logs")
     /\ Does(u, {Ret(s), ShowFile(s), Call(PushArg(s, "list"), "old_logs_year")})

\* The next level is entered with a list of its own; break takes the list off.
LogLevel(u, f, next) ==
  LET s == us[u] IN
  \/ Menu(u, f)
  \/ Keyed(u, f) /\ Does(u, {Ret(PopArg(s)), Call(PushArg(s, "list"), next)})

StateOldLogsYear(u) == LogLevel(u, "old_logs_year", "old_logs_month")
StateOldLogsMonth(u) == LogLevel(u, "old_logs_month", "old_logs_files")

StateOldLogsFiles(u) ==
  LET s == us[u] IN
  \/ Menu(u, "old_logs_files")
  \/ Keyed(u, "old_logs_files") /\ Does(u, {Ret(PopArg(s)), ShowFile(s)})

------------------------------------------------------------------------------
\* INIT_STATE reads the directory again, which may fail.  The same list is pushed
\* for the functions that are called.
StateFeelingsMenu(u) ==
  LET s == us[u]
      d == desk[u]
  IN
  \/ /\ Called(u, "feelings_menu", "init")
     /\ \/ TakesOnly(u, ReadMenu(s), [d EXCEPT !.list = sys.feelings])
        \/ TakesOnly(u, Ret(PopArg(s)), [d EXCEPT !.list = {}])
  \/ Called(u, "feelings_menu", "prompt") /\ Does(u, {Wait(s)})
  \/ /\ Keyed(u, "feelings_menu")
     /\ \/ TakesOnly(u, Ret(PopArg(s)), [d EXCEPT !.list = {}])
        \/ Does(u, {Current(s)} \cup Boss(s) \cup {Call(PushArg(s, "list"), f) :
             f \in {"add_feeling", "remove_feeling", "view_feeling", "download_feeling"}})

Naming(u, s) == TakesOnly(u, s, [desk[u] EXCEPT !.name = "feeling"])
Unnaming(u, s) == TakesOnly(u, s, [desk[u] EXCEPT !.name = "none"])

\* The name must be new in the list that was read.  The text is entered next.
StateAddFeeling(u) ==
  LET p == PopArg(us[u]) IN
  \/ Asking(u, "add_feeling")
  \/ /\ Keyed(u, "add_feeling")
     /\ \/ Does(u, {Ret(p)})
        \/ Item \ desk[u].list # {}
           /\ Naming(u, EditText(Pop(p), "save_feeling", "abort_feeling"))

\* feelings_generation++: whoever chooses a feeling reads them again.
FeelingsChange(u, s, S) ==
  /\ us' = [us EXCEPT ![u] = s]
  /\ desk' = [v \in User |-> IF v = u THEN [desk[u] EXCEPT !.name = "none"]
                             ELSE [desk[v] EXCEPT !.fresh = FALSE]]
  /\ sys' = [sys EXCEPT !.feelings = S]
  /\ UNCHANGED <<rooms, listed>>

\* Saved, under the name that was new when the list was read; or not saved.
SaveFeeling(u) ==
  LET s == Ret(FreeText(us[u])) IN
  /\ Called(u, "save_feeling", "init")
  /\ \/ Unnaming(u, s)
     \/ \E x \in Item \ desk[u].list : FeelingsChange(u, s, sys.feelings \cup {x})

AbortFeeling(u) == Called(u, "abort_feeling", "init") /\ Unnaming(u, Ret(us[u]))

\* feelings_menu: a number of the list is asked for, for func.
FeelingsMenu(u, f) ==
  \/ Asking(u, f)
  \/ Keyed(u, f) /\ Does(u, {Ret(PopArg(us[u]))})

StateRemoveFeeling(u) ==
  \/ FeelingsMenu(u, "remove_feeling")
  \/ /\ Keyed(u, "remove_feeling") /\ desk[u].list # {}
     /\ Naming(u, Jump(PopArg(us[u]), "remove_feeling_yesno"))

\* The file may be gone already.
StateRemoveFeelingYesno(u) ==
  LET s == Ret(us[u]) IN
  \/ Asking(u, "remove_feeling_yesno")
  \/ /\ Keyed(u, "remove_feeling_yesno")
     /\ \/ Unnaming(u, s)
        \/ \E x \in desk[u].list \cap sys.feelings :
             FeelingsChange(u, s, sys.feelings \ {x})

StateViewFeeling(u) ==
  LET p == PopArg(us[u]) IN
  \/ FeelingsMenu(u, "view_feeling")
  \/ Keyed(u, "view_feeling") /\ desk[u].list # {} /\ Unnaming(u, ShowFile(Pop(p)))

StateDownloadFeeling(u) ==
  LET p == PopArg(us[u]) IN
  \/ FeelingsMenu(u, "download_feeling")
  \/ /\ Keyed(u, "download_feeling") /\ desk[u].list # {}
     /\ Unnaming(u, Jump(FreeText(p), "download_text"))

Files(u) ==
  \/ StateScreensMenu(u) \/ StateHelpFiles(u) \/ StateScreenAction(u) \/ UploadSave(u)
  \/ UploadAbort(u) \/ StateViewLogs(u) \/ StateOldLogsYear(u) \/ StateOldLogsMonth(u)
  \/ StateOldLogsFiles(u) \/ StateFeelingsMenu(u) \/ StateAddFeeling(u) \/ SaveFeeling(u)
  \/ AbortFeeling(u) \/ StateRemoveFeeling(u) \/ StateRemoveFeelingYesno(u)
  \/ StateViewFeeling(u) \/ StateDownloadFeeling(u)

=============================================================================
