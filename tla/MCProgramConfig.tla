--------------------------- MODULE MCProgramConfig ---------------------------
(***************************************************************************)
(* ProgramConfig for model checking: inputs in which every check of the    *)
(* operations passes and fails, and files that no operation writes.        *)
(***************************************************************************)
EXTENDS ProgramConfig

MCWord == Kind \cup Mode \cup Flag \cup {"unknown"}

To(kind) == [kind |-> kind, name |-> Empty]
ToFile(name) == [kind |-> "file", name |-> name]

MCCommand == {<<"a", Empty, "b", Dot>>, <<"a", "a", "a", "b">>, <<Empty, "a", "b", "a">>,
              <<"b", "a", "b", Empty>>}

MCStdio == {<<To("pipe"), ToFile("a"), To("stdout")>>,
            <<ToFile("a"), ToFile("b"), ToFile("a")>>,
            <<ToFile("b"), To("continuous_log"), To("pipe")>>,
            <<ToFile("a"), ToFile("b"), ToFile(Empty)>>,
            <<To("stdout"), To("dev_null"), To("dev_null")>>}

MCSchedule ==
  {[mode |-> "interval", continues |-> "true", interval |-> 1, fields |-> Empty],
   [mode |-> "cron", continues |-> "false", interval |-> 1, fields |-> "a"],
   [mode |-> "cron", continues |-> "true", interval |-> 2, fields |-> Empty],
   [mode |-> "interval", continues |-> "false", interval |-> 0, fields |-> Empty]}

\* "b" is the name that is too long.
MCOption == {[name |-> "a", key |-> "a", value |-> "b"], [name |-> "b", key |-> "b", value |-> "a"],
             [name |-> "", key |-> "", value |-> "a"],
             [name |-> Dot, key |-> "a", value |-> Empty]}

MCEdited ==
  {[Written(Created) EXCEPT !.stdio = <<To("stdout"), To("pipe"), To("pipe")>>,
                            !.mode = "interval", !.interval = IntervalLimit,
                            !.options = <<[name |-> "a", key |-> "a", value |-> "a"]>>],
   [Written(Created) EXCEPT !.stdio = <<ToFile(Empty), ToFile("a"), ToFile(Empty)>>,
                            !.mode = "cron", !.fields = Empty],
   [Written(Created) EXCEPT !.stdio = <<To("unknown"), To("individual_log"), To("dev_null")>>,
                            !.mode = "interval", !.continues = "true",
                            !.interval = None],
   [Written(Created) EXCEPT !.mode = "unknown", !.continues = "unknown", !.interval = IntervalLimit + 1]}
=============================================================================
