----------------------------- MODULE ErrorPaths -----------------------------
(***************************************************************************)
(* The error paths of redapid.  Nearly every function that creates         *)
(* something acquires its resources one after the other, counts its        *)
(* progress in the local variable phase, jumps to the label cleanup when a *)
(* step fails and releases there, in a switch whose cases fall through,    *)
(* what it had acquired up to that phase.  Finally it returns              *)
(*     phase == <last> ? API_E_SUCCESS : error_code.                       *)
(* Each of these functions is one record of this module: its steps in the  *)
(* order of the code, the cases of its switch, its last phase and what the *)
(* destroy function of the thing it made will release.  A small machine    *)
(* executes the records, calls of one such function by another included,   *)
(* and lets any step fail that can.                                        *)
(***************************************************************************)
EXTENDS Integers, Sequences

VARIABLES
  stack,    \* the calls in progress, the innermost last
  held,     \* resources acquired and not released, as <<function, name>>
  lost,     \* resources nobody will release any more
  doubled,  \* resources that were released without being held
  phantom,  \* results a caller believes to have and does not
  failed,   \* the steps that failed, as <<function, step>>
  result    \* what the outermost call returned

pathVars == <<stack, held, lost, doubled, phantom, failed, result>>

-----------------------------------------------------------------------------
(* The vocabulary of the records. *)

Step(n, rs, p) ==
  [name |-> n, takes |-> rs, phase |-> p, calls |-> {}, plain |-> TRUE,
   when |-> "", frees |-> {}, drops |-> {}, quiet |-> FALSE, sure |-> FALSE,
   internal |-> FALSE]

\* A step that acquires r, then sets the phase to p (0: leaves it alone).
Take(r, p) == Step(r, {r}, p)

\* A step that acquires nothing and can fail.
Try(n, p) == Step(n, {}, p)

\* A step done by another function of this module, for its result or not;
\* or done by that function only in some of the cases.
Call(r, o, p) == [Take(r, p) EXCEPT !.calls = {o}, !.plain = FALSE]
Run(n, o, p) == [Try(n, p) EXCEPT !.calls = {o}, !.plain = FALSE]
MayCall(r, o, p) == [Take(r, p) EXCEPT !.calls = {o}]

\* A step that is only taken under a condition of the call.  The phase
\* advances all the same.
If(o, s) == [s EXCEPT !.when = o]
Option(r, p) == If(r, Take(r, p))

\* What a step releases, always or only if it fails; a step that fails
\* without setting error_code; steps that cannot fail.
Freeing(rs, s) == [s EXCEPT !.frees = rs]
Dropping(rs, s) == [s EXCEPT !.drops = rs]
Quietly(s) == [s EXCEPT !.quiet = TRUE]
Surely(s) == [s EXCEPT !.sure = TRUE]
Finally(rs) == Surely(Freeing(rs, Try("", 0)))
Reach(p) == Surely(Try("", p))

\* A call without OBJECT_CREATE_FLAG_EXTERNAL, for the daemon itself; other
\* calls pass on what the caller was asked for (create_flags), or ask for an
\* external reference of the user's session.
Internally(s) == [s EXCEPT !.internal = TRUE]
CreateObject(p) == Run("object_create", "object_create", p)

-----------------------------------------------------------------------------
(* Plausible mistakes in the records below. *)

\* Faulty: the cleanup of pipe_create does not close the pipe.
PipeCreateForgetsPipe ==
  [steps |-> << Try("parameters", 0), Take("name", 1), Take("file", 2),
                Take("pipe", 3), If("length", Try("set_length", 0)),
                Take("eventfd", 4), CreateObject(5) >>,
   cases |-> << {"name"}, {"file"}, {}, {"eventfd"} >>,
   last |-> 5, options |-> {"length", "external_reference"},
   owns |-> {"pipe", "eventfd", "name", "file"}]

\* Faulty: the phase is set before timer_create_ is called.
SessionCreateCountsEarly ==
  [steps |-> << Try("lifetime", 0), Take("session", 2), Take("timer", 0),
                Try("timer_configure", 0), Try("inventory_add_session", 3) >>,
   cases |-> << {"session"}, {"timer"} >>, last |-> 3, options |-> {},
   owns |-> {"timer", "session"}]

\* Faulty: the error code of timer_create_ is not set.
SchedulerCreateIgnoresTimer ==
  [steps |-> << Take("bin_directory", 1),
                Run("create_bin_directory", "directory_create", 0),
                Take("log_directory", 2),
                Run("create_log_directory", "directory_create", 0),
                Call("dev_null_file_name", "inventory_get_stock_string", 3),
                Quietly(Take("timer", 4)) >>,
   cases |-> << {"bin_directory"}, {"log_directory"}, {"dev_null_file_name"} >>,
   last |-> 4, options |-> {},
   owns |-> {"timer", "dev_null_file_name", "log_directory", "bin_directory"}]

-----------------------------------------------------------------------------
(* object.c *)

\* The reference is counted, and its node linked into the list of the session,
\* before an id is looked for.
object_create ==
  [steps |-> << Option("external_reference", 0), Try("inventory_add_object", 1) >>,
   cases |-> << >>, last |-> 1, options |-> {"external_reference"},
   owns |-> {"external_reference"}]

-----------------------------------------------------------------------------
(* process.c *)

\* process_spawn up to the fork: the objects it acquires and the two arrays
\* for execvpe.
SpawnArguments ==
  << Take("executable", 1), Try("executable_empty", 0), Take("arguments", 2),
     Take("arguments_array", 3), Try("append_arguments", 0),
     Take("environment", 4), Take("environment_array", 5),
     Try("append_environment", 0) >>

SpawnFiles ==
  << Take("working_directory", 6), Try("working_directory_absolute", 0),
     Take("stdin", 7), Take("stdout", 8), Take("stderr", 9),
     Take("status_pipe", 10) >>

\* The child changes its identity and directory, redirects its stdio and
\* tells the parent over the status pipe how that went.  A child that was
\* started leaves an exit status that has to be collected by waitpid.
SpawnChild ==
  << Step("fork", {"child", "exit_status"}, 11), Try("read_status", 0),
     Try("child_reports_error", 0) >>

\* The process object.  A failing event_add_source sets no error_code.
SpawnObject ==
  << Take("process", 12), Take("state_change_pipe", 13),
     Quietly(Take("event_source", 14)), CreateObject(15),
     Finally({"status_pipe", "arguments_array", "environment_array"}) >>

\* The switch of process_spawn: the child is killed, nobody waits for it.
SpawnCases ==
  << {"executable"}, {"arguments"}, {"arguments_array"}, {"environment"},
     {"environment_array"}, {"working_directory"}, {"stdin"}, {"stdout"},
     {"stderr"}, {"status_pipe"}, {"child"}, {"process"},
     {"state_change_pipe"}, {"event_source"} >>

\* process_destroy kills the child, joins the thread that waits for it and
\* releases the rest.
ProcessOwns ==
  {"event_source", "child", "exit_status", "state_change_pipe", "stderr",
   "stdout", "stdin", "working_directory", "environment", "arguments",
   "executable", "process"}

process_spawn ==
  [steps |-> SpawnArguments \o SpawnFiles \o SpawnChild \o SpawnObject,
   cases |-> SpawnCases, last |-> 15, owns |-> ProcessOwns,
   options |-> {"external_reference"}]

\* Four external references for the caller's session, or none.
GetCommand ==
  [steps |-> << Try("purged", 0), Take("executable", 1), Take("arguments", 2),
                Take("environment", 3), Take("working_directory", 4) >>,
   cases |-> << {"executable"}, {"arguments"}, {"environment"} >>,
   last |-> 4, options |-> {},
   owns |-> {"executable", "arguments", "environment", "working_directory"}]

process_get_command == [GetCommand EXCEPT !.steps = Tail(@)]

process_get_stdio ==
  [steps |-> << Take("stdin", 1), Take("stdout", 2), Take("stderr", 3) >>,
   cases |-> << {"stdin"}, {"stdout"} >>,
   last |-> 3, options |-> {}, owns |-> {"stdin", "stdout", "stderr"}]

-----------------------------------------------------------------------------
(* file.c and directory.c *)

\* file_open_as has no switch: every return releases by itself, apart from
\* the one after a failed fork.  fd stands for what the child sent, which is
\* -1, and nothing to close, if the child could not open the file.
file_open_as ==
  [steps |-> << Step("socketpair", {"read_end", "write_end"}, 0),
                Take("child", 0),
                Dropping({"read_end", "child"},
                         Freeing({"write_end"}, Take("fd", 0))),
                Dropping({"fd"},
                         Freeing({"read_end", "child"}, Try("waitpid", 0))),
                Dropping({"fd"}, Try("exited", 0)),
                Dropping({"fd"}, Try("exit_status", 0)),
                Dropping({"fd"}, Try("valid", 0)) >>,
   cases |-> << >>, last |-> 99, owns |-> {"fd"}, options |-> {}]

\* The file is opened by the daemon itself or, for another user, by a child.
file_open ==
  [steps |-> << Try("parameters", 0), Take("name", 1), Try("absolute", 0),
                If("replace", Try("unlink", 0)),
                MayCall("fd", "file_open_as", 2),
                Try("fstat", 0), Take("file", 3), Take("eventfd", 4),
                CreateObject(5) >>,
   cases |-> << {"name"}, {"fd"}, {"file"}, {"eventfd"} >>,
   last |-> 5, options |-> {"replace", "external_reference"},
   owns |-> {"fd", "eventfd", "name", "file"}]

pipe_create_ ==
  [steps |-> << Try("parameters", 0), Take("name", 1), Take("file", 2),
                Take("pipe", 3), If("length", Try("set_length", 0)),
                Take("eventfd", 4), CreateObject(5) >>,
   cases |-> << {"name"}, {"file"}, {"pipe"}, {"eventfd"} >>,
   last |-> 5, options |-> {"length", "external_reference"},
   owns |-> {"pipe", "eventfd", "name", "file"}]

directory_open ==
  [steps |-> << Take("name", 1), Try("absolute", 0), Try("length", 0),
                Take("dp", 2), Take("directory", 3), CreateObject(4) >>,
   cases |-> << {"name"}, {"dp"}, {"directory"} >>,
   last |-> 4, options |-> {}, owns |-> {"dp", "name", "directory"}]

\* The directory is made by the daemon or, for another user, by a child that
\* reports the error code as its exit status.  The label cleanup is passed
\* in every case.
directory_create ==
  [steps |-> << Try("parameters", 0), Take("copy", 1),
                If("other_user", Take("child", 0)),
                If("other_user", Freeing({"child"}, Try("waitpid", 0))),
                If("other_user", Try("exited", 0)),
                Try("directory_create_helper", 0) >>,
   cases |-> << {"copy"} >>, last |-> 99, options |-> {"other_user"},
   owns |-> {}]

-----------------------------------------------------------------------------
(* program_config.c and program.c *)

program_config_create ==
  [steps |-> << Call("executable", "inventory_get_stock_string", 1),
                Internally(Call("arguments", "list_allocate", 2)),
                Internally(Call("environment", "list_allocate", 3)),
                Call("working_directory", "inventory_get_stock_string", 4),
                Take("custom_options", 5), Take("options_array", 6),
                Take("filename", 7) >>,
   cases |-> << {"executable"}, {"arguments"}, {"environment"},
                {"working_directory"}, {"custom_options"}, {"options_array"} >>,
   last |-> 7, options |-> {},
   owns |-> {"options_array", "custom_options", "working_directory",
             "environment", "arguments", "executable", "filename"}]

\* One item of a list: once appended it belongs to the list.  If it cannot
\* be appended, error_code is still that of the string that was just read.
GetItem(o) ==
  << If(o, Take("item", 0)), If(o, Quietly(Try("append", 0))),
     If(o, Finally({"item"})) >>

program_config_get_string_list ==
  [steps |-> << Internally(Call("list", "list_allocate", 1)) >> \o GetItem("first")
             \o GetItem("second") \o << Reach(2) >>,
   cases |-> << {"list"} >>, last |-> 2, options |-> {"first", "second"},
   owns |-> {"list"}]

\* An empty file name, or empty fields, are released at once and the
\* redirection or the mode replaced: as if they had not been asked for.
ConfigLoadSteps ==
  << Take("conf_file", 1), Try("read", 0), Take("executable", 2),
     Call("arguments", "program_config_get_string_list", 3),
     Call("environment", "program_config_get_string_list", 4),
     Take("working_directory", 5), Option("stdin_file_name", 6),
     Option("stdout_file_name", 7), Option("stderr_file_name", 8),
     Option("start_fields", 9), Take("custom_options", 10),
     Take("options_array", 11) >>

\* One custom.* option, which belongs to the array once it is complete.
LoadOption(o) ==
  << If(o, Try("append_option", 0)), If(o, Take("option_name", 0)),
     If(o, Dropping({"option_name"}, Take("option_value", 0))),
     If(o, Finally({"option_name", "option_value"})) >>

ConfigLoadCases ==
  << {"conf_file"}, {"executable"}, {"arguments"}, {"environment"},
     {"working_directory"}, {"stdin_file_name"}, {"stdout_file_name"},
     {"stderr_file_name"}, {"start_fields"}, {"custom_options"},
     {"options_array"} >>

program_config_load ==
  [steps |-> ConfigLoadSteps \o LoadOption("first") \o LoadOption("second")
             \o << Reach(12), Finally({"conf_file"}) >>,
   cases |-> ConfigLoadCases, last |-> 12,
   options |-> {"stdin_file_name", "stdout_file_name", "stderr_file_name",
                "start_fields", "first", "second"},
   owns |-> {"executable", "arguments", "environment", "working_directory",
             "stdin_file_name", "stdout_file_name", "stderr_file_name",
             "start_fields", "custom_options", "options_array"}]

program_load ==
  [steps |-> << Try("identifier_valid", 0),
                Call("config", "program_config_create", 1),
                Run("load", "program_config_load", 0),
                Take("identifier", 2), Take("root_directory", 3),
                Call("none_message", "inventory_get_stock_string", 4),
                Take("program", 5),
                Call("scheduler", "program_scheduler_create", 6),
                Internally(CreateObject(7)) >>,
   cases |-> << {"config"}, {"identifier"}, {"root_directory"},
                {"none_message"}, {"program"}, {"scheduler"} >>,
   last |-> 7, options |-> {},
   owns |-> {"scheduler", "config", "root_directory", "identifier",
             "none_message", "program"}]

program_define ==
  [steps |-> << Take("identifier", 1), Try("identifier_valid", 0),
                Take("root_directory", 2), Try("config_filename", 0),
                Call("program_directory", "directory_create", 3),
                Call("none_message", "inventory_get_stock_string", 4),
                Take("program", 5),
                Call("config", "program_config_create", 6),
                Take("program_conf", 0),
                Call("scheduler", "program_scheduler_create", 7),
                CreateObject(8) >>,
   cases |-> << {"identifier"}, {"root_directory"}, {"program_directory"},
                {"none_message"}, {"program"}, {"config"}, {"scheduler"} >>,
   last |-> 8, options |-> {},
   owns |-> {"scheduler", "config", "root_directory", "identifier",
             "none_message", "program", "program_directory", "program_conf"}]

\* rmdir does not remove a directory with a program.conf in it.
StaysOnDisk(r) ==
  r = "program_directory" /\ <<"program_define", "program_conf">> \in held

program_get_command == GetCommand

program_get_stdio_redirection ==
  [steps |-> << Try("purged", 0), Option("stdin_file_name", 1),
                Option("stdout_file_name", 2), Option("stderr_file_name", 3) >>,
   cases |-> << {"stdin_file_name"}, {"stdout_file_name"} >>, last |-> 3,
   options |-> {"stdin_file_name", "stdout_file_name", "stderr_file_name"},
   owns |-> {"stdin_file_name", "stdout_file_name", "stderr_file_name"}]

-----------------------------------------------------------------------------
(* program_scheduler.c *)

\* program_scheduler_prepare_filesystem.  The working directory is released
\* before the jump to cleanup, and again there.  The phase is the last one
\* before the directory of the stderr file is made.
PrepareNames ==
  << Take("working_directory", 1),
     Dropping({"working_directory"},
              Run("create_working_directory", "directory_create", 0)),
     Option("stdin_file_name", 2), Option("stdout_file_name", 3),
     If("stdout_file_name", Run("create_stdout_directory", "directory_create", 0)),
     Option("stderr_file_name", 4),
     If("stderr_file_name", Run("create_stderr_directory", "directory_create", 0)) >>

program_scheduler_prepare_filesystem ==
  [steps |-> PrepareNames,
   cases |-> << {"working_directory"}, {"stdin_file_name"}, {"stdout_file_name"} >>,
   last |-> 4,
   options |-> {"stdin_file_name", "stdout_file_name", "stderr_file_name"},
   owns |-> {"working_directory", "stdin_file_name", "stdout_file_name",
             "stderr_file_name"}]

program_scheduler_create ==
  [steps |-> << Take("bin_directory", 1),
                Run("create_bin_directory", "directory_create", 0),
                Take("log_directory", 2),
                Run("create_log_directory", "directory_create", 0),
                Call("dev_null_file_name", "inventory_get_stock_string", 3),
                Take("timer", 4) >>,
   cases |-> << {"bin_directory"}, {"log_directory"}, {"dev_null_file_name"} >>,
   last |-> 4, options |-> {},
   owns |-> {"timer", "dev_null_file_name", "log_directory", "bin_directory"}]

\* The name of a log is released whether the log could be opened or not.  The
\* first names may be taken, then the next one is tried.
program_scheduler_prepare_individual_log ==
  [steps |-> << Try("format", 0), If("taken", Take("name", 0)),
                If("taken", Freeing({"name"}, Try("attempts", 0))),
                Take("name", 0),
                Dropping({"name"}, Internally(Call("file", "file_open", 0))),
                Finally({"name"}) >>,
   cases |-> << >>, last |-> 99, options |-> {"taken"}, owns |-> {"file"}]

program_scheduler_prepare_continuous_log ==
  [steps |-> << Try("format", 0), Take("name", 0),
                Dropping({"name"}, Internally(Call("file", "file_open", 0))),
                Finally({"name"}),
                Dropping({"file"}, Try("format_header", 0)),
                Dropping({"file"}, Try("write_header", 0)) >>,
   cases |-> << >>, last |-> 99, options |-> {}, owns |-> {"file"}]

Output == {"file_open", "program_scheduler_prepare_individual_log",
           "program_scheduler_prepare_continuous_log"}

\* The three files are handed to the process, which holds them by itself.
\* stderr may be the file of stdout.
program_scheduler_spawn_process ==
  [steps |-> << Internally([Call("stdin", "file_open", 1) EXCEPT !.calls = @ \cup {"pipe_create_"}]),
                Internally([Call("stdout", "file_open", 2) EXCEPT !.calls = Output]),
                Internally([MayCall("stderr", "file_open", 3) EXCEPT !.calls = Output]),
                Internally(Call("process", "process_spawn", 4)),
                Finally({"stdin", "stdout", "stderr"}) >>,
   cases |-> << {"stdin"}, {"stdout"}, {"stderr"} >>,
   last |-> 4, options |-> {}, owns |-> {"process"}]

-----------------------------------------------------------------------------
(* session.c, list.c, string.c, inventory.c, cron.c, process_monitor.c,
   network.c and main.c *)

session_create ==
  [steps |-> << Try("lifetime", 0), Take("session", 1), Take("timer", 2),
                Try("timer_configure", 0), Try("inventory_add_session", 3) >>,
   cases |-> << {"session"}, {"timer"} >>, last |-> 3, options |-> {},
   owns |-> {"timer", "session"}]

list_allocate ==
  [steps |-> << Take("list", 1), Take("items", 2), CreateObject(3) >>,
   cases |-> << {"list"}, {"items"} >>, last |-> 3, options |-> {"external_reference"},
   owns |-> {"items", "list"}]

\* The buffer is allocated here, or handed over by the caller.
string_create ==
  [steps |-> << Try("length", 0), Option("buffer", 1), Take("string", 2),
                CreateObject(3) >>,
   cases |-> << {"buffer"}, {"string"} >>, last |-> 3,
   options |-> {"buffer", "external_reference"},
   owns |-> {"buffer", "string"}]

\* A stock string that does not exist yet is made and kept.
inventory_get_stock_string ==
  [steps |-> << If("stock", Internally(Call("stock", "string_create", 0))),
                If("stock", Dropping({"stock"}, Try("append", 0))),
                Surely(Take("reference", 1)) >>,
   cases |-> << >>, last |-> 1, options |-> {"stock"},
   owns |-> {"stock", "reference"}]

\* The arrays of objects are made in a loop, the phase is set in each turn.
inventory_init ==
  [steps |-> << Try("getpwuid", 0), Try("format", 0), Take("sessions", 1),
                Take("first_array", 2), Take("further_arrays", 2),
                Dropping({"further_arrays"}, Take("stock_strings", 3)) >>,
   cases |-> << {"sessions"}, {"first_array"} >>, last |-> 3, options |-> {},
   owns |-> {"sessions", "first_array", "further_arrays", "stock_strings"}]

\* A new list of the processes, the programs or the names of the options; the
\* list that could not be filled is given back.
GetList ==
  [steps |-> << Call("list", "list_allocate", 0),
                If("first", Dropping({"list"}, Try("append", 0))),
                If("second", Dropping({"list"}, Try("append", 0))) >>,
   cases |-> << >>, last |-> 99, options |-> {"first", "second"},
   owns |-> {"list"}]

inventory_get_processes == GetList
inventory_get_programs == GetList
program_get_custom_option_names == [GetList EXCEPT !.steps = <<Try("purged", 0)>> \o @]

\* A failing cron_add_entry closes its temporary file and leaves it in /tmp.
cron_add_entry ==
  [steps |-> << Try("format", 0), Option("entry", 1),
                Step("mkostemp", {"fd", "temporary"}, 2), Try("fchmod", 0),
                Try("write", 0), Try("rename", 3), Finally({"fd", "temporary"}) >>,
   cases |-> << {"entry"}, {"fd"} >>, last |-> 3, options |-> {"entry"},
   owns |-> {"entry"}]

\* process_monitor_add_observer with a new observation.
process_monitor_add_observer ==
  [steps |-> << Try("search_proc", 0), Take("observation", 1),
                Take("cmdline_prefix", 2), Take("observers", 3),
                Try("append", 0), Option("timer", 4),
                If("timer", Try("timer_configure", 0)), Reach(5) >>,
   cases |-> << {"observation"}, {"cmdline_prefix"}, {"observers"}, {"timer"} >>,
   last |-> 5, options |-> {"timer"},
   owns |-> {"observation", "cmdline_prefix", "observers", "timer"}]

network_open_server_socket ==
  [steps |-> << Try("length", 0), Take("socket", 1), Try("open", 0),
                Try("bind", 0), Try("listen", 0), Take("event_source", 2) >>,
   cases |-> << {"socket"} >>, last |-> 2, options |-> {},
   owns |-> {"socket", "event_source"}]

\* brickd_create is given the client socket, and owns it if it succeeds.
brickd_create ==
  [steps |-> << Take("response_writer", 0),
                Dropping({"response_writer"}, Take("event_source", 0)) >>,
   cases |-> << >>, last |-> 99, options |-> {},
   owns |-> {"response_writer", "event_source"}]

network_handle_brickd_accept ==
  [steps |-> << Take("client_socket", 0),
                Dropping({"client_socket"}, Try("already_connected", 0)),
                Call("brickd", "brickd_create", 0) >>,
   cases |-> << >>, last |-> 99, options |-> {}, owns |-> {"client_socket", "brickd"}]

network_handle_cron_accept ==
  [steps |-> << Take("client_socket", 0), Take("socat", 0),
                Dropping({"socat"}, Take("event_source", 0)) >>,
   cases |-> << >>, last |-> 99, options |-> {},
   owns |-> {"client_socket", "socat", "event_source"}]

\* main: the labels error_run to error_config are passed in every case.
main ==
  [steps |-> << Surely(Take("config", 1)), Try("config_has_error", 0),
                Take("pid_file", 2), Take("event", 3), Take("signal", 4),
                Take("process_monitor", 5), Take("cron", 6),
                Call("inventory", "inventory_init", 7),
                Take("api", 8), Take("network", 9), Take("programs", 10),
                Try("event_run", 0) >>,
   cases |-> << {"config"}, {"pid_file"}, {"event"}, {"signal"},
                {"process_monitor"}, {"cron"}, {"inventory"}, {"api"},
                {"network"}, {"programs"} >>,
   last |-> 99, options |-> {}, owns |-> {}]

Operation ==
  [object_create |-> object_create, process_spawn |-> process_spawn,
   process_get_command |-> process_get_command,
   process_get_stdio |-> process_get_stdio,
   file_open_as |-> file_open_as, file_open |-> file_open,
   pipe_create_ |-> pipe_create_,
   directory_open |-> directory_open, directory_create |-> directory_create,
   program_config_create |-> program_config_create,
   program_config_get_string_list |-> program_config_get_string_list,
   program_config_load |-> program_config_load,
   program_load |-> program_load, program_define |-> program_define,
   program_get_command |-> program_get_command,
   program_get_stdio_redirection |-> program_get_stdio_redirection,
   program_scheduler_prepare_filesystem |-> program_scheduler_prepare_filesystem,
   program_scheduler_create |-> program_scheduler_create,
   program_scheduler_prepare_individual_log |-> program_scheduler_prepare_individual_log,
   program_scheduler_prepare_continuous_log |-> program_scheduler_prepare_continuous_log,
   program_scheduler_spawn_process |-> program_scheduler_spawn_process,
   session_create |-> session_create, list_allocate |-> list_allocate,
   string_create |-> string_create,
   inventory_get_stock_string |-> inventory_get_stock_string,
   inventory_init |-> inventory_init,
   inventory_get_processes |-> inventory_get_processes,
   inventory_get_programs |-> inventory_get_programs,
   program_get_custom_option_names |-> program_get_custom_option_names,
   cron_add_entry |-> cron_add_entry,
   process_monitor_add_observer |-> process_monitor_add_observer,
   network_open_server_socket |-> network_open_server_socket,
   brickd_create |-> brickd_create,
   network_handle_brickd_accept |-> network_handle_brickd_accept,
   network_handle_cron_accept |-> network_handle_cron_accept,
   main |-> main]

-----------------------------------------------------------------------------
(* The machine that executes them. *)

Frame(o, chosen) ==
  [op |-> o, chosen |-> chosen, at |-> 1, phase |-> 0, leaving |-> FALSE,
   case |-> 0, code |-> "success"]

Top == stack[Len(stack)]
Code == Operation[Top.op]
Current == Code.steps[Top.at]
Mine(rs) == {<<Top.op, r>> : r \in rs}
Working == stack # << >> /\ ~ Top.leaving /\ Top.at <= Len(Code.steps)
Applies(s) == s.when = "" \/ s.when \in Top.chosen
Replace(f) == [stack EXCEPT ![Len(stack)] = f]

\* The resources that exist in this call: the optional ones only if chosen.
Existing(rs) == {r \in rs : r \in Code.options => r \in Top.chosen}

\* A frame after its current step succeeded, and after a goto cleanup.
Onward(f) ==
  LET s == Operation[f.op].steps[f.at]
  IN  [f EXCEPT !.at = @ + 1, !.phase = IF s.phase = 0 THEN @ ELSE s.phase]

Goto(f, code) ==
  [f EXCEPT !.leaving = TRUE, !.code = code,
            !.case = IF f.phase \in DOMAIN Operation[f.op].cases THEN f.phase ELSE 0]

\* Release what is held; whatever is not held is released once too often.
Release(rs) ==
  /\ held' = held \ rs
  /\ phantom' = phantom \ rs
  /\ doubled' = doubled \cup (rs \ held)

PathInit ==
  /\ stack = << >> /\ result = "none"
  /\ held = {} /\ lost = {} /\ doubled = {} /\ phantom = {} /\ failed = {}

\* The daemon calls one of the functions, under any condition.
Begin(o) ==
  /\ stack = << >>
  /\ \E chosen \in SUBSET Operation[o].options : stack' = << Frame(o, chosen) >>
  /\ held' = {} /\ lost' = {} /\ doubled' = {} /\ phantom' = {} /\ failed' = {}
  /\ result' = "none"

Skip ==
  /\ Working /\ ~ Applies(Current)
  /\ stack' = Replace(Onward(Top))
  /\ UNCHANGED <<held, lost, doubled, phantom, failed, result>>

Succeed ==
  /\ Working /\ Applies(Current) /\ Current.plain
  /\ stack' = Replace(Onward(Top))
  /\ held' = (held \ Mine(Current.frees)) \cup Mine(Current.takes)
  /\ doubled' = doubled \cup (Mine(Current.frees) \ held)
  /\ phantom' = phantom \ Mine(Current.frees)
  /\ UNCHANGED <<lost, failed, result>>

\* A failing step: goto cleanup, or what file_open_as does before return.
Fail ==
  /\ Working /\ Applies(Current) /\ Current.plain /\ ~ Current.sure
  /\ stack' = Replace(Goto(Top, IF Current.quiet THEN "success" ELSE "error"))
  /\ Release(Mine(Current.frees \cup Current.drops))
  /\ failed' = failed \cup {<<Top.op, Current.name>>}
  /\ UNCHANGED <<lost, result>>

\* Whether a function called now is asked for an external reference.
External ==
  /\ ~ Current.internal
  /\ "external_reference" \in Code.options => "external_reference" \in Top.chosen

Enter ==
  /\ Working /\ Applies(Current)
  /\ \E o \in Current.calls : \E chosen \in SUBSET Operation[o].options :
       /\ "external_reference" \in Operation[o].options =>
            ("external_reference" \in chosen <=> External)
       /\ stack' = Append(stack, Frame(o, chosen))
  /\ UNCHANGED <<held, lost, doubled, phantom, failed, result>>

\* The end of the function's body, with the label cleanup behind it.
Complete ==
  /\ stack # << >> /\ ~ Top.leaving /\ Top.at > Len(Code.steps)
  /\ stack' = Replace(Goto(Top, "success"))
  /\ UNCHANGED <<held, lost, doubled, phantom, failed, result>>

\* One case of the switch, falling through to the next.
Cleanup ==
  /\ stack # << >> /\ Top.leaving /\ Top.case > 0
  /\ stack' = Replace([Top EXCEPT !.case = @ - 1])
  /\ Release(Mine({r \in Existing(Code.cases[Top.case]) : ~ StaysOnDisk(r)}))
  /\ UNCHANGED <<lost, failed, result>>

\* return phase == <last> ? API_E_SUCCESS : error_code.
Returned == IF Top.phase = Code.last THEN "success" ELSE Top.code
Made == Top.at > Len(Code.steps)
Rest == {x \in held : x[1] = Top.op}
Owned == IF Made THEN Mine(Existing(Code.owns)) ELSE {}

\* What becomes of the resources when the function returns: its result owns
\* the ones its destroy function releases, the others are out of reach.
Settle ==
  /\ stack # << >> /\ Top.leaving /\ Top.case = 0
  /\ lost' = lost \cup (Rest \ Owned)

Return ==
  /\ Settle
  /\ Len(stack) = 1
  /\ stack' = << >> /\ result' = Returned
  /\ held' = {}
  /\ doubled' = doubled \cup (Owned \ (held \cup phantom))
  /\ UNCHANGED <<phantom, failed>>

\* The caller goes on if it is told success, and believes to have what the
\* function was called for; it goes to its own cleanup otherwise.
ReturnToCaller ==
  /\ Settle
  /\ Len(stack) > 1
  /\ LET caller == stack[Len(stack) - 1]
         step == Operation[caller.op].steps[caller.at]
         takes == {<<caller.op, r>> : r \in step.takes}
         drops == {<<caller.op, r>> : r \in step.drops}
         left == held \ Rest
         short == Owned \ (held \cup phantom)
     IN  IF Returned = "success"
           THEN /\ stack' = Append(SubSeq(stack, 1, Len(stack) - 2), Onward(caller))
                /\ held' = IF Made THEN left \cup takes ELSE left
                /\ phantom' = IF Made THEN phantom ELSE phantom \cup takes
                /\ doubled' = doubled \cup short
                /\ UNCHANGED failed
           ELSE /\ stack' = Append(SubSeq(stack, 1, Len(stack) - 2),
                                   Goto(caller, "error"))
                /\ held' = left \ drops
                /\ phantom' = phantom \ drops
                /\ doubled' = doubled \cup short \cup (drops \ left)
                /\ failed' = failed \cup {<<caller.op, step.name>>}
  /\ UNCHANGED result

PathNext ==
  \/ \E o \in DOMAIN Operation : Begin(o)
  \/ Skip \/ Succeed \/ Fail \/ Enter \/ Complete \/ Cleanup
  \/ Return \/ ReturnToCaller

PathSpec == PathInit /\ [][PathNext]_pathVars

-----------------------------------------------------------------------------
(* Properties. *)

Over == stack = << >>

\* The failing steps that leave something behind for good, and what:
\* the node of an external reference in the list of its session, if the object
\* gets no id; the socket pair of a failed fork; the temporary file of cron; the
\* item that could not be appended; the exit status of a child that is killed
\* and not waited for; the directory rmdir cannot remove; the names of a program
\* whose stderr directory cannot be made; the accepted socket that nobody took
\* over.
KnownLeaks ==
  { [op |-> "object_create", at |-> {"inventory_add_object"},
     what |-> {"external_reference"}],
    [op |-> "network_handle_brickd_accept", at |-> {"brickd"}, what |-> {"client_socket"}],
    [op |-> "network_handle_cron_accept", at |-> {"socat", "event_source"},
     what |-> {"client_socket"}],
    [op |-> "file_open_as", at |-> {"child"}, what |-> {"read_end", "write_end"}],
    [op |-> "cron_add_entry", at |-> {"fchmod", "write", "rename"},
     what |-> {"temporary"}],
    [op |-> "program_config_get_string_list", at |-> {"append"}, what |-> {"item"}],
    [op |-> "process_spawn",
     at |-> {"read_status", "child_reports_error", "process",
             "state_change_pipe", "event_source", "object_create"},
     what |-> {"exit_status"}],
    [op |-> "program_define", at |-> {"scheduler", "object_create"},
     what |-> {"program_directory", "program_conf"}],
    [op |-> "program_scheduler_prepare_filesystem", at |-> {"create_stderr_directory"},
     what |-> {"working_directory", "stdin_file_name", "stdout_file_name",
               "stderr_file_name"}] }

LeaksOf(f) ==
  {<<f[1], r>> : r \in UNION {k.what : k \in {k \in KnownLeaks :
                                              k.op = f[1] /\ f[2] \in k.at}}}

\* Names that exist only if the program redirects to a file, and the node that
\* exists only if an external reference was asked for.
Optional(x) ==
  \/ x = <<"object_create", "external_reference">>
  \/ /\ x[1] = "program_scheduler_prepare_filesystem"
     /\ x[2] \in {"stdin_file_name", "stdout_file_name"}

\* Whatever step of whatever function fails, at whatever depth of calls, every
\* lock, reference, descriptor, child and piece of memory acquired up to then
\* is released before the outermost function returns, and every one that a
\* finished function does not pass on is released too: apart from what the
\* nine error paths above leave behind, and these do so each time.
NothingLost ==
  Over =>
    LET leaks == UNION {LeaksOf(f) : f \in failed}
    IN  lost \subseteq leaks /\ {x \in leaks : ~ Optional(x)} \subseteq lost

\* The working directory program_scheduler_prepare_filesystem releases twice.
TwiceReleased == <<"program_scheduler_prepare_filesystem", "working_directory">>

\* No error path releases what it does not hold, and the result of a function
\* holds all that its destroy function releases.  There are two exceptions:
\* the working directory that cannot be created is released before the jump
\* to cleanup and there again, and a list of the configuration whose item
\* could not be appended is released by program_config_get_string_list and
\* again by program_config_load, should that fail in turn.
ReleasedOnce ==
  Over =>
    /\ TwiceReleased \in doubled <=>
         <<"program_scheduler_prepare_filesystem", "create_working_directory">> \in failed
    /\ \A x \in doubled \ {TwiceReleased} :
         /\ x \in {<<"program_config_load", "arguments">>,
                   <<"program_config_load", "environment">>}
         /\ <<"program_config_get_string_list", "append">> \in failed

\* The steps whose failure is reported as a success without a result.
Unreported ==
  {<<"process_spawn", "event_source">>,
   <<"program_config_get_string_list", "append">>}

\* An outermost call that returns success has made what it was called for,
\* with every step of every function it called, and one that returns an error
\* met one.  A function goes on with a result it does not have only after one
\* of the two unreported failures, which are indeed told to nobody; the third
\* success in spite of a failure is that of the stderr directory.
SuccessIsReal ==
  Over =>
    /\ result = "success" /\ failed # {} =>
         \/ failed \cap Unreported # {}
         \/ <<"program_scheduler_prepare_filesystem", "create_stderr_directory">> \in failed
    /\ result = "error" => failed # {}
    /\ phantom # {} => failed \cap Unreported # {}
    /\ \A f \in Unreported : failed = {f} => result = "success"
=============================================================================
