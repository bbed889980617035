---------------------------- MODULE ProgramConfig ----------------------------
(***************************************************************************)
(* The configuration of one program: in memory (program_config.c,          *)
(* program.c) and in the file program.conf of the program's directory,     *)
(* from which it is loaded when the daemon starts.                         *)
(*                                                                         *)
(* A string or list object is identified with its content, a Text.         *)
(* "held" counts the internal references, each with a lock, that the       *)
(* program has on it.  An operation is one action with the point at which  *)
(* it fails as a parameter; what it has acquired at that point and what    *)
(* its cleanup releases are computed separately, as in the code.           *)
(*                                                                         *)
(* The configuration file belongs to daemonlib: reading it, setting        *)
(* options and writing it can fail, and a write that fails, or a crash     *)
(* during it, leaves the old file.  A file is what conf_file_read() makes  *)
(* of its text: that the text of an option, whatever characters it has,    *)
(* is read as it was set is taken from daemonlib.  What program_config.c   *)
(* itself converts (symbols, integers, booleans, prefixed names) is here.  *)
(***************************************************************************)
EXTENDS Integers, Sequences, FiniteSets, SequencesExt

CONSTANTS
  Text,           \* contents of strings and lists
  Empty,          \* the empty string, or list
  Dot,            \* the default working directory
  CommandInput, StdioInput, ScheduleInput, OptionInput,   \* what users ask for
  EditedFile,     \* files somebody has written by hand
  Word,           \* what a file may say for a redirection or a mode
  LongName,       \* names of options that do not fit into the 1024 bytes of "custom.%s"
  MaxOptions,     \* bound: custom options
  MaxStray,       \* bound: references that no operation will release
  IntervalLimit,  \* 2^32, the width of start_interval
  None

ASSUME TextAssumption ==
  /\ {Empty, Dot} \cup LongName \subseteq Text /\ Empty # Dot /\ None \notin Text \cup Nat
  /\ MaxOptions \in Nat /\ MaxStray \in Nat
  /\ IntervalLimit \in Nat \ {0}

Kind == {"dev_null", "pipe", "file", "individual_log", "continuous_log", "stdout"}
Mode == {"never", "always", "interval", "cron"}
Flag == {"true", "false"}

\* ProgramCustomOption; key stands for the name without regard to case.
Option == [name : Text, key : Text, value : Text]
OneOfAKind(options) == \A i, j \in DOMAIN options : options[i].key = options[j].key => i = j

\* Any content of program.conf.
File == [command : [1..4 -> Text], stdio : [1..3 -> [kind : Word, name : Text]],
         mode : Word, continues : Word, interval : Nat \cup {None}, fields : Text,
         options : Seq(Option)]

\* Edits that give an option twice are left out: what they are read as is
\* decided by daemonlib.
ASSUME InputAssumption ==
  /\ Kind \cup Mode \cup Flag \subseteq Word
  /\ CommandInput \subseteq [1..4 -> Text]
  /\ StdioInput \subseteq [1..3 -> [kind : Kind, name : Text]]
  /\ ScheduleInput \subseteq
       [mode : Mode, continues : Flag, interval : 0..IntervalLimit - 1, fields : Text]
  /\ OptionInput \subseteq Option
  /\ \A f \in EditedFile : /\ f \in File /\ OneOfAKind(f.options)
                           /\ Len(f.options) <= MaxOptions

VARIABLES
  up,        \* the daemon is running
  program,   \* "none", "loaded" or "purged"
  config,    \* program->config
  asked,     \* what users have set in it since it was created or loaded
  held,      \* references of the program on each text
  stray,     \* those of them that belong to nothing in the config
  lost,      \* an option is gone from memory but not from the file
  directory, \* of the program: "none", "bare" (without a file) or "full"
  file       \* content of program.conf

vars == <<up, program, config, asked, held, stray, lost, directory, file>>
memory == <<program, config, asked, held, stray, lost>>
disk   == <<directory, file>>

\* program_config_create()
Created ==
  [command |-> <<Empty, Empty, Empty, Dot>>,
   stdio |-> <<[kind |-> "dev_null", name |-> None], [kind |-> "dev_null", name |-> None],
               [kind |-> "dev_null", name |-> None]>>,
   mode |-> "never", continues |-> "false", interval |-> 0, fields |-> None, options |-> <<>>]

NoRefs == [t \in Text |-> 0]

-----------------------------------------------------------------------------
(* References *)

Count(s, t) == Cardinality({i \in DOMAIN s : s[i] = t})
Acquire(h, s) == [t \in Text |-> h[t] + Count(s, t)]
Release(h, s) == [t \in Text |-> h[t] - Count(s, t)]

\* None where a stream is not redirected to a file: a null pointer.
FileNames(stdio) ==
  [i \in DOMAIN stdio |-> IF stdio[i].kind = "file" THEN stdio[i].name ELSE None]
Fields(mode, fields) == IF mode = "cron" THEN <<fields>> ELSE <<>>
OptionNames(options)  == [i \in DOMAIN options |-> options[i].name]
OptionValues(options) == [i \in DOMAIN options |-> options[i].value]

\* What a configuration holds, and program_config_destroy() releases.
Uses(c) == c.command \o FileNames(c.stdio) \o Fields(c.mode, c.fields)
           \o OptionNames(c.options) \o OptionValues(c.options)

-----------------------------------------------------------------------------
(* Saving and loading *)

\* program_config_save(): names and fields that do not apply are written empty.
Written(c) ==
  [command |-> c.command,
   stdio   |-> [i \in 1..3 |-> [kind |-> c.stdio[i].kind,
                 name |-> IF c.stdio[i].kind = "file" THEN c.stdio[i].name ELSE Empty]],
   mode    |-> c.mode, continues |-> c.continues, interval |-> c.interval,
   fields  |-> IF c.mode = "cron" THEN c.fields ELSE Empty,
   options |-> c.options]

\* Redirections that program_config_load() does not take.
Unsuitable(i) == CASE i = 1 -> {"individual_log", "continuous_log", "stdout"}
                   [] i = 2 -> {"pipe", "stdout"}
                   [] i = 3 -> {"pipe"}

\* Faulty: only the redirections of stdin and stdout are checked.
LoadedStdioUnchecked(i, r) ==
  LET kind == IF \/ r.kind \notin Kind \/ (i # 3 /\ r.kind \in Unsuitable(i))
                 \/ (r.kind = "file" /\ r.name = Empty)
              THEN "dev_null" ELSE r.kind
  IN [kind |-> kind, name |-> IF kind = "file" THEN r.name ELSE None]

\* A name that is no redirection counts as the default, too.
LoadedStdio(i, r) ==
  LET kind == IF r.kind \notin Kind \ Unsuitable(i) \/ (r.kind = "file" /\ r.name = Empty)
              THEN "dev_null" ELSE r.kind
  IN [kind |-> kind, name |-> IF kind = "file" THEN r.name ELSE None]

LoadedMode(f) ==
  IF f.mode \notin Mode \/ (f.mode = "cron" /\ f.fields = Empty) THEN "never" ELSE f.mode

\* program_config_get_boolean(): FALSE where it is missing or no boolean
LoadedContinues(f) == IF f.continues \in Flag THEN f.continues ELSE "false"

\* program_config_get_integer(): 0 for an interval that is missing, negative or
\* no number (None), otherwise 64 bit, of which the configuration keeps 32.
LoadedInterval(f) == IF f.interval = None THEN 0 ELSE f.interval % IntervalLimit

\* program_config_load()
Loaded(f) ==
  [command |-> f.command,
   stdio   |-> [i \in 1..3 |-> LoadedStdio(i, f.stdio[i])],
   mode    |-> LoadedMode(f), continues |-> LoadedContinues(f), interval |-> LoadedInterval(f),
   fields  |-> IF LoadedMode(f) = "cron" THEN f.fields ELSE None,
   options |-> f.options]

\* It fails for an option whose name is too long.
Saves(c) ==
  /\ \A i \in DOMAIN c.options : c.options[i].name \notin LongName
  /\ file' = Written(c) /\ lost' = FALSE

Init ==
  /\ up = TRUE /\ program = "none" /\ config = Created /\ asked = {}
  /\ held = NoRefs /\ stray = NoRefs /\ lost = FALSE
  /\ directory = "none" /\ file = Written(Created)

-----------------------------------------------------------------------------
(* program_set_command(), program_set_stdio_redirection(),                 *)
(* program_set_schedule()                                                  *)

Changeable == up /\ program = "loaded"

\* Failed with the first n of the new texts acquired and k of them released.
FailedAfter(new, n, k) ==
  /\ held' = Release(Acquire(held, SubSeq(new, 1, n)), SubSeq(new, 1, k))
  /\ UNCHANGED <<up, program, config, asked, lost, disk>>

\* The working directory is checked before its phase is reached: it is
\* acquired and not released.
EmptyDirectory(c) ==
  /\ \A t \in Text : stray[t] < MaxStray
  /\ FailedAfter(c, 4, 3)
  /\ stray' = Acquire(stray, <<c[4]>>)

SetCommandFails(c) ==
  /\ Changeable
  /\ \/ /\ \/ \E k \in 1..4 : /\ k > 1 => c[1] # Empty
                              /\ FailedAfter(c, k - 1, k - 1)          \* a lookup
           \/ c[1] = Empty /\ FailedAfter(c, 1, 1)
           \/ c[1] # Empty /\ c[4] # Empty /\ FailedAfter(c, 4, 4)     \* the save
        /\ UNCHANGED stray
     \/ c[1] # Empty /\ c[4] = Empty /\ EmptyDirectory(c)

\* Faulty: the old objects are not released.
SetCommandKeepsOld(c) ==
  /\ Changeable /\ c[1] # Empty /\ c[4] # Empty
  /\ config' = [config EXCEPT !.command = c]
  /\ held' = Acquire(held, c)
  /\ asked' = asked \cup {"command"}
  /\ Saves(config')
  /\ UNCHANGED <<up, program, stray, directory>>

SetCommand(c) ==
  /\ Changeable /\ c[1] # Empty /\ c[4] # Empty
  /\ config' = [config EXCEPT !.command = c]
  /\ held' = Release(Acquire(held, c), config.command)
  /\ asked' = asked \cup {"command"}
  /\ Saves(config')
  /\ UNCHANGED <<up, program, stray, directory>>

\* The check of stderr looks at stdout, so stderr may be redirected to a pipe.
Refused(r) == r[1].kind \in Unsuitable(1) \/ r[2].kind \in Unsuitable(2)

\* The checks of the first n file names.
NamesGiven(r, n) == \A i \in 1..n : r[i].kind = "file" => r[i].name # Empty

SetStdioFails(r) ==
  /\ Changeable
  /\ \/ Refused(r) /\ FailedAfter(<<>>, 0, 0)
     \/ /\ ~ Refused(r)
        /\ \E k \in 1..3 :
             /\ NamesGiven(r, k - 1)
             /\ r[k].kind = "file"
             /\ \/ FailedAfter(FileNames(r), k - 1, k - 1)             \* the lookup
                \/ r[k].name = Empty /\ FailedAfter(FileNames(r), k, k)
     \/ /\ ~ Refused(r) /\ NamesGiven(r, 3)
        /\ FailedAfter(FileNames(r), 3, 3)                             \* the save
  /\ UNCHANGED stray

SetStdio(r) ==
  /\ Changeable /\ ~ Refused(r) /\ NamesGiven(r, 3)
  /\ config' = [config EXCEPT !.stdio =
       [i \in 1..3 |-> [r[i] EXCEPT !.name = IF r[i].kind = "file" THEN @ ELSE None]]]
  /\ held' = Release(Acquire(held, FileNames(r)), FileNames(config.stdio))
  /\ asked' = asked \cup {"stdio"}
  /\ Saves(config')
  /\ UNCHANGED <<up, program, stray, directory>>

\* Faulty: the backup is not put back when saving fails.
SetScheduleKeepsNew(s) ==
  /\ Changeable /\ s.interval >= 1 /\ s.mode # "cron"
  /\ config' = [config EXCEPT !.mode = s.mode, !.interval = s.interval, !.fields = None]
  /\ asked' = asked \cup {"schedule"}
  /\ held' = Release(held, Fields(config.mode, config.fields))
  /\ UNCHANGED <<up, program, stray, lost, disk>>

\* Faulty: the interval is not checked.
SetScheduleZero(s) ==
  /\ Changeable
  /\ s.mode = "cron" => s.fields # Empty
  /\ config' = [config EXCEPT !.mode = s.mode, !.continues = s.continues,
                              !.interval = s.interval,
                              !.fields = IF s.mode = "cron" THEN s.fields ELSE None]
  /\ held' = Release(Acquire(held, Fields(s.mode, s.fields)), Fields(config.mode, config.fields))
  /\ asked' = asked \cup {"schedule"}
  /\ Saves(config')
  /\ UNCHANGED <<up, program, stray, directory>>

SetScheduleFails(s) ==
  /\ Changeable
  /\ \/ FailedAfter(<<>>, 0, 0)                         \* the interval, or the lookup
     \/ s.interval >= 1 /\ LET new == Fields(s.mode, s.fields) IN
        FailedAfter(new, Len(new), Len(new))                           \* empty, or the save
  /\ UNCHANGED stray

SetSchedule(s) ==
  /\ Changeable /\ s.interval >= 1
  /\ s.mode = "cron" => s.fields # Empty
  /\ config' = [config EXCEPT !.mode = s.mode, !.continues = s.continues,
                              !.interval = s.interval,
                              !.fields = IF s.mode = "cron" THEN s.fields ELSE None]
  /\ held' = Release(Acquire(held, Fields(s.mode, s.fields)), Fields(config.mode, config.fields))
  /\ asked' = asked \cup {"schedule"}
  /\ Saves(config')
  /\ UNCHANGED <<up, program, stray, directory>>

-----------------------------------------------------------------------------
(* Custom options.  OptionInput gives each name a key, equal for names that *)
(* differ only in case.                                                     *)

\* program_find_custom_option(): 0 or the index of the option
FindOption(options, key) ==
  IF \E i \in DOMAIN options : options[i].key = key
  THEN CHOOSE i \in DOMAIN options : options[i].key = key
  ELSE 0

SetOptionFails(o) ==
  /\ Changeable
  /\ \/ FailedAfter(<<>>, 0, 0)
     \/ FailedAfter(<<o.value>>, 1, 1)                 \* appending, or saving a new value
     \/ FailedAfter(<<o.value, o.name>>, 2, 2)         \* saving a new option
  /\ UNCHANGED stray

SetOption(o) ==
  /\ Changeable
  /\ LET i == FindOption(config.options, o.key) IN
     IF i = 0
     THEN /\ Len(config.options) < MaxOptions
          /\ config' = [config EXCEPT !.options = Append(@, o)]
          /\ held' = Acquire(held, <<o.value, o.name>>)
     ELSE /\ config' = [config EXCEPT !.options[i].value = o.value]
          /\ held' = Release(Acquire(held, <<o.value>>), <<config.options[i].value>>)
  /\ Saves(config')
  /\ UNCHANGED <<up, program, asked, stray, directory>>

\* Saving without the option fails: it is put back, at the end; if that fails
\* too it is only in the file, and its references are never released.
RemoveOptionFails(o) ==
  /\ Changeable
  /\ LET i == FindOption(config.options, o.key)
         rest == RemoveAt(config.options, i) IN
     /\ i # 0
     /\ \/ /\ config' = [config EXCEPT !.options = Append(rest, config.options[i])]
           /\ UNCHANGED <<stray, lost>>
        \/ /\ \A t \in Text : stray[t] < MaxStray
           /\ config' = [config EXCEPT !.options = rest]
           /\ stray' = Acquire(stray, <<config.options[i].name, config.options[i].value>>)
           /\ lost' = TRUE
  /\ UNCHANGED <<up, program, asked, held, disk>>

RemoveOption(o) ==
  /\ Changeable
  /\ LET i == FindOption(config.options, o.key) IN
     /\ i # 0
     /\ config' = [config EXCEPT !.options = RemoveAt(@, i)]
     /\ held' = Release(held, <<config.options[i].name, config.options[i].value>>)
  /\ Saves(config')
  /\ UNCHANGED <<up, program, asked, stray, directory>>

-----------------------------------------------------------------------------
(* The program *)

\* program_define(): the new directory must not exist.
Define ==
  /\ up /\ program = "none" /\ directory = "none"
  /\ program' = "loaded" /\ config' = Created /\ asked' = {}
  /\ held' = Acquire(held, Uses(Created))
  /\ directory' = "full" /\ Saves(Created)
  /\ UNCHANGED <<up, stray>>

\* It fails after the directory was made.  rmdir() takes the directory away as
\* long as there is no file in it.
DefineFails ==
  /\ up /\ program = "none" /\ directory = "none"
  /\ directory' = "full" /\ file' = Written(Created)
  /\ UNCHANGED <<up, memory>>

\* The daemon dies between making the directory and writing the file.
CrashInDefine ==
  /\ up /\ program = "none" /\ directory = "none"
  /\ up' = FALSE /\ directory' = "bare"
  /\ held' = NoRefs /\ stray' = NoRefs
  /\ UNCHANGED <<program, config, asked, lost, file>>

\* program_purge() moves the directory away.
Purge ==
  /\ Changeable
  /\ program' = "purged" /\ directory' = "none"
  /\ UNCHANGED <<up, config, asked, held, stray, lost, file>>

\* program_destroy()
Free ==
  /\ up /\ program = "purged"
  /\ program' = "none" /\ config' = Created /\ asked' = {} /\ lost' = FALSE
  /\ held' = Release(held, Uses(config))
  /\ UNCHANGED <<up, stray, disk>>

\* The daemon ends, or dies.
Stop ==
  /\ up /\ up' = FALSE
  /\ program' = "none" /\ config' = Created /\ asked' = {} /\ lost' = FALSE
  /\ held' = NoRefs /\ stray' = NoRefs
  /\ UNCHANGED disk

\* inventory_load_programs(): a program without a file, or whose loading fails,
\* is left out.
Start ==
  /\ ~ up /\ up' = TRUE
  /\ \/ /\ directory = "full"
        /\ program' = "loaded" /\ config' = Loaded(file) /\ asked' = {}
        /\ held' = Acquire(held, Uses(Loaded(file)))
     \/ UNCHANGED <<program, config, asked, held>>
  /\ UNCHANGED <<stray, lost, disk>>

\* Somebody edits the file while the daemon is not running.
Edit ==
  /\ ~ up /\ directory = "full"
  /\ file' \in EditedFile
  /\ UNCHANGED <<up, memory, directory>>

Next ==
  \/ \E c \in CommandInput : SetCommand(c) \/ SetCommandFails(c)
  \/ \E r \in StdioInput : SetStdio(r) \/ SetStdioFails(r)
  \/ \E s \in ScheduleInput : SetSchedule(s) \/ SetScheduleFails(s)
  \/ \E o \in OptionInput : SetOption(o) \/ SetOptionFails(o) \/ RemoveOption(o) \/ RemoveOptionFails(o)
  \/ Define \/ DefineFails \/ CrashInDefine \/ Purge \/ Free \/ Stop \/ Start \/ Edit

Spec == Init /\ [][Next]_vars

-----------------------------------------------------------------------------
(* Properties *)

Redirection == [kind : Kind, name : Text \cup {None}]

ConfigTyped(c) ==
  /\ c.command \in [1..4 -> Text]
  /\ c.stdio \in [1..3 -> Redirection]
  /\ c.mode \in Mode /\ c.continues \in Flag
  /\ c.interval \in 0..IntervalLimit - 1 /\ c.fields \in Text \cup {None}
  /\ Len(c.options) <= MaxOptions
  /\ \A i \in DOMAIN c.options : {c.options[i].name, c.options[i].value} \subseteq Text

TypeOK ==
  /\ {up, lost} \subseteq BOOLEAN
  /\ program \in {"none", "loaded", "purged"} /\ directory \in {"none", "bare", "full"}
  /\ ConfigTyped(config) /\ ConfigTyped(Loaded(file))
  /\ asked \subseteq {"command", "stdio", "schedule"}
  /\ held \in [Text -> Nat] /\ stray \in [Text -> Nat]

\* On every path of every operation the references of a program are exactly
\* those of its configuration, plus the two known leaks: the empty working
\* directory of program_set_command() and an option whose removal failed twice.
ReferencesExact ==
  /\ TypeOK
  /\ held = Acquire(stray, IF program = "none" THEN <<>> ELSE Uses(config))

SameOptions(a, b) == {a[i] : i \in DOMAIN a} = {b[i] : i \in DOMAIN b} /\ Len(a) = Len(b)

\* The file says what the program does: loading it now gives the configuration
\* in memory, also after operations that failed halfway, so that a crash at any
\* time loses nothing.  Options may come in another order, an option may be lost
\* from memory, and a redirection of stderr to a pipe, which the operations
\* accept, does not survive.
FileIsMemory ==
  (program = "loaded" /\ ~ lost) =>
    LET again == Loaded(file) IN
    /\ directory = "full"
    /\ again.command = config.command
    /\ again.mode = config.mode /\ again.fields = config.fields
    /\ again.interval = config.interval /\ again.continues = config.continues
    /\ \A i \in 1..3 : \/ again.stdio[i] = config.stdio[i]
                       \/ i = 3 /\ config.stdio[3].kind = "pipe"
    /\ SameOptions(again.options, config.options)

\* What is in memory can be used, wherever it comes from: a redirection to a
\* file has a name, cron fields are there, no two options have names that differ
\* only in case.  What the load refuses is never there because of the file: a
\* stream that the scheduler cannot redirect so is the stderr pipe that
\* program_set_stdio_redirection() lets users ask for (program.c:902 checks
\* stdout), and it is gone after the next load.  What the operations refuse is
\* never there because of a user, and only because of the file: an interval of
\* zero, with which a schedule runs and never fires, an empty executable, an
\* empty working directory.
ConfigUsable ==
  program = "loaded" =>
    /\ \A i \in 1..3 : config.stdio[i].kind = "file" <=> config.stdio[i].name \in Text
    /\ \A i \in 1..3 : config.stdio[i].name # Empty
    /\ config.mode = "cron" => config.fields \in Text \ {Empty}
    /\ OneOfAKind(config.options)
    /\ \A i \in 1..3 : config.stdio[i].kind \in Unsuitable(i) => i = 3 /\ "stdio" \in asked
    /\ "command" \in asked => config.command[1] # Empty /\ config.command[4] # Empty
    /\ "schedule" \in asked => config.interval >= 1
=============================================================================
