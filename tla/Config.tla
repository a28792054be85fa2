-------------------------------- MODULE Config --------------------------------
(***************************************************************************)
(* ServerConfig and ConfigParser (reactor/src/Config.cpp): the command     *)
(* line is read twice, first for the files it names, then for the options. *)
(* A word is a string; a file is its lines that hold an '=', as the key    *)
(* and the value around it, trimmed.  Settings that no option and no key,  *)
(* of the parser or of the documentation, is about are left out.           *)
(***************************************************************************)
EXTENDS Integers, Sequences, FiniteSetsExt, SequencesExt

CONSTANTS Files,    \* the files that can be opened: Files[name] is their lines
          Numbers   \* the words that are numbers: Numbers[word] \in Int

ASSUME FilesAssumption ==
    \A name \in DOMAIN Files : Files[name] \in Seq([key : STRING, value : STRING])

NoField == "none"

Default ==
    [port |-> 8080, ioThreads |-> 4, workerThreads |-> 4, staticDir |-> "./static",
     maxFileSizeMB |-> 10, connectionTimeoutSec |-> 10, logLevel |-> "INFO",
     listenBacklog |-> 4096, maxConnections |-> 10000]

\* What the options and the keys of a file set; --config sets no field.
Option ==
    [word \in {"--config", "-c", "--port", "-p", "--io", "-i", "--workers", "-w",
               "--static-dir", "-d", "--max-file-size", "--timeout", "-t", "--log-level"} |->
        CASE word \in {"--config", "-c"}     -> NoField
          [] word \in {"--port", "-p"}       -> "port"
          [] word \in {"--io", "-i"}         -> "ioThreads"
          [] word \in {"--workers", "-w"}    -> "workerThreads"
          [] word \in {"--static-dir", "-d"} -> "staticDir"
          [] word = "--max-file-size"        -> "maxFileSizeMB"
          [] word \in {"--timeout", "-t"}    -> "connectionTimeoutSec"
          [] word = "--log-level"            -> "logLevel"]

FileKey ==
    [key \in {"port", "timeout", "log-level", "io_threads", "worker_threads",
              "static_dir", "max_file_size"} |->
        CASE key = "port"           -> "port"
          [] key = "timeout"        -> "connectionTimeoutSec"
          [] key = "log-level"      -> "logLevel"
          [] key = "io_threads"     -> "ioThreads"
          [] key = "worker_threads" -> "workerThreads"
          [] key = "static_dir"     -> "staticDir"
          [] key = "max_file_size"  -> "maxFileSizeMB"]

NamesFile(word) == word \in DOMAIN Option /\ Option[word] = NoField

Atoi(word) == IF word \in DOMAIN Numbers THEN Numbers[word] ELSE 0

\* Stands for the size_t a negative int is converted to.
Huge == 2147483647

\* The text as the type of the field: uint16_t, size_t, int64_t or a string.
Converted(field, word) ==
    CASE field = "port" -> Atoi(word) % 65536
      [] field \in {"ioThreads", "workerThreads", "maxFileSizeMB", "maxConnections"} ->
            IF Atoi(word) < 0 THEN Huge ELSE Atoi(word)
      [] field \in {"connectionTimeoutSec", "listenBacklog"} -> Atoi(word)
      [] OTHER -> word

With(cfg, field, word) ==
    IF field = NoField THEN cfg ELSE [cfg EXCEPT ![field] = Converted(field, word)]

-------------------------------------------------------------------------------
(* The parser.  Its loops are functions of the number of turns. *)

\* A line of a file: a key that is not known is passed over.
TakeLine(cfg, line) ==
    IF line.key \in DOMAIN FileKey THEN With(cfg, FileKey[line.key], line.value) ELSE cfg

LinesOf(name) == IF name \in DOMAIN Files THEN Files[name] ELSE <<>>

LoadFromFile(cfg, name) ==
    LET after[j \in 0 .. Len(LinesOf(name))] ==
          IF j = 0 THEN cfg ELSE TakeLine(after[j - 1], LinesOf(name)[j])
    IN  after[Len(LinesOf(name))]

\* The first pass knows only --config; what other options take is looked at too.
FirstWord(pass, word) ==
    IF pass.expects
    THEN [cfg |-> LoadFromFile(pass.cfg, word), expects |-> FALSE]
    ELSE [cfg |-> pass.cfg, expects |-> NamesFile(word)]

FirstPass(argv) ==
    LET after[i \in 0 .. Len(argv)] ==
          IF i = 0 THEN [cfg |-> Default, expects |-> FALSE]
          ELSE FirstWord(after[i - 1], argv[i])
    IN  after[Len(argv)].cfg

\* The second pass returns at --help and at a word it does not know.  A value
\* that is missing at the end is not missed.
SecondWord(pass, word) ==
    CASE ~pass.ok -> pass
      [] pass.ok /\ pass.wants # "" ->
            [ok |-> TRUE, wants |-> "", cfg |-> With(pass.cfg, pass.wants, word)]
      [] OTHER ->
            IF word \in DOMAIN Option
            THEN [ok |-> TRUE, wants |-> Option[word], cfg |-> pass.cfg]
            ELSE [ok |-> FALSE, wants |-> "", cfg |-> pass.cfg]

SecondPass(cfg, argv) ==
    LET after[i \in 0 .. Len(argv)] ==
          IF i = 0 THEN [ok |-> TRUE, wants |-> "", cfg |-> cfg]
          ELSE SecondWord(after[i - 1], argv[i])
    IN  after[Len(argv)]

\* Mistake: one pass, in which a file takes effect where it is named.
ParseOnce(argv) ==
    LET Word(pass, word) ==
          IF pass.ok /\ pass.wants = NoField
          THEN [ok |-> TRUE, wants |-> "", cfg |-> LoadFromFile(pass.cfg, word)]
          ELSE SecondWord(pass, word)
    IN  FoldLeft(Word, [ok |-> TRUE, wants |-> "", cfg |-> Default], argv)

\* parse(): whether the program goes on, and with which settings.
Parse(argv) == SecondPass(FirstPass(argv), argv)

-------------------------------------------------------------------------------
(* What a user is told of the options and the keys, and what of it is so. *)

\* The options that printHelp() lists with a value.
HelpOption ==
    [word \in {"-c", "--config", "-p", "--port", "-t", "--timeout", "--log-level", "-i",
               "--io", "-w", "--worker", "-d", "--static-dir", "-m", "--max-file-size"} |->
        CASE word \in {"-c", "--config"}        -> NoField
          [] word \in {"-p", "--port"}          -> "port"
          [] word \in {"-t", "--timeout"}       -> "connectionTimeoutSec"
          [] word = "--log-level"               -> "logLevel"
          [] word \in {"-i", "--io"}            -> "ioThreads"
          [] word \in {"-w", "--worker"}        -> "workerThreads"
          [] word \in {"-d", "--static-dir"}    -> "staticDir"
          [] word \in {"-m", "--max-file-size"} -> "maxFileSizeMB"]

\* Two of them are refused; one of these has another name.
TrueOption ==
    [word \in (DOMAIN HelpOption \ {"--worker", "-m"}) \cup {"--workers"} |->
        IF word = "--workers" THEN "workerThreads" ELSE HelpOption[word]]

\* The keys of the example of a file in reactor/README.md.
DocumentedKey ==
    [key \in {"port", "io_threads", "worker_threads", "static_dir", "timeout", "log_level",
              "max_file_size", "listen_backlog", "max_connections"} |->
        CASE key = "port"            -> "port"
          [] key = "io_threads"      -> "ioThreads"
          [] key = "worker_threads"  -> "workerThreads"
          [] key = "static_dir"      -> "staticDir"
          [] key = "timeout"         -> "connectionTimeoutSec"
          [] key = "log_level"       -> "logLevel"
          [] key = "max_file_size"   -> "maxFileSizeMB"
          [] key = "listen_backlog"  -> "listenBacklog"
          [] key = "max_connections" -> "maxConnections"]

\* Three of them have no effect; one of these has another name.
TrueKey ==
    [key \in (DOMAIN DocumentedKey \ {"log_level", "listen_backlog", "max_connections"})
                 \cup {"log-level"} |->
        IF key = "log-level" THEN "logLevel" ELSE DocumentedKey[key]]

-------------------------------------------------------------------------------
(* What a command line means, said without passes. *)

\* Every other word is an option; what follows is its value.
Accepted(argv) == \A i \in DOMAIN argv : i % 2 = 1 => argv[i] \in DOMAIN TrueOption

\* No value looks like --config, but for the name of a file.
Plain(argv) ==
    \A i \in DOMAIN argv : i % 2 = 0 /\ NamesFile(argv[i]) => NamesFile(argv[i - 1])

\* Where the options are that have a value, and the lines of a file that set field.
Options(argv) == {i \in DOMAIN argv : i % 2 = 1 /\ i < Len(argv)}

LinesFor(field, name) ==
    {j \in DOMAIN LinesOf(name) : /\ LinesOf(name)[j].key \in DOMAIN TrueKey
                                  /\ TrueKey[LinesOf(name)[j].key] = field}

\* A field has the last value an option gives it, else the last line about it in the
\* last file that has one, else its default.
Meaning(argv) ==
    [field \in DOMAIN Default |->
        LET given == {i \in Options(argv) : TrueOption[argv[i]] = field}
            files == {i \in Options(argv) : /\ NamesFile(argv[i])
                                            /\ LinesFor(field, argv[i + 1]) # {}}
            file  == argv[Max(files) + 1]
        IN  IF given # {} THEN Converted(field, argv[Max(given) + 1])
            ELSE IF files # {}
                 THEN Converted(field, LinesOf(file)[Max(LinesFor(field, file))].value)
            ELSE Default[field]]
===============================================================================
