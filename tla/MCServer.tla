------------------------------- MODULE MCServer -------------------------------
(* Values for the constants of Server. *)
EXTENDS Server

TwoLoops == 2
Threads  == 0 .. 2

ConfFiles ==
    [f \in {"a.conf"} |-> <<[key |-> "port", value |-> "9090"],
                           [key |-> "io_threads", value |-> "2"],
                           [key |-> "log_level", value |-> "INFO"]>>]
 @@ [f \in {"b.conf"} |-> <<[key |-> "port", value |-> "90000"],
                           [key |-> "log-level", value |-> "WARN"],
                           [key |-> "max_connections", value |-> "2"],
                           [key |-> "port", value |-> "-1"]>>]

Amounts == [n \in {"0", "1", "2", "-1", "9090", "90000"} |->
              CASE n = "0" -> 0 [] n = "1" -> 1 [] n = "2" -> 2 [] n = "-1" -> -1
                [] n = "9090" -> 9090 [] n = "90000" -> 90000]

\* Options with their values, in any order and number up to three; any words; and
\* the lines with which the server goes on, without and with I/O threads.
Pairs ==
    {"-c", "--config", "-d"} \X {"a.conf", "b.conf"}
      \cup {"-p", "--port", "-i", "-t", "--max-file-size", "--log-level"} \X {"-1", "90000"}

Words == {"-p", "-c", "-h", "--worker", "-m", "a.conf", "1"}

Lines ==
    {FlattenSeq(s) : s \in UNION {[1 .. n -> Pairs] : n \in 0 .. 3}}
      \cup UNION {[1 .. n -> Words] : n \in 1 .. 4}
      \cup {<<"-w", "2", "-i", "0">>, <<"-c", "a.conf", "--workers", "2">>}

FewLines == {<<"-w", "2", "-i", "0">>, <<"-w", "2", "-i", "1">>}
===============================================================================
