----------------------------- MODULE HttpService ------------------------------
(***************************************************************************)
(* From the bytes of one connection to its responses: HttpContext.tla      *)
(* parses, and the task main() hands to the ThreadPool answers, in one of  *)
(* several workers, with Router (reactor/src/Router.cpp) and               *)
(* StaticFileHandler (reactor/src/StaticFileHandler.cpp).                  *)
(*                                                                         *)
(* The files change while the server runs, so each call that looks at the  *)
(* disk is a step: realpath, stat, and the reading of the file.            *)
(***************************************************************************)
EXTENDS HttpContext, FiniteSets

CONSTANTS Workers,      \* the threads of the ThreadPool
          Routes,       \* what addRoute was called with: <<method, path>>
          Directories,  \* the paths of directories; BOUND: they stay where they are
          IndexOf,      \* the file that such a path and "index.html" spell, with no
                        \* "/" between them
          WithinRoot,   \* the paths whose realpath begins with the characters of
                        \* rootDirAbs_; a name that continues the root's does so too
          Site,         \* the files that are there at first, all of them small
          MaxChanges    \* BOUND: changes of files

Files == Paths \ Directories

ASSUME SiteAssumption ==
    /\ Routes \subseteq Methods \X Paths
    /\ "" \notin Paths
    /\ Directories \subseteq Paths /\ IndexOf \in [Directories -> Files]
    /\ WithinRoot \subseteq Paths /\ Site \subseteq Files /\ MaxChanges \in Nat

VARIABLES
    disk,     \* disk[f]: the file f
    changes,  \* how often a file has changed
    taken,    \* the requests workers have taken from tasks_
    job       \* what each worker is at

serviceVars == <<disk, changes, taken, job>>
allVars     == <<vars, serviceVars>>

FileStates == {"absent", "small", "big", "unreadable"}

\* to is the number of the task; saw are the states of its file since it began.
Idle == [phase |-> "idle", to |-> 0, saw |-> {}]

ServiceInit ==
    /\ Init
    /\ disk = [f \in Files |-> IF f \in Site THEN "small" ELSE "absent"]
    /\ changes = 0
    /\ taken = 0 /\ job = [w \in Workers |-> Idle]

\* The request of task k: without its request line it has no method and no path.
HasRequestLine(k) == \E t \in served[k] : t.part = "line"
Shaped(k) == sent[(CHOOSE t \in served[k] : t.part = "line").req]
Method(k) == IF HasRequestLine(k) THEN Shaped(k).method ELSE "kInvalid"
Path(k)   == IF HasRequestLine(k) THEN Shaped(k).path   ELSE ""

\* The file that is looked for.
File(k) == IF Path(k) \in Directories THEN IndexOf[Path(k)] ELSE Path(k)

-------------------------------------------------------------------------------
(* The task, step by step. *)

At(w, phase) == job[w].phase = phase
Goes(w, phase) == job' = [job EXCEPT ![w].phase = phase]

\* The response is handed to send() by way of queueInLoop().
Answer(w, response) ==
    /\ responses' = Append(responses, response)
    /\ job' = [job EXCEPT ![w] = Idle]

Found(w, body) == Answer(w, [to |-> job[w].to, code |-> 200, body |-> body])
NotFound(w) == Answer(w, Error(job[w].to, 404))

Unanswering == UNCHANGED responses

\* Mistake: the task is moved out of tasks_ but not popped.
TakeTaskKeeps(w) ==
    /\ At(w, "idle") /\ taken < Len(served)
    /\ job' = [job EXCEPT ![w] =
                  [phase |-> "route", to |-> taken + 1,
                   saw |-> IF HasRequestLine(taken + 1) THEN {disk[File(taken + 1)]} ELSE {}]]
    /\ UNCHANGED taken /\ Unanswering

TakeTask(w) ==
    /\ At(w, "idle") /\ taken < Len(served)
    /\ taken' = taken + 1
    /\ job' = [job EXCEPT ![w] =
                  [phase |-> "route", to |-> taken + 1,
                   saw |-> IF HasRequestLine(taken + 1) THEN {disk[File(taken + 1)]} ELSE {}]]
    /\ Unanswering

Route(w) ==
    /\ At(w, "route")
    /\ IF <<Method(job[w].to), Path(job[w].to)>> \in Routes
       THEN Found(w, "text")
       ELSE Goes(w, "resolve") /\ Unanswering
    /\ UNCHANGED taken

\* handle() returns false for the method, or there is nothing at the path.
Declines(k) == Method(k) \notin {"kGet", "kHead"}
Missing(k) == Path(k) \notin Directories /\ disk[Path(k)] = "absent"
\* A directory is answered with its index.html.
AfterRoot(k) == IF Path(k) \in Directories THEN "index" ELSE "stat"

\* Mistake: handle() does not ask isWithinRoot.
ResolveAnywhere(w) ==
    LET k == job[w].to IN
    /\ At(w, "resolve")
    /\ IF Declines(k) \/ Missing(k)
       THEN NotFound(w)
       ELSE Goes(w, AfterRoot(k)) /\ Unanswering
    /\ UNCHANGED taken

\* The method, realpath of the path, isWithinRoot, and whether it is a directory.
Resolve(w) ==
    LET k == job[w].to IN
    /\ At(w, "resolve")
    /\ IF Declines(k) \/ Missing(k)
       THEN NotFound(w)
       ELSE IF Path(k) \notin WithinRoot
       THEN Answer(w, Error(k, 403))
       ELSE Goes(w, AfterRoot(k)) /\ Unanswering
    /\ UNCHANGED taken

\* realpath of filepath + "index.html", and isWithinRoot.
Index(w) ==
    LET f == File(job[w].to) IN
    /\ At(w, "index")
    /\ IF disk[f] = "absent"
       THEN NotFound(w)
       ELSE IF f \notin WithinRoot
       THEN Answer(w, Error(job[w].to, 403))
       ELSE Goes(w, "stat") /\ Unanswering
    /\ UNCHANGED taken

Stat(w) ==
    /\ At(w, "stat")
    /\ CASE disk[File(job[w].to)] = "absent" -> NotFound(w)
         [] disk[File(job[w].to)] = "big"    -> Answer(w, Error(job[w].to, 413))
         [] OTHER -> Goes(w, "read") /\ Unanswering
    /\ UNCHANGED taken

\* readFile: what cannot be read, or has become too big, is an empty string.
ReadFile(w) ==
    /\ At(w, "read")
    /\ Found(w, IF disk[File(job[w].to)] = "small" THEN "file" ELSE "")
    /\ UNCHANGED taken

Task(w) ==
    /\ TakeTask(w) \/ Route(w) \/ Resolve(w) \/ Index(w) \/ Stat(w) \/ ReadFile(w)
    /\ UNCHANGED <<clientVars, buf, ctxVars, parsing, req, served, fate, disk, changes>>

\* Somebody replaces, removes or protects a file.
\* BOUND: one that a task is looking for.
LooksFor(w, f) == job[w] # Idle /\ File(job[w].to) = f

FileChanges(f, new) ==
    /\ changes < MaxChanges /\ new # disk[f]
    /\ \E w \in Workers : LooksFor(w, f)
    /\ disk' = [disk EXCEPT ![f] = new] /\ changes' = changes + 1
    /\ job' = [w \in Workers |->
                  IF LooksFor(w, f) THEN [job[w] EXCEPT !.saw = @ \cup {new}] ELSE job[w]]
    /\ UNCHANGED <<vars, taken>>

-------------------------------------------------------------------------------
ServiceNext ==
    \/ Next /\ UNCHANGED serviceVars
    \/ \E w \in Workers : Task(w)
    \/ \E f \in Files, new \in FileStates : FileChanges(f, new)

\* The loop thread and the workers run and TCP delivers; the client need not send.
ServiceSpec ==
    /\ ServiceInit /\ [][ServiceNext]_allVars
    /\ WF_allVars(Parse /\ UNCHANGED serviceVars)
    /\ WF_allVars(Arrive /\ UNCHANGED serviceVars)
    /\ \A w \in Workers : WF_allVars(Task(w))

-------------------------------------------------------------------------------
(* Properties. *)

\* The type invariant.
ServiceTypeOK ==
    /\ TypeOK
    /\ disk \in [Files -> FileStates] /\ changes \in 0 .. MaxChanges
    /\ taken \in 0 .. Len(served)
    /\ job \in [Workers -> [phase : {"idle", "route", "resolve", "index", "stat", "read"},
                            to : 0 .. taken, saw : SUBSET FileStates]]

\* A client that waits for each response before it sends the next request gets
\* the responses of the workers in the order of its requests, as long as no header
\* line of it reads as a request line.
AnswersInOrder ==
    Conforming /\ ~piped => \A i, j \in 1 .. Len(responses) :
        i < j /\ responses[j].to # 0 => responses[i].to < responses[j].to

\* A client that waits gets a response, or is disconnected, every time.
EachAnswered == (Unanswered /\ ~piped) ~> (~Unanswered \/ piped \/ fate # "open")

\* handle() answers with what isWithinRoot let through.
Allowed(k) == {Path(k), File(k)} \subseteq WithinRoot

\* What a response says of a file, the file was while the request was handled,
\* however realpath, stat and readFile fall between the changes of the disk;
\* and a file is sent only if isWithinRoot says so of the path and of the file.  A
\* POST that has no route is 404 as well, in the code.
AnswerExplained ==
    [][\A w \in Workers : Task(w) /\ responses' # responses =>
         LET answer == responses'[Len(responses')]
             k      == job[w].to
         IN HasRequestLine(k) /\ answer.body # "text" =>
            /\ Allowed(k) \/ answer.code \in {403, 404}
            /\ \/ answer.code = 403 /\ ~Allowed(k)
               \/ answer.code = 404 /\ (Method(k) = "kPost" \/ "absent" \in job[w].saw)
               \/ answer.code = 413 /\ "big" \in job[w].saw
               \/ answer.body = "file" /\ "small" \in job[w].saw
               \/ answer.body = "" /\ job[w].saw # {"small"}]_allVars

\* "curl -X POST http://localhost:8080/ # 405 Method Not Allowed": a path that has
\* a route for GET only answers 405 to a POST.  The code does not keep this: it
\* answers 404.
PostNotAllowed ==
    [][\A w \in Workers : Task(w) /\ responses' # responses =>
         LET k == job[w].to IN
         Method(k) = "kPost" /\ <<"kGet", Path(k)>> \in Routes /\ <<"kPost", Path(k)>> \notin Routes
            => responses'[Len(responses')].code = 405]_allVars
===============================================================================
