---------------------------- MODULE MCHttpService -----------------------------
(* Instances of HttpService for TLC. *)
EXTENDS HttpService

\* The root with its index.html and a file; /sub with an index.html of its own,
\* asked for without the "/"; /out/ whose index.html is a link that leads out of
\* the root; the directory above the root, and a file next to the root.
MCPaths == {"/", "/index.html", "/f", "/sub", "/subindex.html", "/sub/index.html",
            "/out/", "/out/index.html", "/..", "/..index.html", "/../x"}

MCRoutes == {<<"kGet", "/">>}

MCIndexOf == [p \in {"/", "/sub", "/out/", "/.."} |->
                 CASE p = "/"     -> "/index.html"
                   [] p = "/sub"  -> "/subindex.html"
                   [] p = "/out/" -> "/out/index.html"
                   [] p = "/.."   -> "/..index.html"]

MCWithinRoot == MCPaths \ {"/out/index.html", "/..", "/../x"}

MCSite == {"/index.html", "/f", "/sub/index.html", "/out/index.html", "/../x"}

S(line, method, path, headers, body) ==
    [line |-> line, method |-> method, path |-> path, headers |-> headers, body |-> body]

Get(path) == S("ok", "kGet", path, <<>>, 0)

Malformed(line, headers) == S(line, "kGet", "/f", headers, 0)

\* Every outcome of the parser, every method, and every kind of path.
EveryKind ==
    {Malformed("method", <<"plain">>), Malformed("version", <<"broken">>),
     Malformed("bad", <<>>), Malformed("method", <<"alike">>),
     Malformed("version", <<"alikeBroken">>),
     S("ok", "kGet", "/", <<"alikeBroken">>, 0), S("ok", "kGet", "/", <<"notANumber">>, 0),
     S("ok", "kGet", "/", <<"plain">>, 0), S("ok", "kPost", "/", <<"length">>, 2),
     S("ok", "kHead", "/", <<>>, 0)}
      \cup {Get(p) : p \in {"/f", "/sub", "/out/", "/..", "/../x"}}

\* A request as curl sends it.
PlainGet == {S("ok", "kGet", "/", <<"plain">>, 0)}

\* The index.html that a directory has.
OwnIndex == [p \in {"/", "/sub"} |-> IF p = "/" THEN "/index.html" ELSE "/sub/index.html"]

\* "directory -> index.html": GET of a directory without a route, whose index.html
\* is there, is answered with a file.  The code does not keep this: without the
\* final "/" it looks for another file.
DirectoryServesIndex ==
    [][\A w \in Workers : Task(w) /\ responses' # responses =>
         LET p == Path(job[w].to) IN
         /\ Method(job[w].to) = "kGet" /\ p \in DOMAIN OwnIndex /\ <<"kGet", p>> \notin Routes
         /\ disk[OwnIndex[p]] = "small"
            => responses'[Len(responses')].body = "file"]_allVars
===============================================================================
