--------------------------- MODULE MCPluginPackage ---------------------------
(***************************************************************************)
(* PluginPackage for TLC: a package with nothing wrong, and every package  *)
(* that differs from it in one part.                                       *)
(***************************************************************************)
EXTENDS PluginPackage

With(f, k, v) == [x \in DOMAIN f \cup {k} |-> IF x = k THEN v ELSE f[x]]
Without(f, k) == [x \in DOMAIN f \ {k} |-> f[x]]
Upto(S, n) == UNION {[1..m -> S] : m \in 0..n}
Many(c, n) == [i \in 1..n |-> c]

(* Lines of a body: headings of two levels, cut levels and glued ones,        *)
(* underlines, fences of two kinds and lengths, links in text and in headings *)
L(deep, mark, run, glued, text, link) ==
  [deep |-> deep, mark |-> mark, run |-> run, glued |-> glued, text |-> text, link |-> link]
MCLines ==
  {L(FALSE, Blank, 0, FALSE, "", FALSE), L(FALSE, Word, 1, FALSE, "a", FALSE),
   L(FALSE, Word, 1, FALSE, "a1", TRUE),
   L(FALSE, "#", 1, FALSE, "a", FALSE), L(FALSE, "#", 2, FALSE, "a", FALSE),
   L(FALSE, "#", 257, FALSE, "a1", TRUE), L(FALSE, "#", 2, TRUE, "a", FALSE),
   L(FALSE, "=", 2, FALSE, "", FALSE), L(FALSE, "-", 1, FALSE, "", FALSE),
   L(FALSE, "tick", 3, FALSE, "", FALSE), L(FALSE, "tick", 4, FALSE, "a", TRUE),
   L(FALSE, "tilde", 3, FALSE, "", FALSE), L(TRUE, "tick", 3, FALSE, "", FALSE)}
MCTexts == {"a", "a1"}
MCBase == [t \in {"a", "a1", ""} |->
             CASE t = "a" -> <<-1>> [] t = "a1" -> <<-1, 1>> [] t = "" -> <<-2>>]

Loc(kind, holds) == [kind |-> kind, inside |-> "inside", readable |-> TRUE, holds |-> holds]
Bad(loc) == {[loc EXCEPT !.kind = k] : k \in Kinds} \cup {[loc EXCEPT !.inside = r] : r \in Resolutions}
            \cup {[loc EXCEPT !.readable = FALSE]}

Fields == [x \in {"$schema", "name"} |-> IF x = "name" THEN Text(<<"a">>) ELSE Text(PluginSchema)]
Yaml == [x \in {"name", "description"} |->
           IF x = "name" THEN Text(<<"a">>) ELSE Text([blank |-> FALSE, length |-> 5])]
Md(yaml) == [utf8 |-> TRUE, lines |-> <<"---", "x", "---", "", "x">>, yaml |-> yaml]
Skill(name) == [name |-> name, text |-> TRUE, kind |-> "directory",
                file |-> Loc("file", Md(Object(With(Yaml, "name", Text(name)))))]
Stdio == [x \in {"type", "command"} |-> IF x = "type" THEN Text("stdio") ELSE Text(<<"a">>)]
Mcp(servers) == Object([x \in {"$schema", "mcpServers"} |->
                          IF x = "$schema" THEN Text(McpSchema) ELSE Object(servers)])
One(server) == [n \in {"s", "t"} |-> IF n = "s" THEN server ELSE Object(Stdio)]

Good == [root |-> [named |-> TRUE, there |-> TRUE],
         manifest |-> Loc("file", Object(Fields)),
         skills |-> Loc("directory", {}),
         children |-> <<Skill(<<"a">>), Skill(<<"b">>)>>,
         mcp |-> Loc("file", Mcp(One(Object(Stdio))))]

(* Manifests *)
Lone(k) == {Object([x \in {k} |-> Text("t")]), Object([x \in {k} |-> Scalar("integer")])}
Values == {Text("t"), Scalar("integer"), List(<<>>), List(<<Text("t"), Scalar("null")>>)}
          \cup Lone("name") \cup Lone("other")
Names == Upto({"a", "-", ".", "e'"}, 3) \cup {Many("a", 64), Many("a", 65)}
Manifests ==
  {Broken, List(<<>>), Object(Without(Fields, "name")), Object(Without(Fields, "$schema")),
   Object(With(Fields, "$schema", Text("plugin 2.0.0"))), Object(With(Fields, "name", List(<<>>)))}
  \cup {Object(With(Fields, "name", Text(n))) : n \in Names}
  \cup {Object(With(Fields, k, v)) :
          k \in {"version", "author", "keywords", "extensions", "other"}, v \in Values}
Declaring == {[Good EXCEPT !.manifest.holds = doc] : doc \in Manifests}

(* Skills *)
Lengths == {[blank |-> b, length |-> n] : b \in BOOLEAN, n \in {0, 500, 501, 1024, 1025}}
Mappings == {Object([k \in {Text("v")} |-> Scalar(s)]) : s \in {"integer", "boolean", "null"}}
            \cup {Object([k \in {Scalar(s)} |-> Text("v")]) : s \in {"integer", "null"}}
Yamls ==
  {Broken, List(<<>>), Object(Without(Yaml, "name")), Object(Without(Yaml, "description")),
   Object(With(Yaml, "name", Scalar("integer"))), Object(With(Yaml, "other", Text("t")))}
  \cup {Object(With(Yaml, k, Text(l))) : k \in {"description", "compatibility"}, l \in Lengths}
  \cup {Object(With(Yaml, "metadata", v)) : v \in Mappings \cup {Text("t")}}
Files ==
  {Md(yaml) : yaml \in Yamls} \cup {[Md(Object(Yaml)) EXCEPT !.utf8 = FALSE]}
  \cup {[Md(Object(Yaml)) EXCEPT !.lines = ls] : ls \in Upto({"---", "x"}, 3)}
Describing ==
  {[Good EXCEPT !.children[1].file.holds = file] : file \in Files}
  \cup {[Good EXCEPT !.children[1] = Skill(n)] : n \in Names}

(* Servers *)
AllUrls == [scheme : {"http", "https", "other"}, fragment : {FALSE}, userinfo : {FALSE},
            host : {"", "localhost", "loopback ip", "far"}, port : {"none", "digits", "empty", "bad"},
            bracket : BOOLEAN, split : BOOLEAN]
\* What is cut lies behind `http://`, or in what is neither scheme.
Urls == {u \in AllUrls : u.split => u.scheme = "other" \/ (u.scheme = "http" /\ u.host = "far" /\ ~u.bracket)}
Split == CHOOSE u \in Urls : u.split
Url == CHOOSE u \in Urls : UrlOK(u)
Remote(t, url) == Object([x \in {"type", "url"} |-> IF x = "type" THEN Text(t) ELSE Text(url)])
Header(w, up, ok) == [letters |-> w, capitals |-> up, legal |-> ok]
Headers == {[h \in hs |-> v] :
              hs \in SUBSET {Header("x", FALSE, TRUE), Header("x", TRUE, TRUE), Header("y", TRUE, FALSE)},
              v \in {Text("legal"), Text("control"), Scalar("integer")}}
Entries ==
  {List(<<>>), Object(Without(Stdio, "type")), Object(Without(Stdio, "command")),
   Object(With(Stdio, "type", List(<<>>))), Object(With(Stdio, "type", Text("pipe"))),
   Object(With(Stdio, "url", Text(Url))), Object(With(Stdio, "args", List(<<Text("t")>>))),
   Object(With(Stdio, "args", List(<<Scalar("null")>>))), Object(With(Stdio, "command", List(<<>>)))}
  \cup {Object(With(Stdio, "env", Object([k \in {e} |-> Text("t")]))) : e \in {"PATH", "PLUGIN_DATA"}}
  \cup {Object(With(Stdio, "command", Text(s))) : s \in Upto({".", "..", "/", "a"}, 5) \cup {<<"a", "\\">>}}
  \cup {Object(With(Stdio, "cwd", Text(<<".", "/">> \o s))) : s \in Upto({"..", "/", "a", "DATA"}, 3)}
  \cup {Object(With(Stdio, "cwd", Text(<<"ROOT">> \o s))) : s \in Upto({"..", "/", "a", "DATA"}, 4)}
  \cup {Remote("sse", u) : u \in Urls}
  \cup {Remote("streamable-http", [Url EXCEPT !.fragment = TRUE]),
        Remote("streamable-http", [Url EXCEPT !.userinfo = TRUE]),
        Remote("streamable-http", [Split EXCEPT !.fragment = TRUE]),
        Object(With(Remote("sse", Split).of, "command", Text(<<"a">>)))}
  \cup {Object(With(Remote("sse", Url).of, "headers", Object(hs))) : hs \in Headers}
Docs == {Broken, List(<<>>), Mcp([n \in {} |-> Broken]), Object(Without(Mcp(One(Broken)).of, "$schema")),
         Object(With(Mcp(One(Object(Stdio))).of, "other", Text("t"))),
         Object(With(Mcp(One(Object(Stdio))).of, "$schema", Text(PluginSchema)))}
        \cup {Mcp(One(e)) : e \in Entries}
Serving == {[Good EXCEPT !.mcp.holds = doc, !.children = <<>>] : doc \in Docs}

(* The locations *)
Placed ==
  {[Good EXCEPT !.root.named = FALSE], [Good EXCEPT !.root.there = FALSE]}
  \cup {[Good EXCEPT !.manifest = loc] : loc \in Bad(Good.manifest)}
  \cup {[Good EXCEPT !.skills = loc] : loc \in Bad(Good.skills)}
  \cup {[Good EXCEPT !.children[1].file = loc] : loc \in Bad(Good.children[1].file)}
  \cup {[Good EXCEPT !.children[1].kind = k] : k \in Kinds}
  \cup {[Good EXCEPT !.children[1].text = FALSE]}
  \cup {[Good EXCEPT !.mcp = loc] : loc \in Bad(Good.mcp)}
  \cup {[Good EXCEPT !.mcp.holds = Mcp(One(Remote("sse", Split)))]}

WithBody == [Good EXCEPT !.children = <<Skill(<<"a">>)>>, !.mcp.kind = "nothing"]
MCWritten == {WithBody}
MCPackages == {WithBody} \cup Placed \cup Declaring \cup Describing \cup Serving
=============================================================================
