------------------------------ MODULE AgentConfig ------------------------------
(***************************************************************************)
(* What dotagents accepts of the text a package holds: paths and templates,*)
(* the manifest, the front matter of a skill, the entries of mcp.json.     *)
(* Pure definitions, with no state.                                        *)
(*                                                                         *)
(* A parsed JSON or YAML value is a record that says what it is.  Which of *)
(* several faults is named first is left out: a text is accepted or not.   *)
(* A path is a sequence of tokens: "/", ".", "..", "\", the two            *)
(* placeholders, and words; tokens with no "/" between them are one        *)
(* segment.  A name is a sequence of characters.                           *)
(***************************************************************************)
EXTENDS Integers, Sequences, FiniteSets

Text(raw) == [is |-> "text", raw |-> raw]
Object(of) == [is |-> "object", of |-> of]
List(items) == [is |-> "list", items |-> items]
Scalar(kind) == [is |-> kind]
Broken == [is |-> "broken"]       \* the bytes are not of the format

\* A diagnostic, and where in the package it points.
Note(rule, origin) == [rule |-> rule, origin |-> origin]

IsText(v) == v.is = "text"
AllTexts(f) == \A k \in DOMAIN f : IsText(f[k])
Optional(f, k, P(_)) == k \in DOMAIN f => P(f[k])

-----------------------------------------------------------------------------
(* Paths and templates *)

SegmentAt(s, i) == s[i] # "/" /\ (IF i = 1 THEN TRUE ELSE s[i - 1] = "/")
Alone(s, i) == IF i = Len(s) THEN TRUE ELSE s[i + 1] = "/"
IsUp(s, i) == SegmentAt(s, i) /\ s[i] = ".." /\ Alone(s, i)
IsHere(s, i) == SegmentAt(s, i) /\ s[i] = "." /\ Alone(s, i)
IsDown(s, i) == SegmentAt(s, i) /\ ~IsUp(s, i) /\ ~IsHere(s, i)

Depth(s, i) == Cardinality({j \in 1..i : IsDown(s, j)}) - Cardinality({j \in 1..i : IsUp(s, j)})

\* Mutant: only where the path ends is looked at.
LexicallyContained_AtEnd(s) == Depth(s, Len(s)) >= 0

LexicallyContained(s) == \A i \in DOMAIN s : Depth(s, i) >= 0

FromRoot(s) == Len(s) >= 2 /\ s[1] = "." /\ s[2] = "/"
AfterDotSlash(s) == SubSeq(s, 3, Len(s))
RelativePathOK(s) == FromRoot(s) /\ LexicallyContained(AfterDotSlash(s))

\* RelativePath::resolve: pushed on the root and popped from it, segment by segment.
Resolved(root, s) ==
  LET rest == AfterDotSlash(s)
      at[i \in 0..Len(rest)] ==
        IF i = 0 THEN root
        ELSE IF IsUp(rest, i) THEN SubSeq(at[i - 1], 1, Len(at[i - 1]) - 1)
        ELSE IF IsDown(rest, i) THEN Append(at[i - 1], rest[i])
        ELSE at[i - 1]
  IN at[Len(rest)]

Placeholders == {"ROOT", "DATA"}
Anchored(s) == {i \in DOMAIN s : s[i] \in Placeholders}

\* parse_cwd: a relative path, a placeholder, or a placeholder and a path below it.
CwdOK(s) ==
  IF Anchored(s) = {} THEN RelativePathOK(s)
  ELSE /\ Anchored(s) = {1}
       /\ Len(s) > 1 => s[2] = "/" /\ LexicallyContained(SubSeq(s, 3, Len(s)))

\* parse_command: one bare name, or a file of the package.
Bundled(s) == FromRoot(s)
CommandOK(s) ==
  IF Bundled(s) THEN RelativePathOK(s)
  ELSE s # <<>> /\ \A i \in DOMAIN s : s[i] \notin {"/", "\\"}

-----------------------------------------------------------------------------
(* The manifest *)

Lower == {"a", "b"}     \* a-z and 0-9
Letter == {"e'"}        \* lower case, beyond ASCII
NoRun(n, cs) == \A i \in 1..(Len(n) - 1) : n[i] \in cs => n[i + 1] # n[i]

PluginNameOK(n) ==
  /\ Len(n) \in 1..64
  /\ \A i \in DOMAIN n : n[i] \in Lower \cup {"-", "."}
  /\ n[1] \in Lower /\ n[Len(n)] \in Lower
  /\ NoRun(n, {"-", "."})

PluginSchema == "plugin 1.0.0"
Opaque == {"version", "description", "homepage", "repository", "license"}
ManifestFields == {"$schema", "name", "author", "keywords", "extensions"} \cup Opaque

AuthorOK(v) == v.is = "object" /\ DOMAIN v.of \subseteq {"name", "email", "url"} /\ AllTexts(v.of)
KeywordsOK(v) == v.is = "list" /\ AllTexts(v.items)
ExtensionsOK(v) == v.is = "object" => \A k \in DOMAIN v.of : v.of[k].is = "object"

ManifestOK(doc) ==
  /\ doc.is = "object"
  /\ "$schema" \in DOMAIN doc.of /\ doc.of["$schema"] = Text(PluginSchema)
  /\ "name" \in DOMAIN doc.of /\ IsText(doc.of["name"]) /\ PluginNameOK(doc.of["name"].raw)
  /\ \A k \in Opaque : Optional(doc.of, k, IsText)
  /\ Optional(doc.of, "author", AuthorOK)
  /\ Optional(doc.of, "keywords", KeywordsOK)
  /\ Optional(doc.of, "extensions", ExtensionsOK)

\* What is left out of a manifest that is taken.
ManifestNotes(doc) ==
  {Note("unknown-manifest-field", <<"manifest", k>>) : k \in DOMAIN doc.of \ ManifestFields}
  \cup {Note("extensions-ignored", <<"manifest", k>>) :
          k \in {x \in DOMAIN doc.of \cap {"extensions"} : doc.of[x].is # "object"}}

-----------------------------------------------------------------------------
(* The front matter of a skill: a file is its lines, as far as they are "---"  *)
(* or blank, and the YAML value of the lines between the first two "---".       *)

Dashes == "---"
Closings(lines) == {i \in 2..Len(lines) : lines[i] = Dashes}
HasFrontmatter(lines) == Len(lines) > 0 /\ lines[1] = Dashes /\ Closings(lines) # {}

SkillFields == {"name", "description", "license", "compatibility", "allowed-tools", "metadata"}

SkillNameOK(n) ==
  /\ Len(n) \in 1..64
  /\ \A i \in DOMAIN n : n[i] \in Lower \cup Letter \cup {"-"}
  /\ n[1] # "-" /\ n[Len(n)] # "-"
  /\ NoRun(n, {"-"})

\* A text of which only its length matters and whether it is all blanks.
Prose(v, limit) == ~v.raw.blank /\ v.raw.length \in 1..limit

\* The keys of this mapping are values too.
ScalarKinds == {"text", "integer", "real", "boolean"}
MetadataOK(v) ==
  v.is = "object" /\ \A k \in DOMAIN v.of : k.is \in ScalarKinds /\ v.of[k].is \in ScalarKinds

FrontmatterOK(yaml, directory) ==
  /\ yaml.is = "object" /\ DOMAIN yaml.of \subseteq SkillFields
  /\ \A k \in DOMAIN yaml.of \ {"metadata"} : IsText(yaml.of[k])
  /\ Optional(yaml.of, "metadata", MetadataOK)
  /\ {"name", "description"} \subseteq DOMAIN yaml.of
  /\ yaml.of["name"].raw = directory /\ SkillNameOK(directory)
  /\ Prose(yaml.of["description"], 1024)
  /\ Optional(yaml.of, "compatibility", LAMBDA v : Prose(v, 500))

SkillMdOK(file, directory) ==
  file.utf8 /\ HasFrontmatter(file.lines) /\ FrontmatterOK(file.yaml, directory)

-----------------------------------------------------------------------------
(* mcp.json *)

McpSchema == "mcp 1.0.0"

\* host_of: an empty port is taken only behind a bracket.
HostOK(u) == /\ u.host # ""
             /\ u.port \in {"none", "digits"} \cup (IF u.bracket THEN {"empty"} ELSE {})
Loopback(u) == u.host = "loopback ip" \/ (u.host = "localhost" /\ ~u.bracket)

\* strip_scheme cuts the text after the eight bytes of `https://`, then the seven of `http://`.
\* Cut inside a character (`split`) it panics; only a fragment is looked for before it.
UrlPanics(u) == ~u.fragment /\ u.split
UrlOK(u) ==
  /\ ~u.fragment /\ ~u.split /\ u.scheme \in {"http", "https"} /\ ~u.userinfo /\ HostOK(u)
  /\ u.scheme = "http" => Loopback(u)

ReservedEnv == {"PLUGIN_ROOT", "PLUGIN_DATA"}
EnvOK(v) == v.is = "object" /\ DOMAIN v.of \cap ReservedEnv = {} /\ AllTexts(v.of)
ArgsOK(v) == v.is = "list" /\ AllTexts(v.items)

StdioOK(f) ==
  /\ DOMAIN f \subseteq {"type", "command", "args", "env", "cwd"}
  /\ "command" \in DOMAIN f /\ IsText(f["command"]) /\ CommandOK(f["command"].raw)
  /\ Optional(f, "args", ArgsOK)
  /\ Optional(f, "env", EnvOK)
  /\ Optional(f, "cwd", LAMBDA v : IsText(v) /\ CwdOK(v.raw))

\* A header is its letters, which of them are capitals, and whether all are allowed.
HeadersOK(v) ==
  /\ v.is = "object"
  /\ \A h \in DOMAIN v.of : h.legal /\ IsText(v.of[h]) /\ v.of[h].raw = "legal"
  /\ \A g, h \in DOMAIN v.of : g.letters = h.letters => g = h

HasUrl(f) ==
  DOMAIN f \subseteq {"type", "url", "headers"} /\ "url" \in DOMAIN f /\ IsText(f["url"])
RemoteOK(f) == HasUrl(f) /\ UrlOK(f["url"].raw) /\ Optional(f, "headers", HeadersOK)

ServerOK(v) ==
  /\ v.is = "object" /\ "type" \in DOMAIN v.of /\ IsText(v.of["type"])
  /\ \/ v.of["type"].raw = "stdio" /\ StdioOK(v.of)
     \/ v.of["type"].raw \in {"streamable-http", "sse"} /\ RemoteOK(v.of)

ServerPanics(v) ==
  /\ v.is = "object" /\ "type" \in DOMAIN v.of /\ IsText(v.of["type"])
  /\ v.of["type"].raw \in {"streamable-http", "sse"}
  /\ HasUrl(v.of) /\ UrlPanics(v.of["url"].raw)

McpOK(doc) ==
  /\ doc.is = "object" /\ DOMAIN doc.of = {"$schema", "mcpServers"}
  /\ doc.of["$schema"] = Text(McpSchema)
  /\ doc.of["mcpServers"].is = "object"

Declared(doc) == DOMAIN doc.of["mcpServers"].of
McpPanics(doc) == McpOK(doc) /\ \E n \in Declared(doc) : ServerPanics(doc.of["mcpServers"].of[n])
Servers(doc) == {n \in Declared(doc) : ServerOK(doc.of["mcpServers"].of[n])}
McpNotes(doc) == {Note("server-skipped", <<"server", n>>) : n \in Declared(doc) \ Servers(doc)}
===============================================================================
