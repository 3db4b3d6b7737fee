----------------------------- MODULE PluginPackage -----------------------------
(***************************************************************************)
(* plugin::load: a package read from the disk, one file operation at a     *)
(* time, while the disk may change between two of them.  The manifest is   *)
(* first and can reject the package; skills and servers that are at fault  *)
(* are left out with a note.  The body of a skill is parsed by the actions *)
(* of SkillDocument.  A url may panic, and then nothing is returned.       *)
(*                                                                         *)
(* A location is what stat, canonicalize and read make of a path.          *)
(***************************************************************************)
EXTENDS SkillDocument, AgentConfig

CONSTANTS
  Packages,  \* what the disk may hold
  Shifting,  \* those that are changed, once, while they are loaded
  Written    \* those whose skills have a body; empty in the others

Kinds == {"file", "directory", "other", "nothing", "error"}
Resolutions == {"inside", "outside", "error"}

IsLocation(l) ==
  /\ l = [kind |-> l.kind, inside |-> l.inside, readable |-> l.readable, holds |-> l.holds]
  /\ l.kind \in Kinds /\ l.inside \in Resolutions /\ l.readable \in BOOLEAN
IsChild(c) ==
  /\ c = [name |-> c.name, text |-> c.text, kind |-> c.kind, file |-> c.file]
  /\ c.text \in BOOLEAN /\ c.kind \in Kinds /\ IsLocation(c.file)

\* The paths that a server is configured with are paths.
IsPath(s) == Len(s) \in Nat /\ s = [i \in 1..Len(s) |-> s[i]]
HasPaths(f) ==
  f["type"].raw = "stdio" =>
    IsPath(f["command"].raw) /\ ("cwd" \in DOMAIN f => IsPath(f["cwd"].raw))

\* Children of a directory have names of their own.  `absent` and `disabled` are outcomes
\* here, and name no server.
IsPackage(p) ==
  /\ p = [root |-> p.root, manifest |-> p.manifest, skills |-> p.skills,
          children |-> p.children, mcp |-> p.mcp]
  /\ IsLocation(p.manifest) /\ IsLocation(p.skills) /\ IsLocation(p.mcp)
  /\ Len(p.children) \in Nat /\ p.children = [i \in 1..Len(p.children) |-> p.children[i]]
  /\ \A i \in DOMAIN p.children : IsChild(p.children[i])
  /\ \A i, j \in DOMAIN p.children : p.children[i].name = p.children[j].name => i = j
  /\ McpOK(p.mcp.holds) =>
       /\ {"absent", "disabled"} \cap Declared(p.mcp.holds) = {}
       /\ \A n \in Servers(p.mcp.holds) : HasPaths(p.mcp.holds.of["mcpServers"].of[n].of)

ASSUME PackageAssumption == \A p \in Packages : IsPackage(p)
ASSUME PackagesAssumption == Shifting \subseteq Packages /\ Written \subseteq Packages

VARIABLES
  disk,     \* root, manifest, skills, children (in the order of their names), mcp
  original, \* history: the package as it was at first
  edited,   \* history: the part of it that was changed
  step,     \* the file operation that is next
  unseen,   \* the children read_dir has yet to give
  found,    \* the directories among those it gave
  at,       \* the one of them that is looked at
  skills,   \* the skills taken, in order
  mcp,      \* "absent", "disabled", or the servers taken
  notes     \* the diagnostics

loadVars == <<original, edited, step, unseen, found, at, skills, mcp, notes>>
packageVars == <<disk, loadVars, docVars>>

PackageInit ==
  /\ Init
  /\ disk \in Packages /\ original = disk /\ edited = {} /\ step = "root"
  /\ unseen = {} /\ found = <<>> /\ at = 1
  /\ skills = <<>> /\ mcp = {} /\ notes = {}

Child == disk.children[found[at]]

\* SKILL.md of a child, also when a directory above it was moved meanwhile.
SkillFile(c) ==
  IF disk.skills.kind # "directory" \/ c.kind # "directory"
  THEN [c.file EXCEPT !.kind = "nothing"]
  ELSE IF disk.skills.inside = "outside" THEN [c.file EXCEPT !.inside = "outside"]
  ELSE c.file

\* file_kind, confined, tokio::fs::read.
Confined(loc) == IF loc.kind \in {"nothing", "error"} THEN "error" ELSE loc.inside
Readable(loc) == loc.kind = "file" /\ loc.readable

Goes(s) == step' = s /\ UNCHANGED <<disk, original, edited>>
Only(s) == Goes(s) /\ UNCHANGED <<unseen, found, at, skills, mcp, notes>>
NoDoc == UNCHANGED docVars

-----------------------------------------------------------------------------
(* load, load_manifest *)

OpenRoot ==
  /\ step = "root" /\ NoDoc
  /\ Only(IF disk.root.named /\ disk.root.there THEN "stat_manifest" ELSE "rejected")

StatManifest ==
  /\ step = "stat_manifest" /\ NoDoc
  /\ Only(IF disk.manifest.kind = "file" THEN "confine_manifest" ELSE "rejected")

ConfineManifest ==
  /\ step = "confine_manifest" /\ NoDoc
  /\ Only(IF Confined(disk.manifest) = "inside" THEN "read_manifest" ELSE "rejected")

ReadManifest ==
  /\ step = "read_manifest" /\ NoDoc
  /\ IF Readable(disk.manifest) /\ ManifestOK(disk.manifest.holds)
     THEN /\ Goes("stat_skills") /\ notes' = notes \cup ManifestNotes(disk.manifest.holds)
          /\ UNCHANGED <<unseen, found, at, skills, mcp>>
     ELSE Only("rejected")

-----------------------------------------------------------------------------
(* load_skills *)

NoSkills == /\ Goes("stat_mcp") /\ notes' = notes \cup {Note("component-invalid", <<"skills">>)}
            /\ UNCHANGED <<unseen, found, at, skills, mcp>>

StatSkills ==
  /\ step = "stat_skills" /\ NoDoc
  /\ \/ disk.skills.kind = "directory" /\ Only("confine_skills")
     \/ disk.skills.kind = "nothing" /\ Only("stat_mcp")
     \/ disk.skills.kind \notin {"directory", "nothing"} /\ NoSkills

ConfineSkills ==
  /\ step = "confine_skills" /\ NoDoc
  /\ IF Confined(disk.skills) = "inside" THEN Only("open_skills") ELSE NoSkills

OpenSkills ==
  /\ step = "open_skills" /\ NoDoc
  /\ IF disk.skills.kind = "directory" /\ disk.skills.readable
     THEN /\ Goes("list_skills") /\ unseen' = DOMAIN disk.children
          /\ UNCHANGED <<found, at, skills, mcp, notes>>
     ELSE NoSkills

\* next_entry, in any order; only a directory with a name that is text is kept.
\* The directories are sorted by name before the first is looked at.
NextEntry(i) ==
  /\ step = "list_skills" /\ NoDoc /\ i \in unseen
  /\ unseen' = unseen \ {i}
  /\ IF /\ disk.skills.kind = "directory"
        /\ disk.children[i].text /\ disk.children[i].kind = "directory"
     THEN \E p \in 0..Len(found) :
            /\ \A k \in DOMAIN found : k <= p <=> found[k] < i
            /\ found' = SubSeq(found, 1, p) \o <<i>> \o SubSeq(found, p + 1, Len(found))
     ELSE UNCHANGED found
  /\ Goes(step) /\ UNCHANGED <<at, skills, mcp, notes>>

EndOfList ==
  /\ step = "list_skills" /\ NoDoc /\ unseen = {}
  /\ Only("stat_skill")

ListFails ==
  /\ step = "list_skills" /\ NoDoc
  /\ Goes("stat_skill") /\ notes' = notes \cup {Note("component-invalid", <<"skills">>)}
  /\ UNCHANGED <<unseen, found, at, skills, mcp>>

NextSkill == step' = "stat_skill" /\ at' = at + 1
Skip1 == NextSkill /\ notes' = notes \cup {Note("skill-skipped", <<"skill", Child.name>>)}
Rest == UNCHANGED <<disk, original, edited, unseen, found, mcp>>

StatSkill ==
  /\ step = "stat_skill" /\ NoDoc /\ at <= Len(found)
  /\ LET kind == SkillFile(Child).kind
     IN \/ kind = "file" /\ step' = "confine_skill" /\ UNCHANGED <<at, notes>>
        \/ kind \notin {"file", "error"} /\ NextSkill /\ UNCHANGED notes
        \/ kind = "error" /\ Skip1
  /\ Rest /\ UNCHANGED skills

\* Mutant: a link that leads out is passed over without a word.
ConfineSkill_Silent ==
  /\ step = "confine_skill" /\ NoDoc
  /\ IF Confined(SkillFile(Child)) = "inside"
     THEN step' = "read_skill" /\ UNCHANGED at
     ELSE NextSkill
  /\ Rest /\ UNCHANGED <<skills, notes>>

ConfineSkill ==
  /\ step = "confine_skill" /\ NoDoc
  /\ IF Confined(SkillFile(Child)) = "inside"
     THEN step' = "read_skill" /\ UNCHANGED <<at, notes>>
     ELSE Skip1
  /\ Rest /\ UNCHANGED skills

\* Mutant: a skill at fault ends the list.
ReadSkill_Breaks ==
  /\ step = "read_skill" /\ NoDoc
  /\ IF Readable(SkillFile(Child)) /\ SkillMdOK(SkillFile(Child).holds, Child.name)
     THEN step' = "parse_body" /\ UNCHANGED <<at, notes>>
     ELSE /\ step' = "stat_mcp" /\ UNCHANGED at
          /\ notes' = notes \cup {Note("skill-skipped", <<"skill", Child.name>>)}
  /\ Rest /\ UNCHANGED skills

\* The front matter is judged at once, the body after it.
ReadSkill ==
  /\ step = "read_skill" /\ NoDoc
  /\ IF Readable(SkillFile(Child)) /\ SkillMdOK(SkillFile(Child).holds, Child.name)
     THEN step' = "parse_body" /\ UNCHANGED <<at, notes>>
     ELSE Skip1
  /\ Rest /\ UNCHANGED skills

ParseBody ==
  /\ step = "parse_body"
  /\ Build \/ (disk \in Written /\ \E l \in Lines : ScanLine(l))
  /\ UNCHANGED <<disk, loadVars>>

TakeSkill ==
  /\ step = "parse_body" /\ Another
  /\ skills' = Append(skills, found[at]) /\ NextSkill
  /\ Rest /\ UNCHANGED notes

NoMoreSkills ==
  /\ step = "stat_skill" /\ NoDoc /\ at > Len(found)
  /\ Only("stat_mcp")

-----------------------------------------------------------------------------
(* load_mcp *)

Settle(outcome, ns) == /\ Goes("done") /\ mcp' = outcome /\ notes' = notes \cup ns
                       /\ UNCHANGED <<unseen, found, at, skills>>
Invalid == Settle({"disabled"}, {Note("component-invalid", <<"mcp">>)})
Disabled == Settle({"disabled"}, {Note("mcp-disabled", <<"mcp">>)})

StatMcp ==
  /\ step = "stat_mcp" /\ NoDoc
  /\ \/ disk.mcp.kind = "file" /\ Only("confine_mcp")
     \/ disk.mcp.kind = "nothing" /\ Settle({"absent"}, {})
     \/ disk.mcp.kind \in {"directory", "other"} /\ Invalid
     \/ disk.mcp.kind = "error" /\ Disabled

ConfineMcp ==
  /\ step = "confine_mcp" /\ NoDoc
  /\ \/ Confined(disk.mcp) = "inside" /\ Only("read_mcp")
     \/ Confined(disk.mcp) = "outside" /\ Invalid
     \/ Confined(disk.mcp) = "error" /\ Disabled

ReadMcp ==
  /\ step = "read_mcp" /\ NoDoc
  /\ LET fine == Readable(disk.mcp) /\ McpOK(disk.mcp.holds)
     IN \/ fine /\ ~McpPanics(disk.mcp.holds)
           /\ Settle(Servers(disk.mcp.holds), McpNotes(disk.mcp.holds))
        \/ fine /\ McpPanics(disk.mcp.holds) /\ Only("panicked")
        \/ ~fine /\ Disabled

-----------------------------------------------------------------------------
\* The package is changed below the loader: a part vanishes, comes to lead outside
\* the root, or can no longer be read.
Changes(loc) == {[loc EXCEPT !.kind = "nothing"], [loc EXCEPT !.inside = "outside"],
                 [loc EXCEPT !.readable = FALSE]}
EditPart(part) ==
  /\ disk' \in {[disk EXCEPT ![part] = loc] : loc \in Changes(disk[part])}
  /\ edited' = {part}
EditSkill(i) ==
  /\ disk' \in {[disk EXCEPT !.children[i].file = loc] : loc \in Changes(disk.children[i].file)}
  /\ edited' = {"skills"}
Edit ==
  /\ disk \in Shifting /\ edited = {} /\ step \notin {"rejected", "done", "panicked"}
  /\ \/ \E part \in {"manifest", "skills", "mcp"} : EditPart(part)
     \/ \E i \in DOMAIN disk.children : EditSkill(i)
  /\ UNCHANGED <<original, step, unseen, found, at, skills, mcp, notes, docVars>>

Answered == step \in {"rejected", "done", "panicked"} /\ UNCHANGED packageVars

PackageNext ==
  \/ OpenRoot \/ StatManifest \/ ConfineManifest \/ ReadManifest
  \/ StatSkills \/ ConfineSkills \/ OpenSkills
  \/ (\E i \in unseen : NextEntry(i)) \/ EndOfList \/ ListFails
  \/ StatSkill \/ ConfineSkill \/ ReadSkill \/ ParseBody \/ TakeSkill \/ NoMoreSkills
  \/ StatMcp \/ ConfineMcp \/ ReadMcp
  \/ Edit \/ Answered

PackageSpec == PackageInit /\ [][PackageNext]_packageVars

-----------------------------------------------------------------------------
Took == {skills[k] : k \in DOMAIN skills}
Skipped == {i \in DOMAIN disk.children : Note("skill-skipped", <<"skill", disk.children[i].name>>) \in notes}
Usable(loc) == Readable(loc) /\ loc.inside = "inside"

\* What a package says of itself, each part alone.
Presentable(p) ==
  p.root.named /\ p.root.there /\ Usable(p.manifest) /\ ManifestOK(p.manifest.holds)
GoodSkills(p) ==
  {i \in DOMAIN p.children :
     LET c == p.children[i]
     IN /\ p.skills.kind = "directory" /\ p.skills.inside = "inside" /\ p.skills.readable
        /\ c.text /\ c.kind = "directory" /\ Usable(c.file) /\ SkillMdOK(c.file.holds, c.name)}
GoodServers(p) ==
  IF p.mcp.kind = "nothing" THEN {"absent"}
  ELSE IF Usable(p.mcp) /\ McpOK(p.mcp.holds) THEN Servers(p.mcp.holds)
  ELSE {"disabled"}

\* A fault stays where it is, also one that comes while the package is loaded.  A package that
\* is presentable to the end is not rejected, and one that was never presentable is not loaded.
\* No skill is taken that was not good when the load began, and none is missed that is good
\* at the end, but when the list itself broke off: a skill that is broken before or meanwhile
\* costs itself.  The servers are those of the package as it was, or none are, since mcp.json
\* was changed.  The one fault that takes all the rest with it is a url that is cut inside a
\* character (plugin/mod.rs: load, load_skills, load_mcp; mcp/mod.rs: strip_scheme).
FaultsStayLocal ==
  /\ step = "rejected" => ~Presentable(disk)
  /\ step \in {"done", "panicked"} => Presentable(original)
  /\ step = "done" =>
       /\ Took \subseteq GoodSkills(original)
       /\ GoodSkills(disk) \subseteq Took \/ Note("component-invalid", <<"skills">>) \in notes
       /\ \/ mcp = GoodServers(original)
          \/ "mcp" \in edited /\ mcp \in {{"absent"}, {"disabled"}}
  /\ step = "panicked" => Usable(original.mcp) /\ McpPanics(original.mcp.holds)

\* Nothing found is dropped without a word: every directory that was listed is taken or noted
\* and never both, unless it has no SKILL.md; skills are taken once each and in the order of
\* their names; servers that are not taken are noted, and MCP is not off without a note.
NothingSilent ==
  step = "done" =>
    /\ Took \cap Skipped = {}
    /\ \A k \in DOMAIN found : \/ found[k] \in Took \cup Skipped
                               \/ SkillFile(disk.children[found[k]]).kind # "file"
    /\ \A j, k \in DOMAIN skills : j < k => skills[j] < skills[k]
    /\ mcp = {"disabled"} => \E n \in notes : n.rule \in {"mcp-disabled", "component-invalid"}
                                              /\ n.origin = <<"mcp">>
    /\ "mcp" \notin edited /\ Usable(disk.mcp) /\ McpOK(disk.mcp.holds) =>
         Declared(disk.mcp.holds) = mcp \cup {n.origin[2] : n \in {m \in notes : m.rule = "server-skipped"}}

\* The check on the text of a path keeps what the path resolves to in its root: followed
\* segment by segment, the bundled command and the working directory of every server that
\* is taken never leave the package, nor the anchor a placeholder names (parse_command,
\* parse_cwd, RelativePath::resolve).
Root == <<"above", "root">>
Within(s) == SubSeq(Resolved(Root, s), 1, Len(Root)) = Root
ConfiguredPathsStay ==
  step = "done" /\ mcp \cap {"absent", "disabled"} = {} /\ edited = {} =>
    \A n \in mcp :
      LET f == disk.mcp.holds.of["mcpServers"].of[n].of
      IN f["type"].raw = "stdio" =>
           /\ Bundled(f["command"].raw) => Within(f["command"].raw)
           /\ "cwd" \in DOMAIN f =>
                IF Anchored(f["cwd"].raw) = {} THEN Within(f["cwd"].raw)
                ELSE Within(<<".", "/">> \o SubSeq(f["cwd"].raw, 3, Len(f["cwd"].raw)))
===============================================================================
