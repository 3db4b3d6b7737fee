\* Two scopes whose ids meet, resources made twice, a directory changed once, two requests
\* and a session.
CONSTANTS
  Chars = {"a", "b", "c", "d", "."}
  Contents <- MCContents
  Requests = {r1, r2}
  Sessions = {m1}
  MaxBuilds = 2
  MaxEdits = 1
SPECIFICATION Spec
INVARIANTS ListedIsFound SkillsKeepApart SessionsKeepTheirUpstream
PROPERTY SessionsEndWithSet
