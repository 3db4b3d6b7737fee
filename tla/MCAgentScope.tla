----------------------------- MODULE MCAgentScope -----------------------------
(***************************************************************************)
(* AgentScope for TLC: ids that meet when they are joined with a dot, a    *)
(* plugin that is rejected, an entry that cannot be served.                *)
(***************************************************************************)
EXTENDS AgentScope

MCPluginIds == << <<"a">>, <<"a", ".", "b">> >>

Server(n, how) == [name |-> n, how |-> how]
Own(state, servers) == [state |-> state, servers |-> servers]
Plugin(k, sound, servers, skills) ==
  [id |-> MCPluginIds[k], rank |-> k, sound |-> sound, servers |-> servers, skills |-> skills]

MCContents ==
  {[plugins |-> {Plugin(1, TRUE, {Server(<<"b", ".", "c">>, "stdio")}, {<<"b">>, <<"c">>}),
                 Plugin(2, TRUE, {Server(<<"c">>, "stdio"), Server(<<"d">>, "sse")}, {<<"c">>})},
    own |-> Own("ok", {Server(<<"a", ".", "b", ".", "c">>, "streamable-http")}), skills |-> {<<"c">>}],
   [plugins |-> {Plugin(1, FALSE, {}, {})}, own |-> Own("ok", {Server(<<"b">>, "sse")}), skills |-> {}],
   [plugins |-> {}, own |-> Own("ok", {Server(<<"a", ".", "b", ".", "c">>, "stdio")}), skills |-> {<<"b">>}]}
=============================================================================
