----------------------------- MODULE MCPtyStream -----------------------------
(***************************************************************************)
(* A small instance of PtyStream: either enough output to be reordered, or  *)
(* enough input to fill the terminal, the writer task, the channel and the  *)
(* loop of Session::run.                                                   *)
(***************************************************************************)
EXTENDS PtyStream

OutputOrInput == {<<3, 0>>, <<1, 1>>, <<0, 4>>}
=============================================================================
