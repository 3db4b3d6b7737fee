------------------------------ MODULE MCFileTree ------------------------------
(* Two requests, one of them of many calls, on seven small disks. *)
EXTENDS FileTree

CONSTANTS a, b, x, r1, r2

D(i) == Dir(i)

\* a/x and b/x are files.
Files == [disk |-> (<<>> :> D(1)) @@ (<<a>> :> D(2)) @@ (<<b>> :> D(3))
                     @@ (<<a, x>> :> File(4)) @@ (<<b, x>> :> File(5)),
          data |-> <<<<>>, <<>>, <<>>, <<1, 1>>, <<2, 2, 2>>>>]

\* a/x is a link to the directory b, which holds b/x.
Linked == [disk |-> (<<>> :> D(1)) @@ (<<a>> :> D(2)) @@ (<<b>> :> D(3))
                     @@ (<<a, x>> :> Link(4, <<b>>)) @@ (<<b, x>> :> File(5)),
           data |-> <<<<>>, <<>>, <<>>, <<>>, <<2>>>>]

\* a/x names the directory it is in.
Looped == [disk |-> (<<>> :> D(1)) @@ (<<a>> :> D(2)) @@ (<<a, x>> :> Link(3, <<a>>)),
           data |-> <<<<>>, <<>>, <<>>>>]

\* A directory two levels deep.
Deep == [disk |-> (<<>> :> D(1)) @@ (<<a>> :> D(2)) @@ (<<a, b>> :> D(3))
                   @@ (<<a, b, x>> :> File(4)),
         data |-> <<<<>>, <<>>, <<>>, <<1>>>>]

\* a/x names the root, so that a/x/a is a again.
Upward == [disk |-> (<<>> :> D(1)) @@ (<<a>> :> D(2)) @@ (<<a, x>> :> Link(3, <<>>)),
           data |-> <<<<>>, <<>>, <<>>>>]

\* b/b and b/x both name x, which is not there; a/b and a/x are files.
Aliased == [disk |-> (<<>> :> D(1)) @@ (<<a>> :> D(2)) @@ (<<b>> :> D(3))
                      @@ (<<a, b>> :> File(4)) @@ (<<a, x>> :> File(5))
                      @@ (<<b, b>> :> Link(6, <<x>>)) @@ (<<b, x>> :> Link(7, <<x>>)),
            data |-> <<<<>>, <<>>, <<>>, <<1>>, <<2, 2>>, <<>>, <<>>>>]

\* a/x names b/b, which is not there, and a/b is a file; so is b/x.
Dangling == [disk |-> (<<>> :> D(1)) @@ (<<a>> :> D(2)) @@ (<<b>> :> D(3))
                       @@ (<<a, b>> :> File(4)) @@ (<<b, x>> :> File(5))
                       @@ (<<a, x>> :> Link(6, <<b, b>>)),
             data |-> <<<<>>, <<>>, <<>>, <<1>>, <<2, 2>>, <<>>>>]

SomeTrees == {Files, Linked, Looped, Deep, Upward, Aliased, Dangling}

Plain(op, path) ==
  [op |-> op, path |-> path, to |-> <<>>, recursive |-> FALSE, force |-> FALSE,
   kind |-> "file", content |-> <<>>, old |-> <<>>, length |-> 0, depth |-> 3,
   pattern |-> {}, exclude |-> {}]
Pair(op, path, to) == [Plain(op, path) EXCEPT !.to = to]

\* Requests of many calls ...
Long ==
  { Plain("list", <<>>),
    [Plain("glob", <<>>) EXCEPT !.pattern = {<<n, x>> : n \in {a, b, x}}, !.exclude = {<<b>>}],
    [Plain("remove", <<a>>) EXCEPT !.recursive = TRUE, !.force = TRUE],
    [Plain("remove", <<a, x>>) EXCEPT !.force = TRUE],
    [Plain("remove", <<a, x, a>>) EXCEPT !.recursive = TRUE],
    Pair("copy", <<a>>, <<b>>), Pair("copy", <<a, x>>, <<b, x>>), Pair("copy", <<a>>, <<a, b>>),
    Plain("temp", <<a>>), [Plain("temp", <<a>>) EXCEPT !.kind = "dir"] }

\* ... and what comes between them ...
Changes ==
  { Plain("remove", <<a>>), [Plain("remove", <<a>>) EXCEPT !.recursive = TRUE],
    Pair("move", <<a>>, <<b>>), Pair("move", <<a, x>>, <<b>>), Pair("move", <<a>>, <<x>>),
    Pair("move", <<b>>, <<a, b>>),
    [Plain("content", <<a, x>>) EXCEPT !.content = <<3>>],
    [Plain("directory", <<a, b, x>>) EXCEPT !.recursive = TRUE],
    Plain("temp", <<a>>),
    [Plain("patch", <<a, x>>) EXCEPT !.old = <<1, 1>>, !.content = <<4>>],
    [Plain("truncate", <<a, x>>) EXCEPT !.length = 3] }

\* ... and others.
Short ==
  { [Plain("list", <<a>>) EXCEPT !.depth = 1], [Plain("list", <<b>>) EXCEPT !.depth = 0],
    Pair("copy", <<a>>, <<x>>), Plain("directory", <<x>>),
    Plain("read", <<b, x>>), Plain("metadata", <<a, x>>), Plain("realpath", <<a, x>>),
    Plain("readlink", <<a, x>>), Plain("access", <<b>>) }

SomeWanted ==
  {(r1 :> q) @@ (r2 :> p) : q \in Long, p \in Changes}
    \cup {(r1 :> q) @@ (r2 :> Pair("symlink", <<x>>, <<a>>)) : q \in Short}

SomeTemps == {b, x}
Two == {r1, r2}
Three == {a, b, x}
=============================================================================
