------------------------------- MODULE MCCopy -------------------------------
(* Instances of Copy for TLC. *)
EXTENDS Copy, TLC

CONSTANTS x, y, out, text, Null

MCNames == {x, y}
MCDest == <<x, y>>

File(mode) == Node("file", text, mode)
Link == Node("symlink", text, 0)

\* A file; a link; an empty directory; and directories in a directory.
MCTrees == {
  <<>> :> File(0),
  <<>> :> Link,
  <<>> :> Directory,
  (<<>> :> Directory) @@ (<<x>> :> File(0)) @@ (<<y>> :> Link),
  (<<>> :> Directory) @@ (<<x>> :> Directory) @@ (<<y>> :> File(493)),
  (<<>> :> Directory) @@ (<<x>> :> Directory) @@ (<<y>> :> Directory)
    @@ (<<x, x>> :> File(493)) @@ (<<x, y>> :> Directory) @@ (<<y, x>> :> Link) }
=============================================================================
