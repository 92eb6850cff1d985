-------------------------------- MODULE Copy --------------------------------
(***************************************************************************)
(* CopyOut and CopyIn (server.py, client.py): the files at a path of one   *)
(* instance are pulled into an archive, one request per file, while the    *)
(* job may go on working on them; the runner keeps the archive and has it  *)
(* pushed below a directory of another instance.                           *)
(*                                                                         *)
(* A path is a sequence of names, in the source from src_path and in the   *)
(* archive from its last component; a tree maps the paths that exist to    *)
(* what is there.  src_path is not the root of the file system.            *)
(***************************************************************************)
EXTENDS Naturals, FiniteSets, SequencesExt

CONSTANTS
  Names,      \* bound: what files are called
  MaxDepth,   \* bound: levels below src_path
  Base,       \* the last component of src_path
  Dest,       \* dest_path, as a sequence of names
  Contents,   \* what a file, or a symlink, may hold
  Nothing,    \* what a directory holds
  Modes,      \* file modes; 0 is that of a file nobody may touch
  Trees,      \* the trees CopyOut may find
  MaxChanges, \* bound: what the job changes during CopyOut
  Faults      \* the kinds of fault this behaviour may show

FaultKinds == {
  "unknown",   \* the environment is not on record
  "rest",      \* a request of the file API fails, perhaps after it was done
  "envelope",  \* there is no chunk, the first one lacks a field of the envelope,
               \* or a later one has them again
  "cut" }      \* the archive that CopyIn gets is damaged

Can(kind) == kind \in Faults

Paths == UNION {[1..k -> Names] : k \in 0..MaxDepth}

Node(kind, data, mode) == [kind |-> kind, data |-> data, mode |-> mode]

Directory == Node("directory", Nothing, 0)
Nodes == {Directory} \cup [kind : {"symlink"}, data : Contents, mode : {0}]
         \cup [kind : {"file"}, data : Contents, mode : Modes]

Parent(p) == SubSeq(p, 1, Len(p) - 1)

\* The directories above a path.
Above(p) == Prefixes(p) \ {p}

\* Everything lies in directories.
IsTree(tree) ==
  \A p \in DOMAIN tree : \A q \in Above(p) : q \in DOMAIN tree /\ tree[q] = Directory

ASSUME CopyAssumption ==
  /\ MaxDepth \in Nat /\ MaxChanges \in Nat
  /\ Dest \in Seq(Names) /\ Dest # <<>>
  /\ Modes \subseteq Nat
  /\ \A t \in Trees : /\ IsFiniteSet(DOMAIN t) /\ DOMAIN t \subseteq Paths
                     /\ IsTree(t) /\ \A p \in DOMAIN t : t[p] \in Nodes
  /\ Faults \subseteq FaultKinds

VARIABLES
  source,  \* the files from src_path on
  touched, \* history: the paths at which the job has changed them
  step,    \* what the plugin does next
  todo,    \* CopyOut: the paths still to be pulled, a stack
  archive, \* the entries of the archive, where it is
  wire,    \* CopyIn: the entries it has not received yet
  level,   \* CopyIn: the level of dest_path to be made next
  target,  \* the files of the other instance, from its root on
  code     \* how the call at work, or the last one, ended

outVars == <<source, touched, todo>>
inVars == <<wire, level, target>>
vars == <<outVars, step, archive, inVars, code>>

Init ==
  /\ source \in Trees /\ touched = <<>>
  /\ step = "pull" /\ todo = << <<>> >> /\ archive = <<>>
  /\ wire = <<>> /\ level = 1
  /\ \E k \in 0..Len(Dest) : target = [p \in {SubSeq(Dest, 1, i) : i \in 1..k} |-> Directory]
  /\ code = "none"

Entry(path, node) == [path |-> <<Base>> \o path, node |-> node]

Children(p) == {q \in DOMAIN source : q # <<>> /\ Parent(q) = p}

\* The modes an archive and a push carry; those of directories and symlinks are
\* not restored.
Default == 420
ModeOf(node) == IF node.kind = "file" /\ node.mode = 0 THEN Default ELSE node.mode
Kept(node) == Node(node.kind, node.data, ModeOf(node))

-----------------------------------------------------------------------------
(* Slips that a change of the code could make; each breaks a property.     *)

\* The levels of the destination are counted from zero.
Mkdir_FromZero ==
  /\ step = "mkdir"
  /\ target' = [p \in DOMAIN target \cup {SubSeq(Dest, 1, level - 1)} |-> Directory]
  /\ IF level <= Len(Dest) THEN level' = level + 1 /\ UNCHANGED step
     ELSE step' = "push" /\ UNCHANGED level
  /\ UNCHANGED <<outVars, archive, wire, code>>

\* The destination is pushed without the levels above it.
Receive_LastLevelOnly ==
  /\ step = "receive"
  /\ IF wire # <<>> THEN wire' = Tail(wire) /\ UNCHANGED <<step, level>>
     ELSE step' = "mkdir" /\ level' = Len(Dest) /\ UNCHANGED wire
  /\ UNCHANGED <<outVars, archive, target, code>>

\* A file that is gone sends the walk back to the start, with the same archive.
Pull_StartsOver ==
  /\ step = "pull" /\ todo # <<>>
  /\ LET p == Head(todo) IN
       IF p \notin DOMAIN source
       THEN todo' = << <<>> >> /\ UNCHANGED archive
       ELSE /\ archive' = Append(archive, Entry(p, Kept(source[p])))
            /\ \E order \in SetToSeqs(Children(p)) : todo' = order \o Tail(todo)
  /\ UNCHANGED <<source, touched, step, inVars, code>>

\* A directory's entries replace the rest of the walk.
Pull_ForgetsRest ==
  /\ step = "pull" /\ todo # <<>>
  /\ Head(todo) \in DOMAIN source
  /\ archive' = Append(archive, Entry(Head(todo), Kept(source[Head(todo)])))
  /\ \E order \in SetToSeqs(Children(Head(todo))) :
       todo' = IF source[Head(todo)] = Directory THEN order ELSE Tail(todo)
  /\ UNCHANGED <<source, touched, step, inVars, code>>

-----------------------------------------------------------------------------
(* The job goes on working while CopyOut reads.                            *)

Put(p, node) ==
  /\ p # <<>> => Parent(p) \in DOMAIN source /\ source[Parent(p)] = Directory
  /\ source' = [q \in {r \in DOMAIN source : ~IsStrictPrefix(p, r)} \cup {p} |->
                  IF q = p THEN node ELSE source[q]]

Drop(p) ==
  /\ p \in DOMAIN source
  /\ source' = [q \in {r \in DOMAIN source : ~IsPrefix(p, r)} |-> source[q]]

JobWrites ==
  /\ step = "pull" /\ Len(touched) < MaxChanges
  /\ \E p \in Paths :
       /\ Drop(p) \/ \E node \in Nodes : Put(p, node)
       /\ touched' = Append(touched, p)
  /\ UNCHANGED <<step, todo, archive, inVars, code>>

-----------------------------------------------------------------------------
(* CopyOut.                                                                *)

\* pull_file says what is there and fetches it; a directory's entries come next,
\* in the order the daemon lists them.
Pull ==
  /\ step = "pull" /\ todo # <<>>
  /\ LET p == Head(todo) IN
       /\ p \in DOMAIN source
       /\ archive' = Append(archive, Entry(p, Kept(source[p])))
       /\ \E order \in SetToSeqs(Children(p)) : todo' = order \o Tail(todo)
  /\ UNCHANGED <<source, touched, step, inVars, code>>

\* An environment that is not on record, a file that is gone, or a request that
\* fails, ends the call; nothing of the archive is sent.
PullFails ==
  /\ step = "pull" /\ todo # <<>>
  /\ \/ Can("unknown") /\ archive = <<>> /\ code' = "NOT_FOUND"
     \/ Head(todo) \notin DOMAIN source /\ code' = "NOT_FOUND"
     \/ Can("rest") /\ code' = "ERROR"
  /\ step' = "not_sent" /\ archive' = <<>>
  /\ UNCHANGED <<outVars, inVars>>

\* The archive is complete and goes out in chunks; the runner keeps it and
\* sends it to CopyIn.  What arrives may be damaged.
Send ==
  /\ step = "pull" /\ todo = <<>>
  /\ step' = "receive" /\ wire' = archive
  /\ UNCHANGED <<outVars, archive, level, target, code>>

-----------------------------------------------------------------------------
(* CopyIn.                                                                 *)

\* The environment is looked up with the first chunk, and all chunks are
\* received before anything is done.
Receive ==
  /\ step = "receive"
  /\ \/ wire # <<>> /\ wire' = Tail(wire) /\ UNCHANGED <<step, level, code>>
     \/ wire = <<>> /\ step' = "mkdir" /\ level' = 1 /\ UNCHANGED <<wire, code>>
     \/ /\ \/ Can("envelope") /\ code' = "INVALID_ARGUMENT"
           \/ Can("unknown") /\ wire = archive /\ code' = "NOT_FOUND"
        /\ step' = "not_pushed" /\ UNCHANGED <<wire, level>>
  /\ UNCHANGED <<outVars, archive, target>>

\* The daemon makes neither a file nor a directory without its parent.
HasParent(p) ==
  Len(p) = 1 \/ (Parent(p) \in DOMAIN target /\ target[Parent(p)] = Directory)

Write(p, node) ==
  target' = [q \in DOMAIN target \cup {p} |-> IF q = p THEN node ELSE target[q]]

\* A request that fails ends the call, and what was pushed stays.
PushFails(p, node) ==
  /\ \/ ~HasParent(p) /\ code' = "NOT_FOUND" /\ UNCHANGED target
     \/ /\ Can("rest") /\ code' = "ERROR"
        /\ UNCHANGED target \/ (HasParent(p) /\ Write(p, node))
  /\ step' = "part_pushed"

\* _push_directory_p: one level of dest_path after the other.
Mkdir ==
  /\ step = "mkdir"
  /\ LET p == SubSeq(Dest, 1, level) IN
       \/ /\ level <= Len(Dest) /\ HasParent(p)
          /\ Write(p, Directory) /\ level' = level + 1
          /\ UNCHANGED <<wire, step, code>>
       \/ level <= Len(Dest) /\ PushFails(p, Directory) /\ UNCHANGED <<wire, level>>
       \/ /\ level > Len(Dest)
          /\ wire' = archive /\ step' = "push"
          /\ UNCHANGED <<level, target, code>>
  /\ UNCHANGED <<outVars, archive>>

\* The loop over the archive; wire is what is left of it.
Push ==
  /\ step = "push" /\ wire # <<>>
  /\ LET p == Dest \o Head(wire).path IN
     LET node == Kept(Head(wire).node) IN
       \/ HasParent(p) /\ Write(p, node) /\ wire' = Tail(wire) /\ UNCHANGED <<step, code>>
       \/ PushFails(p, node) /\ UNCHANGED wire
  /\ UNCHANGED <<outVars, archive, level>>

\* tarfile finds the damage when the loop comes to it.
Damaged ==
  /\ step = "push" /\ Can("cut")
  /\ step' = "part_pushed" /\ code' = "INVALID_ARGUMENT"
  /\ UNCHANGED <<outVars, archive, inVars>>

Pushed ==
  /\ step = "push" /\ wire = <<>>
  /\ step' = "pushed" /\ code' = "OK"
  /\ UNCHANGED <<outVars, archive, inVars>>

Next == \/ JobWrites \/ Pull \/ PullFails \/ Send
        \/ Receive \/ Mkdir \/ Push \/ Damaged \/ Pushed

Spec == Init /\ [][Next]_vars

-----------------------------------------------------------------------------
Landing(p) == Dest \o <<Base>> \o p
Levels == {SubSeq(Dest, 1, i) : i \in 1..Len(Dest)}

TypeOK ==
  /\ DOMAIN source \subseteq Paths /\ \A p \in DOMAIN source : source[p] \in Nodes
  /\ touched \in Seq(Paths)
  /\ step \in {"pull", "not_sent", "receive", "not_pushed", "mkdir", "push",
               "part_pushed", "pushed"}
  /\ todo \in Seq(Paths)
  /\ level \in 1..Len(Dest) + 1
  /\ DOMAIN target \subseteq Levels \cup {Landing(p) : p \in Paths}
  /\ code \in {"none", "OK", "NOT_FOUND", "ERROR", "INVALID_ARGUMENT"}

\* However the job changes its files during the walk, the archive has no path
\* twice, and the directory of everything in it before it.
ArchiveOrdered ==
  \A i \in 1..Len(archive) :
    LET p == archive[i].path IN
      /\ \A j \in 1..Len(archive) : archive[j].path = p => j = i
      /\ Len(p) > 1 => \E j \in 1..(i - 1) : archive[j] = [path |-> Parent(p), node |-> Directory]

\* The path was not changed, made or removed during CopyOut, nor was any
\* directory it lies in.
Untouched(p) == \A i \in DOMAIN touched : ~IsPrefix(touched[i], p)

\* When both calls have answered OK every file that stayed as it was has come
\* through, as it was but for its mode if that is 0, whatever happened to its
\* siblings meanwhile; and if nothing happened, nothing else is there.
RoundTrip ==
  step = "pushed" =>
    /\ \A p \in DOMAIN source : Untouched(p) =>
         Landing(p) \in DOMAIN target /\ target[Landing(p)] = Kept(source[p])
    /\ touched = <<>> => DOMAIN target = Levels \cup {Landing(p) : p \in DOMAIN source}

\* What CopyOut packed, CopyIn can unpack: no push misses its directory, even if
\* the files changed during the walk and no level of the destination was there.
Unpacks == step = "part_pushed" => code # "NOT_FOUND"

\* No request of CopyIn undoes an earlier one: the levels of the destination,
\* those that were there and those it made, and all that was pushed stay as
\* they are, whatever files and directories changed places during the walk.
NothingOverwritten ==
  [][\A p \in DOMAIN target : p \in DOMAIN target' /\ target'[p] = target[p]]_vars

=============================================================================
