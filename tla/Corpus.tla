-------------------------------- MODULE Corpus --------------------------------
(***************************************************************************)
(* The walk of src/discovery.rs over the log directory, while somebody     *)
(* else may change what is in it.                                          *)
(*                                                                         *)
(* A path is the sequence of its names: first that of the directory        *)
(* searched, then numbers, in the order of the names they stand for.  A    *)
(* directory is listed at one moment, an entry looked at in another; what  *)
(* an entry is, file or directory, comes with the listing.                 *)
(***************************************************************************)
EXTENDS Integers, Sequences, FiniteSets

CONSTANTS
  Excluded,    \* names of what is no log: dot-files, readme.md, *_label.txt, *_labels.txt
  MaxChanges   \* most changes made by others during the walk

ASSUME CorpusAssumption == MaxChanges \in Nat

VARIABLES
  disk,     \* the nodes by path: files, directories, links
  walk,     \* "idle", "walking", "done" or "failed"
  root,     \* the directory searched
  stack,    \* directories still to be read
  todo,     \* entries of the directory being read: their path and kind
  found,    \* the files taken, in the order met, at last in that of their paths
  changes   \* history: changes made by others

corpusVars == <<disk, walk, root, stack, todo, found, changes>>

\* Kinds of nodes.  All have a size, `shared' if the mode gives group or others the right to
\* read, and `opens' if this process can open the file, or list the directory; a file has
\* `lines' in terms of what validate tells apart, and `breaks' if reads behind them fail, again
\* and again; a link has where it leads to, somewhere else or nowhere.  What is reached through
\* a link to a directory has a path below that of the link.
Directory(opens) == [kind |-> "dir", size |-> 1, shared |-> opens, opens |-> opens]
File(size, shared, opens, lines, breaks) ==
  [kind |-> "file", size |-> size, shared |-> shared, opens |-> opens, lines |-> lines, breaks |-> breaks]
Nowhere == [kind |-> "none", shared |-> FALSE, opens |-> FALSE]
Link(to) == [kind |-> "link", size |-> 1, to |-> to]

Targets ==
  [kind : {"dir"}, size : Nat, shared : BOOLEAN, opens : BOOLEAN]
    \cup [kind : {"file"}, size : Nat, shared : BOOLEAN, opens : BOOLEAN,
          lines : Seq({"plain", "dated", "yearless", "bad"}), breaks : BOOLEAN]
Nodes == Targets \cup [kind : {"link"}, size : Nat, to : Targets \cup {Nowhere}]
IsPath(p) == p = <<p[1]>> \o Tail(p) /\ p[1] \in STRING /\ Tail(p) \in Seq(Nat)

Exists(p) == p \in DOMAIN disk

\* What is at a path for those that follow links, as fs::metadata and File::open do.
At(p) == IF disk[p].kind = "link" THEN disk[p].to ELSE disk[p]
IsDir(p) == Exists(p) /\ At(p).kind = "dir"
IsFile(p) == Exists(p) /\ At(p).kind = "file"
Parent(p) == SubSeq(p, 1, Len(p) - 1)
Under(p, dir) == Len(p) >= Len(dir) /\ SubSeq(p, 1, Len(dir)) = dir
Children(dir) == {p \in DOMAIN disk : Len(p) = Len(dir) + 1 /\ Under(p, dir)}

\* The order of paths below the same directory: by the first name that differs,
\* a directory before what is in it.
Before(p, q) ==
  \/ Len(p) < Len(q) /\ Under(q, p)
  \/ \E i \in 2..Len(p) : i =< Len(q) /\ p[i] < q[i] /\ \A j \in 2..(i - 1) : p[j] = q[j]

\* Mistake: files are left in the order they were met in.
SortedUnsorted(files) == files

Sorted(files) ==
  [i \in DOMAIN files |->
     CHOOSE f \in {files[k] : k \in DOMAIN files} :
       Cardinality({k \in DOMAIN files : Before(files[k], f)}) = i - 1]
----------------------------------------------------------------------------
(* The walk. *)

Walking == walk = "walking"

\* What a walk needs: a directory that is there.
WalkStarts(dir) ==
  /\ root' = dir
  /\ IF IsDir(dir) THEN walk' = "walking" /\ stack' = <<dir>>
                   ELSE walk' = "failed" /\ UNCHANGED stack
  /\ UNCHANGED <<disk, todo, found, changes>>

\* Mistakes: a directory that cannot be read ends the walk; it stays on the stack.
ReadDirGivingUp ==
  /\ Walking /\ todo = {} /\ stack # <<>>
  /\ LET dir == stack[Len(stack)] IN
     IF IsDir(dir) /\ At(dir).opens
     THEN /\ todo' = {[path |-> p, kind |-> disk[p].kind] : p \in Children(dir)}
          /\ stack' = SubSeq(stack, 1, Len(stack) - 1)
     ELSE UNCHANGED todo /\ stack' = <<>>
  /\ UNCHANGED <<disk, walk, root, found, changes>>
ReadDirStaying ==
  /\ Walking /\ todo = {} /\ stack # <<>>
  /\ LET dir == stack[Len(stack)] IN
     IF IsDir(dir) /\ At(dir).opens
     THEN /\ todo' = {[path |-> p, kind |-> disk[p].kind] : p \in Children(dir)}
          /\ stack' = SubSeq(stack, 1, Len(stack) - 1)
     ELSE UNCHANGED <<todo, stack>>
  /\ UNCHANGED <<disk, walk, root, found, changes>>

\* The directory on top of the stack is listed; one that cannot be is passed over.
ReadDir ==
  /\ Walking /\ todo = {} /\ stack # <<>>
  /\ stack' = SubSeq(stack, 1, Len(stack) - 1)
  /\ LET dir == stack[Len(stack)] IN
     todo' = IF IsDir(dir) /\ At(dir).opens
             THEN {[path |-> p, kind |-> disk[p].kind] : p \in Children(dir)} ELSE {}
  /\ UNCHANGED <<disk, walk, root, found, changes>>

\* What was listed as a file is taken by its name, its size, of the entry itself, and its
\* permission bits, for which a link is followed: should it have become one, or a directory,
\* meanwhile, that goes unnoticed.
Eligible(p) ==
  /\ p[Len(p)] \notin Excluded
  /\ Exists(p) /\ disk[p].size > 0 /\ At(p).shared

\* The entries come in any order; links and other things are passed over.
Entry(e) ==
  /\ Walking /\ e \in todo
  /\ todo' = todo \ {e}
  /\ stack' = IF e.kind = "dir" THEN Append(stack, e.path) ELSE stack
  /\ found' = IF e.kind = "file" /\ Eligible(e.path) THEN Append(found, e.path) ELSE found
  /\ UNCHANGED <<disk, walk, root, changes>>

\* Mistake: the walk may end with a directory that had files.
WalkEndsEarly ==
  /\ Walking /\ todo = {} /\ (stack = <<>> \/ found # <<>>)
  /\ walk' = "done" /\ found' = Sorted(found)
  /\ UNCHANGED <<disk, root, stack, todo, changes>>

WalkEnds ==
  /\ Walking /\ todo = {} /\ stack = <<>>
  /\ walk' = "done" /\ found' = Sorted(found)
  /\ UNCHANGED <<disk, root, stack, todo, changes>>

Walk == ReadDir \/ (\E e \in todo : Entry(e)) \/ WalkEnds
----------------------------------------------------------------------------
(* The others: something is removed with what is under it, or loses its    *)
(* permissions, or appears.                                                *)

Without(p) == [q \in {r \in DOMAIN disk : ~Under(r, p)} |-> disk[q]]
Shut(node) == [node EXCEPT !.shared = FALSE, !.opens = FALSE]
ShutThrough(node) == IF node.kind = "link" THEN [node EXCEPT !.to = Shut(node.to)] ELSE Shut(node)
Locked(p) == [disk EXCEPT ![p] = ShutThrough(disk[p])]
With(p, node) == [q \in DOMAIN disk \cup {p} |-> IF q = p THEN node ELSE disk[q]]

Change(new, node) ==
  /\ Walking /\ changes < MaxChanges /\ changes' = changes + 1
  /\ \/ \E p \in {q \in DOMAIN disk : Len(q) > 1} : disk' \in {Without(p), Locked(p)}
     \/ ~Exists(new) /\ IsDir(Parent(new)) /\ disk' = With(new, node)
  /\ UNCHANGED <<walk, root, stack, todo, found>>

CorpusInit == walk = "idle" /\ root = <<>> /\ stack = <<>> /\ todo = {} /\ found = <<>> /\ changes = 0
----------------------------------------------------------------------------
CorpusTypes ==
  /\ walk \in {"idle", "walking", "done", "failed"}
  /\ \A i \in DOMAIN stack : Len(stack[i]) >= 1
  /\ \A e \in todo : Len(e.path) > 1 /\ e.kind \in {"dir", "file", "link"}
  /\ changes \in 0..MaxChanges
  /\ walk # "walking" => todo = {} /\ stack = <<>>

\* A directory of the corpus: its root, which a link may lead to, or one that no link does.
Branch(p) == IsDir(p) /\ (p = root \/ disk[p].kind = "dir")

\* The files an inventory should have: every file that qualifies, below directories
\* that can all be listed, links not followed.
Inventory ==
  {p \in DOMAIN disk :
     /\ Len(p) > Len(root) /\ Under(p, root) /\ disk[p].kind = "file" /\ Eligible(p)
     /\ \A n \in Len(root)..(Len(p) - 1) : Branch(SubSeq(p, 1, n)) /\ At(SubSeq(p, 1, n)).opens}

\* Of a corpus at rest the inventory is complete, and holds nothing else and nothing
\* twice, whatever the order in which the file system gives the entries.
InventoryExact ==
  walk = "done" /\ changes = 0 =>
    {found[i] : i \in DOMAIN found} = Inventory /\ Len(found) = Cardinality(Inventory)

\* However the corpus changes under the walk, no file is listed twice and the list is
\* in the order of the paths: the draws of a seeded run depend on both.
ListedOnce ==
  walk = "done" => \A i, j \in DOMAIN found : i < j => Before(found[i], found[j])

\* Everything that should be in the inventory is, once, and in order.
InventoryTrue == InventoryExact /\ ListedOnce
===============================================================================
