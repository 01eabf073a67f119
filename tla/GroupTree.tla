----------------------------- MODULE GroupTree -----------------------------
(***************************************************************************)
(* The value of a GroupTree (Schedule/GroupTree.cpp): the function from    *)
(* every group in the tree but the root to its parent.  What cannot be     *)
(* reached from the root is no part of the value: getNode(), getNodes()    *)
(* and deepCopy() only walk down from the root, and a node that is not     *)
(* found there is created anew.                                            *)
(***************************************************************************)
CONSTANTS
  Group,      \* the group names
  Root        \* the name of the root, "FIELD"

ASSUME GroupTreeAssumption == Root \in Group

GroupTrees == UNION {[S -> Group] : S \in SUBSET (Group \ {Root})}

(* The constructor: nothing but the root. *)
EmptyTree == [g \in {} |-> Root]

(* getNodes(), and the names for which getNode() finds a node. *)
Nodes(tree) == DOMAIN tree \union {Root}

(* The groups found below a node, the node itself included: the smallest   *)
(* set that has the node and with every parent its children.               *)
HasItsChildren(tree, S) == \A g \in DOMAIN tree : tree[g] \in S => g \in S

SubTree(tree, node) ==
  LET all == DOMAIN tree \union {node}
  IN  {g \in all : \A S \in SUBSET all : node \in S /\ HasItsChildren(tree, S) => g \in S}

(* The walk from the root meets every node: no cycle, nothing left behind. *)
Rooted(tree) == SubTree(tree, Root) = Nodes(tree)

(* addChildGroup(): hang a node that is not in the tree under a parent. *)
Attach(tree, child, parent) ==
  [g \in DOMAIN tree \union {child} |-> IF g = child THEN parent ELSE tree[g]]

Prune(tree, node) ==
  [g \in DOMAIN tree \ SubTree(tree, node) |-> tree[g]]

(* The parent a name gets, created under the root when it has no node. *)
WithParent(tree, parent) ==
  IF parent \in Nodes(tree) THEN tree ELSE Attach(tree, parent, Root)

(* updateTree() looks up the new parent before it unhooks the child.  When *)
(* the parent lies at or below the child, the child is hung under a node   *)
(* of its own subtree, and the whole of it is cut off from the root.       *)
CutsItselfOff(tree, child, parent) ==
  /\ child \in DOMAIN WithParent(tree, parent)
  /\ parent \in SubTree(WithParent(tree, parent), child)

(* Mistakes updateTree() could make: a new parent is forgotten, or what    *)
(* was cut off is still counted in.                                        *)
UpdateTreeKeepsParent(tree, child, parent) ==
  IF child \in DOMAIN tree THEN tree ELSE Attach(WithParent(tree, parent), child, parent)

UpdateTreeMakesCycle(tree, child, parent) ==
  Attach(WithParent(tree, parent), child, parent)

(* updateTree(child, parent) for a child that is not the root. *)
UpdateTree(tree, child, parent) ==
  IF CutsItselfOff(tree, child, parent)
  THEN Prune(WithParent(tree, parent), child)
  ELSE Attach(WithParent(tree, parent), child, parent)
=============================================================================
