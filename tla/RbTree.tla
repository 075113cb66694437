------------------------------- MODULE RbTree -------------------------------
(***************************************************************************)
(* The red-black tree generated by defs/aae_rb_tree.def: insertion with    *)
(* its rebalancing, searches and the walk in order.  One caller; the       *)
(* descent and the rebalancing loop advance one iteration a step.  A node  *)
(* is named by its key, and keys compare by the default macro, for which   *)
(* the type a difference of two keys has matters.  Reading through a null  *)
(* pointer ends the program ("crashed").                                   *)
(***************************************************************************)
EXTENDS Integers, FiniteSets, FiniteSetsExt

CONSTANTS
  Keys,          (* the keys callers use, values of the key type           *)
  DifferenceRange,   (* the number of values the type of a - b has         *)
  DifferenceSigned,  (* whether that type is signed                        *)
  NIL,           (* the sentinel m_nil                                     *)
  NULL,
  MaxRefusals    (* bound: nodes the arena refuses in a behaviour          *)

ASSUME KeysAssumption ==
  /\ Keys \subseteq Int /\ IsFiniteSet(Keys)
  /\ DifferenceRange \in Nat \ {0} /\ DifferenceSigned \in BOOLEAN
  /\ NIL \notin Keys /\ NULL \notin Keys /\ NIL # NULL
  /\ MaxRefusals \in Nat

VARIABLES
  root,          (* m_root                                                 *)
  left, right, parent, color,
  size,          (* m_size                                                 *)
  pc,            (* "idle", "descend", "balance", "crashed" or "destroyed" *)
  target,        (* the key being inserted                                 *)
  cur,           (* the node the descent or the rebalancing is at          *)
  above,         (* the parent the descent came from                       *)
  refusals       (* nodes refused so far                                   *)

links == <<root, left, right, parent>>
vars == <<links, color, size, pc, target, cur, above, refusals>>

Cells == Keys \union {NIL}

Init ==
  /\ root = NIL
  /\ left = [n \in Cells |-> NIL]
  /\ right = [n \in Cells |-> NIL]
  /\ parent = [n \in Cells |-> NIL]
  /\ color = [n \in Cells |-> "black"]
  /\ size = 0
  /\ pc = "idle" /\ target = NIL /\ cur = NIL /\ above = NIL
  /\ refusals = 0

-----------------------------------------------------------------------------
(* A tree as a value, for the rotations.                                   *)
Tree == [root |-> root, left |-> left, right |-> right, parent |-> parent]

Become(t) ==
  /\ root' = t.root /\ left' = t.left /\ right' = t.right /\ parent' = t.parent

(* Variant: only the root is linked anew.                                  *)
RelinkRoot(t, x, y) == IF t.parent[x] = NIL THEN [t EXCEPT !.root = y] ELSE t

(* The link that leads to x now leads to y.                                *)
Relink(t, x, y) ==
  LET p == t.parent[x]
  IN IF p = NIL THEN [t EXCEPT !.root = y]
     ELSE IF x = t.left[p] THEN [t EXCEPT !.left[p] = y]
     ELSE [t EXCEPT !.right[p] = y]

(* Variant: the subtree that changes sides keeps its parent.               *)
LeftRotateKeepingParent(t, x) ==
  LET y == t.right[x]
      s == [t EXCEPT !.right[x] = t.left[y], !.parent[y] = t.parent[x]]
  IN [Relink(s, x, y) EXCEPT !.left[y] = x, !.parent[x] = y]

LeftRotate(t, x) ==
  LET y == t.right[x]
      b == t.left[y]
      s == [t EXCEPT !.right[x] = b,
                     !.parent = IF b = NIL THEN [@ EXCEPT ![y] = t.parent[x]]
                                ELSE [@ EXCEPT ![b] = x, ![y] = t.parent[x]]]
  IN [Relink(s, x, y) EXCEPT !.left[y] = x, !.parent[x] = y]

RightRotate(t, y) ==
  LET x == t.left[y]
      b == t.right[x]
      s == [t EXCEPT !.left[y] = b,
                     !.parent = IF b = NIL THEN [@ EXCEPT ![x] = t.parent[y]]
                                ELSE [@ EXCEPT ![b] = y, ![x] = t.parent[y]]]
  IN [Relink(s, y, x) EXCEPT !.right[x] = y, !.parent[y] = x]

Rotate(t, x, toLeft) == IF toLeft THEN LeftRotate(t, x) ELSE RightRotate(t, x)

(* A rotation reads through the child that goes up and through the subtree *)
(* that changes sides.                                                     *)
RotationCrashes(t, x, toLeft) ==
  LET up == IF toLeft THEN t.right[x] ELSE t.left[x]
  IN up = NULL \/ (IF toLeft THEN t.left[up] ELSE t.right[up]) = NULL

Crash == pc' = "crashed" /\ UNCHANGED <<links, color>>

(* The end of a call: its locals are gone.                                 *)
Return == pc' = "idle" /\ target' = NIL /\ cur' = NIL /\ above' = NIL

-----------------------------------------------------------------------------
(* The default compare function of the keys: the signum of a - b, which    *)
(* wraps in its type.                                                      *)
Difference(a, b) ==
  LET d == (a - b) % DifferenceRange
  IN IF DifferenceSigned /\ 2 * d >= DifferenceRange THEN d - DifferenceRange ELSE d

Compare(a, b) == IF Difference(a, b) > 0 THEN 1 ELSE IF Difference(a, b) < 0 THEN -1 ELSE 0

(* Variant: the operands are swapped.                                      *)
SmallerSwapped(a, b) == Compare(b, a) < 0

(* A key goes to the left of those it compares below.                      *)
Smaller(a, b) == Compare(a, b) < 0

(* __internal_search, has.                                                 *)
Found(k) ==
  LET search[n \in Keys] ==
        IF k = n THEN TRUE
        ELSE LET child == IF Smaller(k, n) THEN left[n] ELSE right[n]
             IN child \in Keys /\ search[child]
  IN root \in Keys /\ search[root]

(* The nodes of the subtree at n.                                          *)
Below(n) ==
  LET from[m \in Cells \union {NULL}] ==
        IF m \notin Keys THEN {} ELSE {m} \union from[left[m]] \union from[right[m]]
  IN from[n]

InTree == Below(root)

-----------------------------------------------------------------------------
(* insert, and the recursion of __internal_insert_bst.  Bound: a key of    *)
(* the tree that its search no longer finds is not inserted once more.     *)
Insert(k) ==
  /\ pc = "idle" /\ (k \in InTree => Found(k))
  /\ pc' = "descend" /\ target' = k /\ cur' = root /\ above' = NIL
  /\ UNCHANGED <<links, color, size, refusals>>

(* A reference to an invalid node, or a key that is already there: nothing *)
(* is inserted (the value of the node is updated).                         *)
StopDescent ==
  /\ pc = "descend" /\ cur \in {NULL, target}
  /\ Return
  /\ UNCHANGED <<links, color, size, refusals>>

Descend ==
  /\ pc = "descend" /\ cur \in Keys \ {target}
  /\ above' = cur
  /\ cur' = IF Smaller(target, cur) THEN left[cur] ELSE right[cur]
  /\ UNCHANGED <<links, color, size, pc, target, refusals>>

(* The reference that held m_nil takes what the arena answers, ...         *)
Attach(n) ==
  /\ root' = IF above = NIL THEN n ELSE root
  /\ left' = [m \in Cells |-> IF m = n THEN NIL
                              ELSE IF m = above /\ m # NIL /\ Smaller(target, m) THEN n ELSE left[m]]
  /\ right' = [m \in Cells |-> IF m = n THEN NIL
                               ELSE IF m = above /\ m # NIL /\ ~Smaller(target, m) THEN n ELSE right[m]]

(* ... a node, which is made red and balanced, ...                         *)
AttachNode ==
  /\ pc = "descend" /\ cur = NIL
  /\ Attach(target)
  /\ parent' = [parent EXCEPT ![target] = above]
  /\ color' = [color EXCEPT ![target] = "red"]
  /\ size' = size + 1
  /\ pc' = "balance" /\ cur' = target
  /\ UNCHANGED <<target, above, refusals>>

(* ... or the null pointer.                                                *)
AttachNull ==
  /\ pc = "descend" /\ cur = NIL
  /\ refusals < MaxRefusals
  /\ refusals' = refusals + 1
  /\ Attach(NULL)
  /\ Return
  /\ UNCHANGED <<parent, color, size>>

-----------------------------------------------------------------------------
(* __rb_tree_balance, an iteration a step; its two halves are mirror       *)
(* images and differ in the side of the parent.                            *)
OnLeft == parent[cur] = left[parent[parent[cur]]]

Uncle ==
  LET g == parent[parent[cur]] IN IF OnLeft THEN right[g] ELSE left[g]

(* The uncle is red: push the blackness of the grandparent down.           *)
Recolor ==
  LET p == parent[cur]
      g == parent[p]
  IN
  /\ pc = "balance" /\ color[p] = "red"
  /\ Uncle # NULL /\ color[Uncle] = "red"
  /\ color' = [color EXCEPT ![Uncle] = "black", ![p] = "black", ![g] = "red"]
  /\ cur' = g
  /\ UNCHANGED <<links, size, pc, target, above, refusals>>

(* Variant: an inner node is rotated up from the outside only.             *)
RotateOuterOnly ==
  LET p == parent[cur]
      g == parent[p]
  IN
  /\ pc = "balance" /\ color[p] = "red"
  /\ Uncle # NULL /\ color[Uncle] = "black"
  /\ color' = [color EXCEPT ![p] = "black", ![g] = "red"]
  /\ Become(Rotate(Tree, g, ~OnLeft))
  /\ UNCHANGED <<size, pc, target, cur, above, refusals>>

(* The uncle is black: an inner node is first rotated to the outside, then *)
(* the grandparent is rotated down.                                        *)
RotateUp ==
  LET p == parent[cur]
      inner == cur = IF OnLeft THEN right[p] ELSE left[p]
      n == IF inner THEN p ELSE cur
      t == IF inner THEN Rotate(Tree, p, OnLeft) ELSE Tree
      g == t.parent[t.parent[n]]
  IN
  /\ pc = "balance" /\ color[p] = "red"
  /\ Uncle # NULL /\ color[Uncle] = "black"
  /\ \/ /\ (inner /\ RotationCrashes(Tree, p, OnLeft)) \/ RotationCrashes(t, g, ~OnLeft)
        /\ Crash
        /\ UNCHANGED cur
     \/ /\ ~(inner /\ RotationCrashes(Tree, p, OnLeft)) /\ ~RotationCrashes(t, g, ~OnLeft)
        /\ color' = [color EXCEPT ![t.parent[n]] = "black", ![g] = "red"]
        /\ Become(Rotate(t, g, ~OnLeft))
        /\ cur' = n
        /\ UNCHANGED pc
  /\ UNCHANGED <<size, target, above, refusals>>

(* The uncle is read through a null pointer.                               *)
NullUncle ==
  /\ pc = "balance" /\ color[parent[cur]] = "red" /\ Uncle = NULL
  /\ Crash
  /\ UNCHANGED <<size, target, cur, above, refusals>>

(* Variant: the root keeps the color it was given.                         *)
BalancedRootAsIs ==
  /\ pc = "balance" /\ color[parent[cur]] = "black"
  /\ Return
  /\ UNCHANGED <<links, color, size, refusals>>

(* The loop ends and the root is made black.                               *)
Balanced ==
  /\ pc = "balance" /\ color[parent[cur]] = "black"
  /\ color' = [color EXCEPT ![root] = "black"]
  /\ Return
  /\ UNCHANGED <<links, size, refusals>>

-----------------------------------------------------------------------------
(* The destructor deletes every node and then the sentinel.  It goes down  *)
(* every link that does not lead to the sentinel, a null one included.     *)
NullLink == NULL \in {root} \union {left[n] : n \in InTree} \union {right[n] : n \in InTree}

Destroy ==
  /\ pc = "idle" /\ ~NullLink
  /\ root' = NIL /\ size' = 0 /\ pc' = "destroyed"
  /\ left' = [n \in Cells |-> NIL] /\ right' = [n \in Cells |-> NIL]
  /\ parent' = [n \in Cells |-> NIL] /\ color' = [n \in Cells |-> "black"]
  /\ UNCHANGED <<target, cur, above, refusals>>

DestroyNull ==
  /\ pc = "idle" /\ NullLink
  /\ Crash
  /\ UNCHANGED <<size, target, cur, above, refusals>>

-----------------------------------------------------------------------------
Continue ==
  \/ StopDescent \/ Descend \/ AttachNode \/ AttachNull
  \/ Recolor \/ RotateUp \/ NullUncle \/ Balanced

Next == (\E k \in Keys : Insert(k)) \/ Destroy \/ DestroyNull \/ Continue

Spec == Init /\ [][Next]_vars

(* An insertion that has begun runs to its end.                            *)
FairSpec == Spec /\ WF_vars(Continue)

-----------------------------------------------------------------------------
(* __rb_tree_first and __rb_tree_last, and the step to the neighbour in    *)
(* key order, down into a subtree or up through the parents.               *)
Leftmost(n) ==
  LET down[m \in Keys] == IF left[m] \in Keys THEN down[left[m]] ELSE m IN down[n]

Rightmost(n) ==
  LET down[m \in Keys] == IF right[m] \in Keys THEN down[right[m]] ELSE m IN down[n]

First == IF root = NIL THEN NIL ELSE Leftmost(root)

Last == IF root = NIL THEN NIL ELSE Rightmost(root)

(* Variant: the parent, whichever side the node hangs on.                  *)
NextUpOnce(x) == IF right[x] # NIL THEN Leftmost(right[x]) ELSE parent[x]

NextNode(x) ==
  IF right[x] # NIL THEN Leftmost(right[x])
  ELSE LET up[m \in Keys] == IF m = right[parent[m]] THEN up[parent[m]] ELSE parent[m]
       IN up[x]

PreviousNode(x) ==
  IF left[x] # NIL THEN Rightmost(left[x])
  ELSE LET up[m \in Keys] == IF m = left[parent[m]] THEN up[parent[m]] ELSE parent[m]
       IN up[x]

-----------------------------------------------------------------------------
(* The black nodes on a path down from n, or -1 when two paths differ.     *)
BlackHeight(n) ==
  LET h[m \in Cells \union {NULL}] ==
        IF m \notin Keys THEN 0
        ELSE IF h[left[m]] # h[right[m]] \/ h[left[m]] = -1 THEN -1
        ELSE h[left[m]] + (IF color[m] = "black" THEN 1 ELSE 0)
  IN h[n]

(* Keys to the left are smaller and keys to the right larger, in the whole *)
(* subtree and between any two rotations.                                  *)
SearchOrder ==
  \A n \in InTree :
    /\ \A m \in Below(left[n]) : m < n
    /\ \A m \in Below(right[n]) : m > n

(* Every child knows its parent, the root has none, the sentinel is never  *)
(* written, and m_size counts the nodes.                                   *)
Linked ==
  /\ \A n \in InTree : \A c \in {left[n], right[n]} \intersect Keys : parent[c] = n
  /\ root \in Keys => parent[root] = NIL
  /\ left[NIL] = NIL /\ right[NIL] = NIL /\ parent[NIL] = NIL /\ color[NIL] = "black"
  /\ size = Cardinality(InTree)

(* Between two insertions the root is black, no red node has a red child   *)
(* and every path carries the same number of black nodes; while one is     *)
(* being balanced only the node it is at may break this, with its parent   *)
(* or, at the root, with its own color.                                    *)
RedBlack ==
  /\ BlackHeight(root) >= 0
  /\ \A n \in InTree :
       color[n] = "red" /\ color[parent[n]] = "red" => n = cur /\ pc \in {"balance", "crashed"}
  /\ root \in Keys /\ color[root] = "red" => root = cur /\ pc = "balance"

(* __rb_tree_next and __rb_tree_previous visit the keys in order, and no   *)
(* key of the tree escapes a search, as long as no node was refused.       *)
WalkInOrder ==
  pc = "idle" /\ refusals = 0 =>
    \A n \in InTree :
      LET above_n == {m \in InTree : m > n}
          below_n == {m \in InTree : m < n}
      IN /\ NextNode(n) = IF above_n = {} THEN NIL ELSE Min(above_n)
         /\ PreviousNode(n) = IF below_n = {} THEN NIL ELSE Max(below_n)
         /\ First = Min(InTree) /\ Last = Max(InTree)
         /\ Found(n)

(* An insertion ends, with its key in the tree unless a node was refused:  *)
(* then it may end without, or end the program.                            *)
InsertionEnds ==
  \A k \in Keys :
    pc # "idle" /\ target = k
    ~> \/ pc = "idle" /\ (k \in InTree \/ refusals > 0)
       \/ pc = "crashed" /\ refusals > 0

(* The keys inserted before stay, whatever is rotated or refused.          *)
KeysStay == [][InTree \subseteq InTree' \/ pc' = "destroyed"]_vars
=============================================================================
