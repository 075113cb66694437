---------------------------- MODULE RbTreeRemoval ----------------------------
(***************************************************************************)
(* remove of defs/aae_rb_tree.def on the trees that insert builds: the     *)
(* unlinking of a node, the rebalancing loop of                            *)
(* __tb_tree_fix_after_deletion, an iteration a step, and the exchange of  *)
(* the deleted node with its successor.  The arena refuses nothing here.   *)
(*                                                                         *)
(* A call of remove is followed to its end, also where it changes a wrong  *)
(* link; a tree with a link to a deleted node is not used any further.     *)
(***************************************************************************)
EXTENDS RbTree

CONSTANT
  Ordered      (* bound: keys that are inserted only above all others      *)

ASSUME OrderedAssumption == Ordered \subseteq Keys

(* The key type is signed and the difference of any two keys fits it: only *)
(* then does the default compare function order them.                      *)
ASSUME KeysFitAssumption ==
  /\ DifferenceSigned
  /\ \A a, b \in Keys : 2 * (a - b) < DifferenceRange /\ -DifferenceRange <= 2 * (a - b)

VARIABLES
  alive,       (* the nodes allocated and not yet deleted                  *)
  spliced      (* y: the node remove takes out of its place                *)

removalVars == <<vars, alive, spliced>>

RemovalInit == Init /\ alive = {} /\ spliced = NIL

-----------------------------------------------------------------------------
(* What the links lead to, whatever they look like.                        *)
Reached ==
  LET step(S) == S \union (({left[n] : n \in S} \union {right[n] : n \in S}) \ {NIL})
      from[i \in 0 .. Cardinality(Keys)] ==
        IF i = 0 THEN {root} \ {NIL} ELSE step(from[i - 1])
  IN from[Cardinality(Keys)]

Dangling == ~(Reached \subseteq alive)

(* remove: the node with at most one child that leaves its place, ...      *)
Leaver(k) == IF left[k] = NIL \/ right[k] = NIL THEN k ELSE NextNode(k)

OnlyChild(y) == IF left[y] = NIL THEN right[y] ELSE left[y]

(* Variant: the child of the parent is always the right one.               *)
SpliceRight(y, x) ==
  /\ left' = left
  /\ right' = [right EXCEPT ![parent[y]] = x]

(* ... and how its parent gets its child: a parent that is the root takes  *)
(* it on the left.  The parent of the root is the sentinel, whose right    *)
(* link is written then; the root pointer is not.                          *)
Splice(y, x) ==
  LET p == parent[y]
      onLeft == p = root \/ y = left[p]
  IN /\ left' = IF onLeft THEN [left EXCEPT ![p] = x] ELSE left
     /\ right' = IF onLeft THEN right ELSE [right EXCEPT ![p] = x]

RemoveAbsent(k) ==
  /\ pc = "idle" /\ ~Dangling /\ ~Found(k)
  /\ UNCHANGED removalVars

BeginRemove(k) ==
  LET y == Leaver(k)
      x == OnlyChild(y)
  IN
  /\ pc = "idle" /\ ~Dangling /\ Found(k)
  /\ target' = k /\ spliced' = y /\ cur' = x
  /\ Splice(y, x)
  /\ parent' = [parent EXCEPT ![x] = parent[y]]
  /\ pc' = IF color[y] = "red" THEN "exchange" ELSE "fix"
  /\ UNCHANGED <<root, color, size, above, refusals, alive>>

-----------------------------------------------------------------------------
(* __tb_tree_fix_after_deletion.  The side of the node, its parent and the *)
(* other child of the parent, in a tree t; the two halves of the loop are  *)
(* mirror images.                                                          *)
FixOnLeft == cur = left[parent[cur]]

Sibling(t) == IF FixOnLeft THEN t.right[t.parent[cur]] ELSE t.left[t.parent[cur]]

Near(t, w) == IF FixOnLeft THEN t.left[w] ELSE t.right[w]

Far(t, w) == IF FixOnLeft THEN t.right[w] ELSE t.left[w]

(* A red sibling is rotated over the parent first.                         *)
AfterRedSibling ==
  IF color[Sibling(Tree)] = "red" THEN Rotate(Tree, parent[cur], FixOnLeft) ELSE Tree

ColorAfterRedSibling ==
  IF color[Sibling(Tree)] = "red"
  THEN [color EXCEPT ![Sibling(Tree)] = "black", ![parent[cur]] = "red"] ELSE color

(* Variant: the sibling stays black.                                       *)
FixUpUncolored ==
  LET t == AfterRedSibling
      c == ColorAfterRedSibling
      w == Sibling(t)
  IN
  /\ pc = "fix" /\ color[cur] = "black" /\ cur # root
  /\ c[t.left[w]] = "black" /\ c[t.right[w]] = "black"
  /\ Become(t)
  /\ color' = c
  /\ cur' = t.parent[cur]
  /\ UNCHANGED <<size, pc, target, above, refusals, alive, spliced>>

(* Both children of the sibling are black: it turns red and the loop goes  *)
(* on at the parent.                                                       *)
FixUp ==
  LET t == AfterRedSibling
      c == ColorAfterRedSibling
      w == Sibling(t)
  IN
  /\ pc = "fix" /\ color[cur] = "black" /\ cur # root
  /\ c[t.left[w]] = "black" /\ c[t.right[w]] = "black"
  /\ Become(t)
  /\ color' = [c EXCEPT ![w] = "red"]
  /\ cur' = t.parent[cur]
  /\ UNCHANGED <<size, pc, target, above, refusals, alive, spliced>>

(* Variant: the loop is not told to end.                                   *)
StayAt(t) == cur

(* What ends the loop after a rotation of the parent.                      *)
EndAt(t) == t.root

(* Else its far child is made red, if need be by a rotation of the         *)
(* sibling, and the parent is rotated: the loop ends at the root.          *)
FixRotate ==
  LET t == AfterRedSibling
      c == ColorAfterRedSibling
      w == Sibling(t)
      inner == c[Far(t, w)] = "black"
      t2 == IF inner THEN Rotate(t, w, ~FixOnLeft) ELSE t
      c2 == IF inner THEN [c EXCEPT ![Near(t, w)] = "black", ![w] = "red"] ELSE c
      w2 == Sibling(t2)
      p == t2.parent[cur]
      t3 == Rotate(t2, p, FixOnLeft)
  IN
  /\ pc = "fix" /\ color[cur] = "black" /\ cur # root
  /\ ~(c[t.left[w]] = "black" /\ c[t.right[w]] = "black")
  /\ Become(t3)
  /\ color' = [c2 EXCEPT ![w2] = c2[p], ![p] = "black", ![Far(t2, w2)] = "black"]
  /\ cur' = EndAt(t3)
  /\ UNCHANGED <<size, pc, target, above, refusals, alive, spliced>>

FixDone ==
  /\ pc = "fix" /\ (color[cur] = "red" \/ cur = root)
  /\ color' = [color EXCEPT ![cur] = "black"]
  /\ pc' = "exchange"
  /\ UNCHANGED <<links, size, target, cur, above, refusals, alive, spliced>>

(* The end of remove: the successor, if it is what was taken out, takes    *)
(* the place of the deleted node, except at the root, which is not moved.  *)
TakePlace(t, y, k) ==
  LET p == t.parent[k]
      moved == [t EXCEPT !.left[y] = t.left[k], !.right[y] = t.right[k],
                         !.parent = [@ EXCEPT ![y] = p, ![t.left[k]] = y, ![t.right[k]] = y]]
  IN IF k = t.left[p] THEN [moved EXCEPT !.left[p] = y] ELSE [moved EXCEPT !.right[p] = y]

(* What a deleted node contains means nothing any more.                    *)
Delete(t, k) == [t EXCEPT !.left[k] = NIL, !.right[k] = NIL, !.parent[k] = NIL]

Exchange ==
  LET y == spliced
      k == target
  IN
  /\ pc = "exchange"
  /\ Become(Delete(IF y = k THEN Tree ELSE TakePlace(Tree, y, k), k))
  /\ color' = [color EXCEPT ![y] = color[k], ![k] = "black"]
  /\ alive' = alive \ {k}
  /\ size' = size - 1
  /\ Return /\ spliced' = NIL
  /\ UNCHANGED refusals

-----------------------------------------------------------------------------
(* A call begins on a tree without a link to a deleted node, ...           *)
Begin(k) ==
  \/ /\ ~Dangling /\ (k \in Ordered => \A m \in alive : m <= k)
     /\ Insert(k)
     /\ UNCHANGED <<alive, spliced>>
  \/ BeginRemove(k)
  \/ RemoveAbsent(k)

(* ... and goes on.                                                        *)
RemovalContinue ==
  \/ /\ StopDescent \/ Descend \/ Recolor \/ RotateUp \/ Balanced
     /\ UNCHANGED <<alive, spliced>>
  \/ AttachNode /\ alive' = alive \union {target} /\ UNCHANGED spliced
  \/ FixUp \/ FixRotate \/ FixDone \/ Exchange

RemovalNext == (\E k \in Keys : Begin(k)) \/ RemovalContinue

RemovalSpec == RemovalInit /\ [][RemovalNext]_removalVars

-----------------------------------------------------------------------------
(* Between two calls a tree whose links lead to live nodes only is a       *)
(* search tree and a red-black tree, reaches every node that is alive, and *)
(* its size is right: a removal that goes wrong is seen in its links.      *)
StillTree ==
  pc = "idle" /\ ~Dangling =>
    /\ SearchOrder
    /\ BlackHeight(root) >= 0
    /\ \A n \in InTree : color[n] = "red" => color[parent[n]] = "black"
    /\ \A n \in InTree : \A c \in {left[n], right[n]} \ {NIL} : parent[c] = n
    /\ InTree = alive /\ size = Cardinality(alive)

(* Wherever remove leaves a link to a deleted node, it is the root pointer *)
(* or the link from the root to its right child.                           *)
DanglingOnlyAtRoot ==
  pc = "idle" => Reached \ alive \subseteq {root, right[root]}

(* m_size is the number of nodes in the tree, as its comment says.         *)
SizeIsNodes == pc = "idle" => size = Cardinality(Reached)

(* Black nodes on a path down from n when cur, wherever it hangs, counts   *)
(* one more; -1 when two paths differ.                                     *)
BlackHeightCounting(extra) ==
  LET at(h, n, child, onLeft) ==
        h[child] + (IF n = parent[cur] /\ onLeft = FixOnLeft THEN extra ELSE 0)
      from[n \in Cells] ==
        IF n = NIL THEN 0
        ELSE LET l == at(from, n, left[n], TRUE)
                 r == at(from, n, right[n], FALSE)
             IN IF l # r \/ from[left[n]] = -1 \/ from[right[n]] = -1 THEN -1
                ELSE l + (IF color[n] = "black" THEN 1 ELSE 0)
  IN from[root]

(* Between any two rounds of the rebalancing, once the links no longer     *)
(* lead to the node that left, the keys are in order and the tree lacks    *)
(* one black node, at the node the loop has come to: only there may two    *)
(* red nodes meet, and counting it twice makes all paths equal.            *)
OneBlackMissing ==
  pc = "fix" /\ spliced \notin Reached =>
    /\ SearchOrder
    /\ cur = root \/ BlackHeightCounting(1) >= 0
    /\ cur = root => BlackHeight(root) >= 0
    /\ \A n \in InTree : color[n] = "red" /\ color[parent[n]] = "red"
                         => cur \in {n, parent[n]}
=============================================================================
