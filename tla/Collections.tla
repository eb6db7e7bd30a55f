---------------------------- MODULE Collections ----------------------------
(* The collections of src/core: the doubly linked list, the hash table with   *)
(* separate chaining, the tree and the binary tree.  A behaviour is a series  *)
(* of calls on one of them, with the nodes that earlier calls returned; nodes *)
(* are numbers in the order they are created, and the value of a node is the  *)
(* node.                                                                      *)
EXTENDS Integers, SequencesExt

CONSTANTS MaxNodes,          \* bound: nodes ever created
          Keys, Values,      \* of the hash table
          Hash,              \* _hash: [Keys -> Nat]
          Initial,           \* initialCapacity
          Load, Per,         \* loadFactor = Load / Per
          Kinds, MaxCalls    \* bound: calls on the table

VARIABLES kind,    \* which of the four
          list,    \* [head, tail, size, next, prev]
          table,   \* [buckets, size]
          tree,    \* [root, size, kids]: the binary tree has the kids <<left, right>>
          made,    \* nodes created so far
          held     \* what the calls so far should have left: a sequence, a map, edges
vars == <<kind, list, table, tree, made, held>>

Nil == 0
Nodes == 1..MaxNodes
NoLinks == [n \in Nodes |-> Nil]
EmptyList == [head |-> Nil, tail |-> Nil, size |-> 0, next |-> NoLinks, prev |-> NoLinks]
EmptyTable == [buckets |-> [i \in 0..(Initial - 1) |-> <<>>], size |-> 0]
EmptyTree == [root |-> Nil, size |-> 0, kids |-> [n \in Nodes |-> <<>>]]

Init == /\ kind \in Kinds
        /\ list = EmptyList /\ table = EmptyTable /\ tree = EmptyTree
        /\ made = 0
        /\ held = <<>>

New == made + 1
CanMake == made < MaxNodes /\ made' = made + 1

----------------------------------------------------------------------------
(* LinkedList                                                                 *)

AddToHead(l, n) ==
    IF l.head = Nil THEN [l EXCEPT !.head = n, !.tail = n, !.size = @ + 1]
    ELSE [l EXCEPT !.head = n, !.size = @ + 1, !.next[n] = l.head, !.prev[l.head] = n]
AddToTail(l, n) ==
    IF l.tail = Nil THEN [l EXCEPT !.head = n, !.tail = n, !.size = @ + 1]
    ELSE [l EXCEPT !.tail = n, !.size = @ + 1, !.prev[n] = l.tail, !.next[l.tail] = n]
AddAfter(l, ref, n) ==
    LET linked == [l EXCEPT !.next = [@ EXCEPT ![n] = l.next[ref], ![ref] = n], !.prev[n] = ref, !.size = @ + 1] IN
    IF l.next[ref] = Nil THEN [linked EXCEPT !.tail = n] ELSE [linked EXCEPT !.prev[l.next[ref]] = n]
AddBefore(l, ref, n) ==
    LET linked == [l EXCEPT !.prev = [@ EXCEPT ![n] = l.prev[ref], ![ref] = n], !.next[n] = ref, !.size = @ + 1] IN
    IF l.prev[ref] = Nil THEN [linked EXCEPT !.head = n] ELSE [linked EXCEPT !.next[l.prev[ref]] = n]

\* Mutant: the tail is not moved.
RemoveKeepingTail(l, n) ==
    LET ahead == IF l.prev[n] = Nil THEN [l EXCEPT !.head = l.next[n]] ELSE [l EXCEPT !.next[l.prev[n]] = l.next[n]]
        back == IF l.next[n] = Nil THEN ahead ELSE [ahead EXCEPT !.prev[l.next[n]] = l.prev[n]]
    IN  [back EXCEPT !.size = @ - 1]

\* The node that is removed keeps its own links.
RemoveNode(l, n) ==
    LET ahead == IF l.prev[n] = Nil THEN [l EXCEPT !.head = l.next[n]] ELSE [l EXCEPT !.next[l.prev[n]] = l.next[n]]
        back == IF l.next[n] = Nil THEN [ahead EXCEPT !.tail = l.prev[n]] ELSE [ahead EXCEPT !.prev[l.next[n]] = l.prev[n]]
    IN  [back EXCEPT !.size = @ - 1]

\* toArray(), toArrayReverse(), at(), find(), findLast() and the iterators walk
\* from the head by next or from the tail by prev.
Walk(first, link) ==
    LET at[i \in 1..(MaxNodes + 1)] == IF i = 1 THEN first ELSE IF at[i - 1] = Nil THEN Nil ELSE link[at[i - 1]]
        cells == [i \in 1..(MaxNodes + 1) |-> at[i]]
    IN  SelectSeq(cells, LAMBDA n : n # Nil)

Position(n) == CHOOSE i \in DOMAIN held : held[i] = n
Drop(i) == SubSeq(held, 1, i - 1) \o SubSeq(held, i + 1, Len(held))

ListCall ==
    /\ kind = "list"
    /\ \/ CanMake /\ list' = AddToHead(list, New) /\ held' = <<New>> \o held
       \/ CanMake /\ list' = AddToTail(list, New) /\ held' = Append(held, New)
       \/ \E ref \in ToSet(held) : CanMake /\ list' = AddAfter(list, ref, New)
                                   /\ held' = InsertAt(held, Position(ref) + 1, New)
       \/ \E ref \in ToSet(held) : CanMake /\ list' = AddBefore(list, ref, New)
                                   /\ held' = InsertAt(held, Position(ref), New)
       \/ \E n \in ToSet(held) : list' = RemoveNode(list, n) /\ held' = Drop(Position(n)) /\ made' = made
       \/ held # <<>> /\ list' = RemoveNode(list, list.head) /\ held' = Tail(held) /\ made' = made
       \/ held # <<>> /\ list' = RemoveNode(list, list.tail) /\ held' = Front(held) /\ made' = made
       \/ held # <<>> /\ list' = [list EXCEPT !.head = Nil, !.tail = Nil, !.size = 0] /\ held' = <<>> /\ made' = made
    /\ UNCHANGED <<kind, table, tree>>

----------------------------------------------------------------------------
(* HashTable                                                                  *)

Capacity(t) == Cardinality(DOMAIN t.buckets)
Index(t, k) == Hash[k] % Capacity(t)
Has(t, k) == \E i \in DOMAIN t.buckets[Index(t, k)] : t.buckets[Index(t, k)][i].key = k
Find(t, k) == LET b == t.buckets[Index(t, k)] IN b[CHOOSE i \in DOMAIN b : b[i].key = k].value

\* A resize empties the table into twice the buckets through set(), which may
\* itself resize again.
RECURSIVE SetEntry(_, _, _)
Resize(t) ==
    LET old == FlattenSeq([i \in 1..Capacity(t) |-> t.buckets[i - 1]])
    IN  FoldLeft(LAMBDA u, e : SetEntry(u, e.key, e.value),
                 [buckets |-> [i \in 0..(2 * Capacity(t) - 1) |-> <<>>], size |-> 0], old)
SetEntry(t, k, v) ==
    LET i == Index(t, k) b == t.buckets[i]
        added == [t EXCEPT !.buckets[i] = Append(@, [key |-> k, value |-> v]), !.size = @ + 1]
    IN  IF Has(t, k)
        THEN [t EXCEPT !.buckets[i] = [j \in DOMAIN b |-> IF b[j].key = k THEN [key |-> k, value |-> v] ELSE b[j]]]
        ELSE IF added.size * Per > Capacity(added) * Load THEN Resize(added) ELSE added
Delete(t, k) ==
    IF Has(t, k) THEN [t EXCEPT !.buckets[Index(t, k)] = SelectSeq(@, LAMBDA e : e.key # k), !.size = @ - 1] ELSE t
Clear(t) == [buckets |-> [i \in DOMAIN t.buckets |-> <<>>], size |-> 0]
Entries(t) == FlattenSeq([i \in 1..Capacity(t) |-> t.buckets[i - 1]])

Mapped == {held[i].key : i \in DOMAIN held}
Others(k) == SelectSeq(held, LAMBDA e : e.key # k)
TableCall ==
    /\ kind = "table" /\ made < MaxCalls /\ made' = made + 1
    /\ \/ \E k \in Keys, v \in Values : table' = SetEntry(table, k, v)
                                       /\ held' = Append(Others(k), [key |-> k, value |-> v])
       \/ \E k \in Keys : table' = Delete(table, k) /\ held' = Others(k)
       \/ table' = Clear(table) /\ held' = <<>>
    /\ UNCHANGED <<kind, list, tree>>

----------------------------------------------------------------------------
(* Tree and BinaryTree                                                        *)

Children(t, n) == SelectSeq(t.kids[n], LAMBDA m : m # Nil)

RECURSIVE Preorder(_, _), Postorder(_, _), Inorder(_, _), Height(_, _)
Preorder(t, n) == <<n>> \o FlattenSeq([i \in DOMAIN Children(t, n) |-> Preorder(t, Children(t, n)[i])])
Postorder(t, n) == FlattenSeq([i \in DOMAIN Children(t, n) |-> Postorder(t, Children(t, n)[i])]) \o <<n>>
Inorder(t, n) == IF n = Nil THEN <<>>
                 ELSE IF t.kids[n] = <<>> THEN <<n>>
                 ELSE Inorder(t, t.kids[n][1]) \o <<n>> \o Inorder(t, t.kids[n][2])
Height(t, n) == IF n = Nil THEN -1
                ELSE LET below == {Height(t, Children(t, n)[i]) : i \in DOMAIN Children(t, n)}
                     IN  1 + Max(below \cup {-1})

\* bfs takes from a queue; find(), #findParent(), #subtractSize() and dfs from a
\* stack onto which the children are pushed last one first.
RECURSIVE Bfs(_, _), Dfs(_, _)
Bfs(t, queue) == IF queue = <<>> THEN <<>>
                 ELSE <<Head(queue)>> \o Bfs(t, Tail(queue) \o Children(t, Head(queue)))
Dfs(t, stack) == IF stack = <<>> THEN <<>>
                 ELSE <<Last(stack)>> \o Dfs(t, Front(stack) \o Reverse(Children(t, Last(stack))))

Below(t, n) == ToSet(Dfs(t, <<n>>))
InTree(t) == IF t.root = Nil THEN {} ELSE Below(t, t.root)
FindParent(t, n) == CHOOSE m \in InTree(t) : n \in ToSet(t.kids[m])
Depth(t, n) == LET up[i \in Nat] == IF i = 0 THEN n ELSE FindParent(t, up[i - 1])
               IN  CHOOSE i \in 0..MaxNodes : up[i] = t.root /\ \A j \in 0..(i - 1) : up[j] # t.root

SetRoot(t, n) == [t EXCEPT !.root = n, !.size = 1]
AddChild(t, parent, n) == [t EXCEPT !.kids[parent] = Append(@, n), !.size = @ + 1]
Slots(t, parent) == IF t.kids[parent] = <<>> THEN <<Nil, Nil>> ELSE t.kids[parent]
\* setLeft() is 1, setRight() is 2: what was there goes, with all below it.
Replace(t, parent, i, n) ==
    LET gone == Slots(t, parent)[i] IN
    [t EXCEPT !.kids[parent] = [Slots(t, parent) EXCEPT ![i] = n],
              !.size = @ + 1 - (IF gone = Nil THEN 0 ELSE Cardinality(Below(t, gone)))]
Unlink(siblings, n) == IF kind = "binary" THEN [i \in DOMAIN siblings |-> IF siblings[i] = n THEN Nil ELSE siblings[i]]
                       ELSE SelectSeq(siblings, LAMBDA m : m # n)
Prune(t, n) == IF n = t.root THEN [t EXCEPT !.root = Nil, !.size = 0]
               ELSE [t EXCEPT !.kids[FindParent(t, n)] = Unlink(@, n), !.size = @ - Cardinality(Below(t, n))]

\* The edges a node hangs by, as the calls made them: <<parent, child>>.
RECURSIVE Hanging(_, _)
Hanging(edges, n) == {n} \cup UNION {Hanging(edges, e[2]) : e \in {e \in edges : e[1] = n}}
Cut(n) == SelectSeq(held, LAMBDA e : e[2] \notin Hanging(ToSet(held), n))
TreeCall ==
    /\ kind \in {"tree", "binary"}
    /\ \/ CanMake /\ tree' = SetRoot(tree, New) /\ held' = <<<<Nil, New>>>>
       \/ \E m \in InTree(tree) : /\ kind = "tree" /\ CanMake
                                  /\ tree' = AddChild(tree, m, New) /\ held' = Append(held, <<m, New>>)
       \/ \E m \in InTree(tree), i \in 1..2 :
            /\ kind = "binary" /\ CanMake
            /\ tree' = Replace(tree, m, i, New)
            /\ held' = Append(IF Slots(tree, m)[i] = Nil THEN held ELSE Cut(Slots(tree, m)[i]), <<m, New>>)
       \/ \E n \in InTree(tree) : tree' = Prune(tree, n) /\ held' = Cut(n) /\ made' = made
       \/ tree.root # Nil /\ tree' = [tree EXCEPT !.root = Nil, !.size = 0] /\ held' = <<>> /\ made' = made
    /\ UNCHANGED <<kind, list, table>>

Next == ListCall \/ TableCall \/ TreeCall
Spec == Init /\ [][Next]_vars

----------------------------------------------------------------------------
(* Properties                                                                 *)

\* The links of the list, forwards and backwards, and its size tell of the same
\* sequence: the one the calls built.
ListSound == kind = "list" =>
    /\ Walk(list.head, list.next) = held
    /\ Walk(list.tail, list.prev) = Reverse(held)
    /\ list.size = Len(held)

\* The table is the map the calls built, whatever the collisions and however
\* often it grew meanwhile: every key once, where get() looks for it.
TableSound == kind = "table" =>
    /\ Len(Entries(table)) = Cardinality(Mapped) /\ table.size = Cardinality(Mapped)
    /\ ToSet(Entries(table)) = ToSet(held)
    /\ \A i \in DOMAIN held : Has(table, held[i].key) /\ Find(table, held[i].key) = held[i].value
    /\ table.size * Per <= Capacity(table) * Load

\* The trees hold the nodes that hang together by the edges the calls made, and
\* count them; every traversal visits each once, a parent before its children or
\* after them as its name says, level by level in breadth; the stack of find() and
\* dfs visits in preorder; the height is the depth of the deepest node.
VisitsAll(walk) == Len(walk) = Len(held) /\ ToSet(walk) = InTree(tree)
Before(walk, m, n) == \E i, j \in DOMAIN walk : i < j /\ walk[i] = m /\ walk[j] = n
Edges == {held[i] : i \in DOMAIN held}
TreeSound == kind \in {"tree", "binary"} =>
    /\ InTree(tree) = {e[2] : e \in Edges}
    /\ tree.size = Len(held)
    /\ tree.root # Nil =>
         LET pre == Preorder(tree, tree.root)
             post == Postorder(tree, tree.root)
             bfs == Bfs(tree, <<tree.root>>) IN
         /\ VisitsAll(pre) /\ VisitsAll(post) /\ VisitsAll(bfs)
         /\ \A e \in Edges : e[1] # Nil => Before(pre, e[1], e[2]) /\ Before(post, e[2], e[1])
         /\ \A i \in 2..Len(bfs) : Depth(tree, bfs[i - 1]) <= Depth(tree, bfs[i])
         /\ Dfs(tree, <<tree.root>>) = pre
         /\ kind = "binary" => /\ VisitsAll(Inorder(tree, tree.root))
                               /\ Height(tree, tree.root) = Max({Depth(tree, n) : n \in InTree(tree)})
CollectionsSound == ListSound /\ TableSound /\ TreeSound
=============================================================================
