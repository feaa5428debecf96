------------------------------ MODULE TreeWalk ------------------------------
(***************************************************************************)
(* IAL/c402.c: a binary search tree whose insertion, three traversals and  *)
(* disposal use a stack of their own instead of recursion.                 *)
(*                                                                         *)
(* A value occurs at most once and stands for its node.  One step is one   *)
(* turn of the outer loop of a function, with the inner loops in it.       *)
(***************************************************************************)
EXTENDS Integers, Sequences, FiniteSets, SequencesExt

CONSTANTS
  Values,     \* positive integers: a bound on the size of the tree
  MAXSTACK    \* the length of a stack

VARIABLES
  root, LPtr, RPtr,   \* the tree; 0 is NULL
  allocated,          \* the nodes that malloc has given
  walk,               \* the function that runs, "" between calls
  ptr,                \* its current node
  stack,              \* stackP, and stackB in step with it: <<node, L>>
  visited,            \* the nodes given to BTWorkOut
  done                \* the function that has run last

walkVars == <<root, LPtr, RPtr, allocated, walk, ptr, stack, visited, done>>
tree     == <<root, LPtr, RPtr, allocated>>

Walks == {"preorder", "inorder", "postorder", "dispose"}
Nodes == Values \cup {0}

WalkTypeOK == /\ {root, ptr} \subseteq Nodes
              /\ LPtr \in [Values -> Nodes] /\ RPtr \in [Values -> Nodes]
              /\ allocated \subseteq Values
              /\ walk \in Walks \cup {""} /\ done \in Walks \cup {""}
              /\ stack \in Seq(Values \X BOOLEAN) /\ Len(stack) <= MAXSTACK
              /\ visited \in Seq(Values)

WalkInit == /\ root = 0 /\ ptr = 0
            /\ LPtr = [x \in Values |-> 0] /\ RPtr = [x \in Values |-> 0]
            /\ allocated = {}
            /\ walk = "" /\ done = ""
            /\ stack = <<>> /\ visited = <<>>

-----------------------------------------------------------------------------
\* BTInsert: down to the empty pointer where the value belongs.
RECURSIVE Parent(_, _)
Parent(x, v) == LET next == IF x > v THEN LPtr[x] ELSE RPtr[x]
                IN IF next = 0 THEN x ELSE Parent(next, v)

BTInsert(v) ==
  /\ walk = "" /\ v \notin allocated
  /\ allocated' = allocated \cup {v}
  /\ \/ root = 0 /\ root' = v /\ UNCHANGED <<LPtr, RPtr>>
     \/ /\ root # 0
        /\ LET x == Parent(root, v) IN
           \/ x > v /\ LPtr' = [LPtr EXCEPT ![x] = v] /\ UNCHANGED RPtr
           \/ x < v /\ RPtr' = [RPtr EXCEPT ![x] = v] /\ UNCHANGED LPtr
        /\ UNCHANGED root
  /\ UNCHANGED ptr /\ stack' = <<>> /\ visited' = <<>>
  /\ walk' = "" /\ done' = ""

\* The pushes of a whole branch; what does not fit is dropped with a message.
Push(s, items) == SubSeq(s \o items, 1, IF Len(s \o items) < MAXSTACK
                                        THEN Len(s \o items) ELSE MAXSTACK)

\* The left branch from a node on.
RECURSIVE LeftBranch(_)
LeftBranch(x) == IF x = 0 THEN <<>> ELSE <<x>> \o LeftBranch(LPtr[x])

\* Leftmost_Postorder marks the nodes it meets for the first time; a mutant marks
\* them as met before.
MarkedBack(branch) == [k \in DOMAIN branch |-> <<branch[k], FALSE>>]
Marked(branch)     == [k \in DOMAIN branch |-> <<branch[k], TRUE>>]

Top == stack[Len(stack)][1]

\* From the call of a function on a tree to its loop.
Begin(w) ==
  /\ walk = "" /\ root # 0
  /\ walk' = w /\ visited' = <<>> /\ done' = ""
  /\ ptr' = root
  /\ stack' = IF w \in {"inorder", "postorder"} THEN Push(<<>>, Marked(LeftBranch(root)))
                                                ELSE <<>>
  /\ UNCHANGED tree

Return == walk' = "" /\ done' = walk /\ ptr' = 0 /\ stack' = <<>>

\* BTPreorder: the right child of the last node on the stack that has one.
RECURSIVE PopRight(_)
PopRight(s) == IF s = <<>> THEN [node |-> 0, rest |-> <<>>]
               ELSE LET x == RPtr[s[Len(s)][1]] IN
                    IF x # 0 THEN [node |-> x, rest |-> Front(s)] ELSE PopRight(Front(s))

Preorder ==
  /\ walk = "preorder"
  /\ visited' = visited \o LeftBranch(ptr)
  /\ LET popped == PopRight(Push(stack, Marked(LeftBranch(ptr)))) IN
     \/ popped.node = 0 /\ Return
     \/ /\ popped.node # 0
        /\ ptr' = popped.node /\ stack' = popped.rest
        /\ UNCHANGED <<walk, done>>
  /\ UNCHANGED tree

Inorder ==
  /\ walk = "inorder"
  /\ \/ stack = <<>> /\ Return /\ UNCHANGED visited
     \/ /\ stack # <<>>
        /\ ptr' = Top
        /\ visited' = Append(visited, Top)
        /\ stack' = Push(Front(stack), Marked(LeftBranch(RPtr[Top])))
        /\ UNCHANGED <<walk, done>>
  /\ UNCHANGED tree

Postorder ==
  /\ walk = "postorder"
  /\ \/ stack = <<>> /\ Return /\ UNCHANGED visited
     \/ /\ stack # <<>> /\ ~stack[Len(stack)][2]
        /\ visited' = Append(visited, Top) /\ stack' = Front(stack)
        /\ ptr' = Top /\ UNCHANGED <<walk, done>>
     \/ /\ stack # <<>> /\ stack[Len(stack)][2]
        /\ stack' = Push(Push(Front(stack), << <<Top, FALSE>> >>),
                         Marked(LeftBranch(RPtr[Top])))
        /\ ptr' = Top /\ UNCHANGED <<walk, done, visited>>
  /\ UNCHANGED tree

\* BTDisposeTree: what is put aside while the left child is next; a mutant forgets
\* the right child.
AsideNothing(x) == <<>>
Aside(x) == IF LPtr[x] # 0 /\ RPtr[x] # 0 THEN << <<RPtr[x], TRUE>> >> ELSE <<>>

Dispose ==
  /\ walk = "dispose"
  /\ allocated' = allocated \ {ptr}
  /\ LPtr' = [LPtr EXCEPT ![ptr] = 0] /\ RPtr' = [RPtr EXCEPT ![ptr] = 0]
  /\ \/ LPtr[ptr] # 0 /\ ptr' = LPtr[ptr] /\ stack' = Push(stack, Aside(ptr))
     \/ LPtr[ptr] = 0 /\ RPtr[ptr] # 0 /\ ptr' = RPtr[ptr] /\ UNCHANGED stack
     \/ /\ LPtr[ptr] = 0 /\ RPtr[ptr] = 0 /\ stack # <<>>
        /\ ptr' = Top /\ stack' = Front(stack)
     \/ LPtr[ptr] = 0 /\ RPtr[ptr] = 0 /\ stack = <<>> /\ Return
  /\ IF LPtr[ptr] = 0 /\ RPtr[ptr] = 0 /\ stack = <<>>
     THEN root' = 0 ELSE UNCHANGED <<root, walk, done>>
  /\ UNCHANGED visited

WalkNext == \/ \E v \in Values : BTInsert(v)
            \/ \E w \in Walks : Begin(w)
            \/ Preorder \/ Inorder \/ Postorder \/ Dispose

WalkSpec     == WalkInit /\ [][WalkNext]_walkVars

-----------------------------------------------------------------------------
\* The traversals as they are defined.
RECURSIVE Order(_, _)
Order(w, x) ==
  IF x = 0 THEN <<>>
  ELSE CASE w = "preorder"  -> <<x>> \o Order(w, LPtr[x]) \o Order(w, RPtr[x])
         [] w = "inorder"   -> Order(w, LPtr[x]) \o <<x>> \o Order(w, RPtr[x])
         [] w = "postorder" -> Order(w, LPtr[x]) \o Order(w, RPtr[x]) \o <<x>>

\* With a stack each function visits every node once, in the order that the
\* recursive definition gives.
VisitsInOrder == done \in Walks \ {"dispose"} => visited = Order(done, root)

\* BTDisposeTree touches no node that it has freed and leaves none behind.
DisposesAll ==
  /\ walk = "dispose" => /\ ptr \in allocated
                         /\ \A k \in DOMAIN stack : stack[k][1] \in allocated \ {ptr}
  /\ root = 0 => allocated = {}
=============================================================================
