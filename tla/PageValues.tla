----------------------------- MODULE PageValues -----------------------------
(***************************************************************************)
(* What the dashboard expects of its state: a change is a recipe that is   *)
(* run on a private copy of the page as it is when the change is made, and *)
(* the copy becomes the page.  Whoever read the page before keeps what it  *)
(* read.  PageState is shown to implement this without copying.            *)
(*                                                                         *)
(* A page is a tree: a function from keys to values and trees.  A copy is  *)
(* a graph, since a recipe may put an object in two places: its nodes are  *)
(* the objects it was copied from, named by their paths, and the objects   *)
(* the recipe makes.                                                       *)
(***************************************************************************)
EXTENDS Naturals, Sequences, TLC

CONSTANTS
    Keys,           \* of objects: names, modules, fields
    Prims,          \* values that are not objects
    Polls,          \* polls of the daemon that may be under way together
    MaxFresh,       \* bound: objects a recipe makes
    InitialPage,    \* the page that the constructor makes
    None

VARIABLES
    page,   \* the state that is shown
    seen,   \* the state each poll began with, None if it is not under way
    work    \* the copy a recipe runs on, empty between recipes

vars == <<page, seen, work>>

At(p) == [at |-> p]
New(i) == [new |-> i]
Root == At(<<>>)

Empty == [k \in {} |-> None]

Running == DOMAIN work # {}

RECURSIVE PathsOf(_, _)
PathsOf(tree, p) ==
    {p} \cup UNION {PathsOf(tree[k], Append(p, k)) : k \in {k \in DOMAIN tree : tree[k] \notin Prims}}

RECURSIVE Subtree(_, _)
Subtree(tree, p) == IF p = <<>> THEN tree ELSE Subtree(tree[Head(p)], Tail(p))

\* A private copy of a tree.
Copied(tree) ==
    [n \in {At(p) : p \in PathsOf(tree, <<>>)} |->
        [k \in DOMAIN Subtree(tree, n.at) |->
            IF Subtree(tree, n.at)[k] \in Prims THEN Subtree(tree, n.at)[k]
            ELSE At(Append(n.at, k))]]

RECURSIVE TreeOf(_, _)
TreeOf(graph, n) ==
    [k \in DOMAIN graph[n] |->
        IF graph[n][k] \in DOMAIN graph THEN TreeOf(graph, graph[n][k]) ELSE graph[n][k]]

RECURSIVE Reaches(_, _, _)
Reaches(graph, n, m) ==
    n = m \/ \E k \in DOMAIN graph[n] :
                graph[n][k] \in DOMAIN graph /\ Reaches(graph, graph[n][k], m)

\* A recipe makes no cycles.
Acyclic(graph, n, v) == ~(v \notin Prims /\ Reaches(graph, v, n))

Put(object, k, v) == (k :> v) @@ object

\* setState merges what a recipe returns into the page: no key of it goes away.
MergedInto(tree, old) == tree @@ old

Init ==
    /\ page = InitialPage
    /\ seen = [p \in Polls |-> None]
    /\ work = Empty

StartPoll(p) ==
    /\ ~Running /\ seen[p] = None
    /\ seen' = [seen EXCEPT ![p] = page]
    /\ UNCHANGED <<page, work>>

\* A change begins from the page as it is, also when a poll began with an earlier one.
Change ==
    /\ ~Running
    /\ work' = Copied(page)
    /\ UNCHANGED <<page, seen>>

EndPoll(p) ==
    /\ ~Running /\ seen[p] # None
    /\ work' = Copied(page)
    /\ seen' = [seen EXCEPT ![p] = None]
    /\ UNCHANGED page

\* What a recipe may do to its copy, one object at a time.
SameBut(n, old, new) == \A m \in DOMAIN old \ {n} : new[m] = old[m]

Assigned(n, old, new) ==
    /\ DOMAIN new = DOMAIN old
    /\ \E k \in DOMAIN new[n] :
          /\ new[n] = Put(old[n], k, new[n][k])
          /\ new[n][k] \in Prims \cup DOMAIN old /\ Acyclic(old, n, new[n][k])

AssignedNew(n, old, new) ==
    \E k \in DOMAIN new[n], i \in 1..MaxFresh :
        /\ DOMAIN new = DOMAIN old \cup {New(i)} /\ New(i) \notin DOMAIN old
        /\ new[n] = Put(old[n], k, New(i)) /\ new[New(i)] = Empty

Deleted(n, old, new) ==
    /\ DOMAIN new = DOMAIN old
    /\ \E k \in DOMAIN old[n] : new[n] = [j \in DOMAIN old[n] \ {k} |-> old[n][j]]

Changed(old, new) ==
    \E n \in DOMAIN old \cap DOMAIN new :
        /\ SameBut(n, old, new)
        /\ Assigned(n, old, new) \/ AssignedNew(n, old, new) \/ Deleted(n, old, new)

Write ==
    /\ Running
    /\ UNCHANGED <<page, seen>>
    /\ Changed(work, work')

Commit ==
    /\ Running
    /\ page' = MergedInto(TreeOf(work, Root), page)
    /\ work' = Empty
    /\ UNCHANGED seen

Next ==
    \/ \E p \in Polls : StartPoll(p) \/ EndPoll(p)
    \/ Change \/ Write \/ Commit

Spec == Init /\ [][Next]_vars
=============================================================================
