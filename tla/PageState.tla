------------------------------ MODULE PageState ------------------------------
(***************************************************************************)
(* How the dashboard of the web site keeps its state: transformState of    *)
(* index.html runs each change as a recipe of immer's produce.  A recipe   *)
(* reads and writes drafts, proxies that copy an object when it is first   *)
(* written; what it does not write the new state shares with the old one,  *)
(* which polls of the daemon under way still hold.                         *)
(*                                                                         *)
(* An object is named by the recipe that made it and, for a copy, by the   *)
(* path of its draft, so that no name is used twice.  Arrays are objects   *)
(* with indices for keys; functions among the state are values.  A recipe  *)
(* is any sequence of what drafts allow; the recipes of the page are       *)
(* synchronous, return nothing and neither nest nor make cycles.           *)
(***************************************************************************)
EXTENDS Naturals, Sequences, FiniteSetsExt, TLC

CONSTANTS
    Keys, Prims, Polls, None,   \* as in PageValues
    InitialPage,
    MaxRecipes,     \* bound: changes
    MaxSteps,       \* bound: writes and deletions of all recipes
    MaxFresh        \* bound: objects a recipe makes

VARIABLES
    heap,       \* the objects that are still in use, by name
    frozen,     \* those that Object.freeze was called on
    state,      \* this.state of the Dashboard
    held,       \* the state each poll's informer was given
    drafts,     \* the drafts of the current scope, by path; empty outside recipes
    recipe,     \* recipes begun
    fresh,      \* objects the current recipe made
    steps, written  \* bound; history: drafts whose objects the recipe has changed

vars == <<heap, frozen, state, held, drafts, recipe, fresh, steps, written>>

-----------------------------------------------------------------------------
(* Objects. *)

CopyOf(g, p) == [by |-> g, copyOf |-> p]
Fresh(i) == [by |-> recipe, fresh |-> i]
StateOf(g) == [stateOf |-> g]
Draft(p) == [draft |-> p]

Empty == [k \in {} |-> None]
Put(object, k, v) == (k :> v) @@ object
Without(object, k) == [j \in DOMAIN object \ {k} |-> object[j]]

Prefixes(p) == {SubSeq(p, 1, n) : n \in 0..Len(p)}

Running == DOMAIN drafts # {}

Scope == {Draft(p) : p \in DOMAIN drafts}
Plain == {Fresh(i) : i \in 1..fresh}

RECURSIVE Reachable(_, _)
Reachable(h, os) ==
    LET next == {h[o][k] : <<o, k>> \in {ok \in os \X Keys : ok[2] \in DOMAIN h[ok[1]]}}
    IN  IF next \cap DOMAIN h \subseteq os THEN os
        ELSE Reachable(h, os \cup (next \cap DOMAIN h))

-----------------------------------------------------------------------------
(* What a draft is. *)

Base(p) == heap[drafts[p].base]
Copy(p) == CopyOf(recipe, p)

\* latest.
Latest(p) == IF drafts[p].modified THEN heap[Copy(p)] ELSE Base(p)

\* createProxyProxy: an unmodified draft.
NewDraft(base) == [base |-> base, modified |-> FALSE, children |-> {}]

\* Mutant: the parent is not told.
OnlyItself(p) == {p}

\* markChangedProxy: the draft and its parents, up to one that was told before.
Unmarked(p) ==
    {q \in Prefixes(p) : \A r \in Prefixes(p) : Len(r) >= Len(q) => ~drafts[r].modified}

\* Mutant: the drafts handed out before are not put into the copy.
BareCopy(q) == Base(q)

\* shallowCopy, with the drafts that were handed out in the places of their objects.
ShallowCopy(q) ==
    [k \in DOMAIN Base(q) |->
        IF k \in drafts[q].children THEN Draft(Append(q, k)) ELSE Base(q)[k]]

Marked(p) ==
    [q \in DOMAIN drafts |->
        IF q \in Unmarked(p) THEN [drafts[q] EXCEPT !.modified = TRUE, !.children = {}]
        ELSE drafts[q]]

WithCopies(p) ==
    [o \in {Copy(q) : q \in Unmarked(p)} |-> ShallowCopy(o.copyOf)] @@ heap

-----------------------------------------------------------------------------
(* The values a change stands for. *)

RECURSIVE ValueOf(_)
ValueOf(o) ==
    [k \in DOMAIN heap[o] |->
        IF heap[o][k] \in DOMAIN heap THEN ValueOf(heap[o][k]) ELSE heap[o][k]]

RECURSIVE ObjectsFrom(_, _)
ObjectsFrom(o, p) ==    \* the objects of a state, each with its path
    {[at |-> p, object |-> o]} \cup
        UNION {ObjectsFrom(heap[o][k], Append(p, k)) :
                   k \in {k \in DOMAIN heap[o] : heap[o][k] \in DOMAIN heap}}

Node(v, p, k) ==
    CASE v \in Scope -> [at |-> v.draft]
      [] v \in Plain -> [new |-> v.fresh]
      [] v \in Prims -> v
      [] OTHER -> [at |-> Append(p, k)]

\* What the recipe finds when it reads on from its first draft, wherever it has been.
Work ==
    IF ~Running THEN Empty
    ELSE LET base == ObjectsFrom(state, <<>>)
             Content(p, object) == [k \in DOMAIN object |-> Node(object[k], p, k)]
         IN  [n \in {[at |-> b.at] : b \in base} |->
                 IF n.at \in DOMAIN drafts THEN Content(n.at, Latest(n.at))
                 ELSE Content(n.at, heap[(CHOOSE b \in base : b.at = n.at).object])]
             @@ [n \in {[new |-> i] : i \in 1..fresh} |-> Content(<<>>, heap[Fresh(n.new)])]

Values ==
    INSTANCE PageValues WITH
        page <- ValueOf(state),
        seen <- [p \in Polls |-> IF held[p] = None THEN None ELSE ValueOf(held[p])],
        work <- Work

-----------------------------------------------------------------------------
Initial(p) == CopyOf(0, p)

RECURSIVE InitialHeap(_, _)
InitialHeap(tree, p) ==
    LET below == {k \in DOMAIN tree : tree[k] \notin Prims}
        object == [k \in DOMAIN tree |-> IF k \in below THEN Initial(Append(p, k)) ELSE tree[k]]
        Added(k, h) == InitialHeap(tree[k], Append(p, k)) @@ h
    IN  FoldSet(Added, Initial(p) :> object, below)

\* The constructor.
Init ==
    /\ heap = InitialHeap(InitialPage, <<>>)
    /\ frozen = {}
    /\ state = Initial(<<>>)
    /\ held = [p \in Polls |-> None]
    /\ drafts = Empty
    /\ recipe = 0 /\ fresh = 0 /\ steps = 0 /\ written = {}

\* tick: the informer is given the state and waits for the daemon.
Tick(p) ==
    /\ ~Running /\ held[p] = None
    /\ held' = [held EXCEPT ![p] = state]
    /\ UNCHANGED <<heap, frozen, state, drafts, recipe, fresh, steps, written>>

\* Mutant: a poll's recipe begins from what the informer was given.
FromHeld(p) == IF p = None THEN state ELSE held[p]

\* setState hands the updater the state as it is by then.
Previous(p) == state

\* produce: a scope whose first draft is the state's.
Produce(p) ==
    /\ ~Running /\ recipe < MaxRecipes
    /\ recipe' = recipe + 1
    /\ drafts' = [q \in {<<>>} |-> NewDraft(Previous(p))]
    /\ fresh' = 0 /\ written' = {}
    /\ UNCHANGED steps

\* An event of the page: edit_field, unlock_edit_field, toggle_chart, update_active...
UserEvent ==
    /\ Produce(None)
    /\ UNCHANGED <<heap, frozen, state, held>>

\* Everything the poll asked for has come: its transformer runs.
Inform(p) ==
    /\ held[p] # None
    /\ Produce(p)
    /\ held' = [held EXCEPT ![p] = None]
    /\ UNCHANGED <<heap, frozen, state>>

-----------------------------------------------------------------------------
(* Steps of a recipe. *)

\* The get trap, where it makes a draft: of an object of the base that has none yet.
\* Everything else it returns as it is.
Get(p, k) ==
    LET child == Append(p, k) IN
    /\ k \in DOMAIN Latest(p) \ drafts[p].children
    /\ Latest(p)[k] \in DOMAIN heap
    /\ k \in DOMAIN Base(p) /\ Base(p)[k] = Latest(p)[k]
    /\ drafts' = [q \in DOMAIN drafts \cup {child} |->
                    CASE q = child -> NewDraft(Latest(p)[k])
                      [] q = p /\ ~drafts[p].modified ->
                            [drafts[p] EXCEPT !.children = @ \cup {k}]
                      [] OTHER -> drafts[q]]
    /\ heap' = IF drafts[p].modified THEN [heap EXCEPT ![Copy(p)][k] = Draft(child)] ELSE heap
    /\ UNCHANGED <<frozen, state, held, recipe, fresh, steps, written>>

\* Mutant: a draft put back in its place counts as a change.
SameValue(p, k, v) == k \in DOMAIN Base(p) /\ Base(p)[k] = v

\* isUnchanged: nothing happens when the value, or the draft, is already there.
Unchanged(p, k, v) ==
    \/ k \in DOMAIN Base(p) /\ Base(p)[k] = v
    \/ k \in drafts[p].children /\ v = Draft(Append(p, k))

Step ==
    /\ Running /\ steps < MaxSteps
    /\ steps' = steps + 1
    /\ UNCHANGED <<frozen, state, held, recipe>>

\* The value, or the draft, that it writes is what the recipe would read there.
Holds(p, k, v) ==
    v \in Prims \cup Scope /\ k \in DOMAIN Latest(p) /\ Node(Latest(p)[k], p, k) = Node(v, p, k)

\* A write to a draft, by the set trap, or to an object the recipe has made.
Write(target, k, v, h) ==
    \/ /\ target \in Scope
       /\ LET p == target.draft IN
          /\ ~(~drafts[p].modified /\ Unchanged(p, k, v))
          /\ heap' = [WithCopies(p) EXCEPT ![Copy(p)] = Put(@, k, v)] @@ h
          /\ drafts' = Marked(p)
          /\ written' = IF Holds(p, k, v) THEN written ELSE written \cup {p}
    \/ /\ target \in Plain
       /\ heap' = [heap EXCEPT ![target] = Put(@, k, v)] @@ h
       /\ UNCHANGED <<drafts, written>>

Set(target, k, v) ==
    /\ Step
    /\ Values!Acyclic(Work, Node(target, <<>>, k), Node(v, <<>>, k))
    /\ Write(target, k, v, Empty)
    /\ UNCHANGED fresh

\* As for a module without edited fields: "draft.modules.user_edited_field[...] = {}".
SetNew(target, k) ==
    /\ Step
    /\ fresh < MaxFresh
    /\ fresh' = fresh + 1
    /\ LET object == [by |-> recipe, fresh |-> fresh + 1]
       IN  Write(target, k, object, object :> Empty)

\* The deleteProperty trap.  The page deletes nothing; below the first draft, since
\* setState would bring the key back.
DeleteProperty(p, k) ==
    /\ Step
    /\ p # <<>> /\ k \in DOMAIN Latest(p)
    /\ heap' = [WithCopies(p) EXCEPT ![Copy(p)] = Without(@, k)]
    /\ drafts' = Marked(p)
    /\ written' = written \cup {p}
    /\ UNCHANGED fresh

-----------------------------------------------------------------------------
(* The end of a recipe.  The finalizers thread a record of the heap, what  *)
(* is frozen and which drafts are done.                                    *)

\* freeze(obj, false).
Freeze(s, o) == [s EXCEPT !.frozen = @ \cup {o}]

\* freeze(obj, true): it goes no further at an object that is frozen.
RECURSIVE FreezeDeep(_, _)
FreezeDeep(s, o) ==
    IF o \in s.frozen THEN s
    ELSE LET below == {s.heap[o][k] : k \in DOMAIN s.heap[o]} \cap DOMAIN s.heap
             Deeper(b, t) == FreezeDeep(t, b)
         IN  FoldSet(Deeper, Freeze(s, o), below)

\* Mutant: drafts inside objects that the recipe made are overlooked.
NotSearched(v) == FALSE

\* Objects the recipe made may hold drafts; frozen ones never do.
MustSearch(v) == v \in Plain

\* finalize, with finalizeProperty for each key of what it finalizes: a draft is replaced
\* by its result, an object that is new is searched and frozen.
RECURSIVE Finalize(_, _)
Finalize(s, v) ==
    LET FinalizeProperty(target, k, t) ==
            LET child == t.heap[target][k] IN
            CASE child \in Scope ->
                    LET r == Finalize(t, child)
                    IN  [r.s EXCEPT !.heap[target][k] = r.value]
              [] MustSearch(child) /\ child \notin t.frozen -> Freeze(Finalize(t, child).s, child)
              [] OTHER -> t
        FinalizeAll(target, t) ==
            FoldSet(LAMBDA k, u : FinalizeProperty(target, k, u), t, DOMAIN t.heap[target])
    IN  IF v \notin Scope
        THEN [s |-> FinalizeAll(v, s), value |-> v]
        ELSE LET p == v.draft IN
             CASE ~drafts[p].modified ->
                    [s |-> FreezeDeep(s, drafts[p].base), value |-> drafts[p].base]
               [] drafts[p].modified /\ p \in s.finalized -> [s |-> s, value |-> Copy(p)]
               [] OTHER ->
                    [s |-> Freeze(FinalizeAll(Copy(p), [s EXCEPT !.finalized = @ \cup {p}]),
                                  Copy(p)),
                     value |-> Copy(p)]

\* processResult, and setState, which merges the result into a new state object.  What
\* nothing leads to any more is forgotten.
ProcessResult ==
    /\ Running
    /\ LET r == Finalize([heap |-> heap, frozen |-> frozen, finalized |-> {}], Draft(<<>>))
           merged == r.s.heap[r.value] @@ r.s.heap[state]
           all == Put(r.s.heap, StateOf(recipe), merged)
           used == Reachable(all, {StateOf(recipe)} \cup {held[p] : p \in {q \in Polls : held[q] # None}})
       IN /\ state' = StateOf(recipe)
          /\ heap' = [o \in used |-> all[o]]
          /\ frozen' = r.s.frozen \cap used
    /\ drafts' = Empty /\ fresh' = 0 /\ written' = {}
    /\ UNCHANGED <<held, recipe, steps>>

Next ==
    \/ \E p \in Polls : Tick(p) \/ Inform(p)
    \/ UserEvent
    \/ \E p \in DOMAIN drafts, k \in Keys : Get(p, k) \/ DeleteProperty(p, k)
    \/ \E target \in Scope \cup Plain, k \in Keys :
          \/ \E v \in Prims \cup Scope \cup Plain : Set(target, k, v)
          \/ SetNew(target, k)
    \/ ProcessResult

Spec == Init /\ [][Next]_vars

-----------------------------------------------------------------------------
(* Properties. *)

\* Drafts have their parents' drafts, a draft is modified only if its parents are, and
\* states are objects.
TypeOK ==
    /\ \A o \in DOMAIN heap : DOMAIN heap[o] \subseteq Keys
    /\ frozen \subseteq DOMAIN heap /\ state \in DOMAIN heap
    /\ \A p \in Polls : held[p] \in DOMAIN heap \cup {None}
    /\ recipe \in 0..MaxRecipes /\ fresh \in 0..MaxFresh /\ steps \in 0..MaxSteps
    /\ written \subseteq DOMAIN drafts
    /\ \A p \in DOMAIN drafts :
          /\ drafts[p].base \in DOMAIN heap
          /\ drafts[p].modified => Copy(p) \in DOMAIN heap
          /\ drafts[p].children \subseteq {k \in Keys : Append(p, k) \in DOMAIN drafts}
          /\ \A q \in Prefixes(p) :
                q \in DOMAIN drafts /\ (drafts[p].modified => drafts[q].modified)

\* "All mutations are only ever applied to a copy of the base state": the page behaves
\* as if every recipe ran on a deep copy of the state at its beginning, and no state
\* that a poll holds ever changes.
ImplementsValues == Values!Spec

\* What recipes leave behind is complete: no draft is left in a state, where it would be
\* revoked, and every object they made or copied is frozen.
StatesAreFinal ==
    ~Running =>
        \A o \in Reachable(heap, {state}) :
            /\ \A k \in DOMAIN heap[o] : heap[o][k] \in Prims \cup DOMAIN heap
            /\ o \in frozen \cup DOMAIN InitialHeap(InitialPage, <<>>) \cup {state}

\* A part of the page that a recipe does not change, nor move, is the same object
\* afterwards: "or the initial state if nothing was modified".
UntouchedKept ==
    [][\A b \in ObjectsFrom(state, <<>>) :
          /\ ProcessResult
          /\ b.at # <<>>
          /\ \A q \in written : b.at \notin Prefixes(q)
          /\ \A q \in Prefixes(b.at) \ {<<>>} :
                LET up == SubSeq(q, 1, Len(q) - 1)
                IN  q[Len(q)] \in DOMAIN Work[[at |-> up]] /\ Work[[at |-> up]][q[Len(q)]] = [at |-> q]
          => b \in ObjectsFrom(state, <<>>)']_vars
=============================================================================
