----------------------------- MODULE Workflows -----------------------------
(***************************************************************************)
(* Workflow graphs: groups lowered to step dependencies, the validation an *)
(* enqueue makes, and the graph and the layout a run is drawn with.        *)
(*                                                                         *)
(* All of it is sequential and pure.  A behaviour takes one declared       *)
(* workflow through EnqueueWorkflow and, if it is accepted, DAG and        *)
(* layoutDAG.  Declarations keep their order and their duplicates; labels, *)
(* colours and the text of the SVG are left out.  Coordinates are the      *)
(* code's, in pixels; all of its halves come out whole.                    *)
(***************************************************************************)
EXTENDS Integers, Sequences, FiniteSets, SequencesExt

CONSTANTS Inputs,    \* declared workflows: [flat, groups], a flat one with one group
          NodeW      \* dagNodeWidth

\* enqueueWorkflow reads the first step, so there is one.
ASSUME WorkflowsAssumption ==
    /\ Inputs \subseteq [flat   : BOOLEAN,
                         groups : Seq([name : STRING, after : Seq(STRING),
                                       steps : Seq([name : STRING, deps : Seq(STRING)])])]
    /\ \A in \in Inputs : /\ in.flat => Len(in.groups) = 1
                         /\ \E i \in DOMAIN in.groups : in.groups[i].steps # <<>>
    /\ NodeW \in Nat

VARIABLES input, phase, wf, dag, drawing
vars == <<input, phase, wf, dag, drawing>>

Nothing == [none |-> TRUE]

\* The code's constants.
NodeH == 44
HGap  == 72
VGap  == 20
Pad(root) == IF root THEN [x |-> 28, top |-> 24, bottom |-> 24]
             ELSE [x |-> 16, top |-> 12 + 18, bottom |-> 12]

Names(list) == [i \in DOMAIN list |-> list[i].name]
NoDuplicates(s) == \A i, j \in DOMAIN s : i # j => s[i] # s[j]
Find(list, n)   == list[CHOOSE i \in DOMAIN list : list[i].name = n]

\* dedupStrings
Dedup(s) == FoldLeft(LAMBDA out, x : IF Contains(out, x) THEN out ELSE Append(out, x), <<>>, s)

Sum(s) == FoldLeft(LAMBDA x, y : x + y, 0, s)
Largest(s) == FoldLeft(LAMBDA x, y : IF y > x THEN y ELSE x, 0, s)

-----------------------------------------------------------------------------
(* Declaring a workflow.                                                   *)

\* Mutant: the groups a group waits for are expanded to their first step.
FirstStepOf(groups, g) ==
    Dedup(FlattenSeq([i \in DOMAIN g.after |->
        IF g.after[i] \in ToSet(Names(groups))
        THEN LET s == Names(Find(groups, g.after[i]).steps) IN IF s = <<>> THEN s ELSE <<Head(s)>>
        ELSE <<>>]))

\* The steps of every group that g waits for.
DepSteps(groups, g) ==
    Dedup(FlattenSeq([i \in DOMAIN g.after |->
        IF g.after[i] \in ToSet(Names(groups)) THEN Names(Find(groups, g.after[i]).steps) ELSE <<>>]))

NewGroupWorkflow(groups) ==
    [steps  |-> FlattenSeq([i \in DOMAIN groups |->
                   [j \in DOMAIN groups[i].steps |->
                       [name |-> groups[i].steps[j].name,
                        deps |-> Dedup(groups[i].steps[j].deps \o DepSteps(groups, groups[i]))]]]),
     groups |-> [i \in DOMAIN groups |-> [name |-> groups[i].name, deps |-> groups[i].after,
                                          steps |-> Names(groups[i].steps)]]]

NewWorkflow(in) == IF in.flat THEN [steps |-> in.groups[1].steps, groups |-> <<>>]
                   ELSE NewGroupWorkflow(in.groups)

ValidGroups(groups) ==
    /\ "" \notin ToSet(Names(groups)) /\ NoDuplicates(Names(groups))
    /\ \A i \in DOMAIN groups : ToSet(groups[i].deps) \subseteq ToSet(Names(groups))

\* Kahn's algorithm as validateDAG and layoutCluster both write it: q holds the
\* queue, the in-degrees that are left, the longest path to each node so far and
\* the number of nodes visited.  Edges count as often as they are listed.
Follow(q, n, e) ==
    IF e[1] # n THEN q
    ELSE LET m == e[2]
         IN [q EXCEPT !.indeg[m] = @ - 1,
                      !.level[m] = IF q.level[n] + 1 > @ THEN q.level[n] + 1 ELSE @,
                      !.queue    = IF q.indeg[m] = 1 THEN Append(@, m) ELSE @]

FollowAll(q, n, edges) == FoldLeft(LAMBDA p, e : Follow(p, n, e), q, edges)

VisitHead(q, edges) ==
    IF q.queue = <<>> THEN q
    ELSE FollowAll([q EXCEPT !.queue = Tail(@), !.visited = @ + 1], Head(q.queue), edges)

Roots(nodes, indeg) == FoldLeft(LAMBDA out, n : IF indeg[n] = 0 THEN Append(out, n) ELSE out, <<>>, nodes)

Start(nodes, edges) ==
    LET indeg == [n \in ToSet(nodes) |-> Cardinality({i \in DOMAIN edges : edges[i][2] = n})]
    IN [queue |-> Roots(nodes, indeg), indeg |-> indeg,
        level |-> [n \in ToSet(nodes) |-> 0], visited |-> 0]

\* No node is queued twice, so as many turns as there are nodes empty the queue.
Topology(nodes, edges) ==
    FoldLeft(LAMBDA q, n : VisitHead(q, edges), Start(nodes, edges), nodes)

DepEdges(steps) ==
    FlattenSeq([i \in DOMAIN steps |-> [j \in DOMAIN steps[i].deps |-> <<steps[i].deps[j], steps[i].name>>]])

ValidateDAG(steps) ==
    /\ "" \notin ToSet(Names(steps)) /\ NoDuplicates(Names(steps))
    /\ \A i \in DOMAIN steps : ToSet(steps[i].deps) \subseteq ToSet(Names(steps))
    /\ Topology(Names(steps), DepEdges(steps)).visited = Len(steps)

-----------------------------------------------------------------------------
(* Drawing a run.                                                          *)

GroupOf(w, s) == LET gs == {i \in DOMAIN w.groups : Contains(w.groups[i].steps, s)}
                 IN IF gs = {} THEN "" ELSE w.groups[CHOOSE i \in gs : TRUE].name

\* DAG: a dependency across two groups is left to the edge between the groups.
\* Steps and groups share one list of edges, where only their names tell them apart.
Graph(w) ==
    LET within(e) == GroupOf(w, e[1]) = GroupOf(w, e[2])
    IN [nodes  |-> Names(w.steps),
        edges  |-> SelectSeq(DepEdges(w.steps), within) \o DepEdges(w.groups),
        groups |-> w.groups]

\* Mutant: every unit is taken to be as high as a node.
StackNodes(col, k) == (k - 1) * (NodeH + VGap)

\* How far down its column the k-th unit begins.
Stack(col, k) == Sum([j \in 1 .. k - 1 |-> col[j].h + VGap])

\* The units of each level, in the order they are listed.
Columns(units, level) ==
    [i \in 1 .. 1 + Largest([j \in DOMAIN units |-> level[units[j].key]]) |->
        SelectSeq(units, LAMBDA u : level[u.key] = i - 1)]

ColW(col) == Largest([i \in DOMAIN col |-> col[i].w])
ColH(col) == Sum([i \in DOMAIN col |-> col[i].h]) + VGap * (Len(col) - 1)
ColX(cols, i)  == Sum([j \in 1 .. i - 1 |-> ColW(cols[j]) + HGap])
ContentH(cols) == Largest([i \in DOMAIN cols |-> ColH(cols[i])])

\* The k-th unit of the i-th column: centred in the column, the column centred.
UnitAt(cols, pad, i, k) ==
    <<pad.x + ColX(cols, i) + (ColW(cols[i]) - cols[i][k].w) \div 2,
      pad.top + (ContentH(cols) - ColH(cols[i])) \div 2 + Stack(cols[i], k)>>

Place(cols, pad) ==
    LET cells == UNION {{i} \X DOMAIN cols[i] : i \in DOMAIN cols}
        cell(key) == CHOOSE c \in cells : cols[c[1]][c[2]].key = key
    IN [w  |-> ColX(cols, Len(cols)) + ColW(Last(cols)) + 2 * pad.x,
        h  |-> ContentH(cols) + pad.top + pad.bottom,
        at |-> [key \in {cols[c[1]][c[2]].key : c \in cells} |->
                   UnitAt(cols, pad, cell(key)[1], cell(key)[2])]]

\* The edges of a cluster: what is listed, lifted to the units that stand for the
\* two names as steps, then what its groups wait for.  A name that is both a
\* step's and a group's is taken for the step's; edges inside a unit are dropped.
UnitEdges(units, edges, waits) ==
    LET owner   == [n \in UNION {u.steps : u \in ToSet(units)} |->
                       (CHOOSE u \in ToSet(units) : n \in u.steps).key]
        here(e) == {e[1], e[2]} \subseteq DOMAIN owner
        listed  == SelectSeq(edges, here)
        unit(n) == IF n \in DOMAIN owner THEN owner[n] ELSE n
    IN SelectSeq([i \in DOMAIN listed |-> <<owner[listed[i][1]], owner[listed[i][2]]>>]
                 \o [i \in DOMAIN waits |-> <<unit(waits[i][1]), waits[i][2]>>],
                 LAMBDA e : e[1] # e[2])

LayoutCluster(units, edges, waits, root) ==
    IF units = <<>> THEN [w |-> 0, h |-> 0, at |-> <<>>]
    ELSE Place(Columns(units, Topology([i \in DOMAIN units |-> units[i].key],
                                       UnitEdges(units, edges, waits)).level), Pad(root))

NodeUnits(nodes) == [i \in DOMAIN nodes |-> [key |-> nodes[i], w |-> NodeW, h |-> NodeH, steps |-> {nodes[i]}]]

\* The clusters of the groups, and the root with each group as one unit.  DAG
\* nests no groups, and all steps are grouped or none is.
Inner(d) ==
    [i \in DOMAIN d.groups |-> LayoutCluster(NodeUnits(d.groups[i].steps), d.edges, <<>>, FALSE)]
Root(d, inner) ==
    LayoutCluster(NodeUnits(IF d.groups = <<>> THEN d.nodes ELSE <<>>) \o
                  [i \in DOMAIN d.groups |-> [key |-> d.groups[i].name, w |-> inner[i].w, h |-> inner[i].h,
                                              steps |-> ToSet(d.groups[i].steps)]],
                  d.edges, DepEdges(d.groups), TRUE)

Rect(p, w, h) == [x |-> p[1], y |-> p[2], w |-> w, h |-> h]

\* Local coordinates become absolute: a group's nodes move with its box.
Absolutize(d, inner, outer) ==
    LET group(n) == CHOOSE i \in DOMAIN d.groups : Contains(d.groups[i].steps, n)
        shift(o, p) == <<o[1] + p[1], o[2] + p[2]>>
        pos(n) == IF d.groups = <<>> THEN outer.at[n]
                  ELSE shift(outer.at[d.groups[group(n)].name], inner[group(n)].at[n])
        index(g) == CHOOSE i \in DOMAIN d.groups : d.groups[i].name = g
    IN [rects |-> [n \in ToSet(d.nodes) |-> Rect(pos(n), NodeW, NodeH)],
        boxes |-> [g \in ToSet(Names(d.groups)) |-> Rect(outer.at[g], inner[index(g)].w, inner[index(g)].h)]]

LayoutGroups(d, inner) == Absolutize(d, inner, Root(d, inner))
LayoutDAG(d) == LayoutGroups(d, Inner(d))

-----------------------------------------------------------------------------
Init == /\ input \in Inputs /\ phase = "declared"
        /\ wf = Nothing /\ dag = Nothing /\ drawing = Nothing

\* enqueueWorkflow and the validation in buildRun.
EnqueueWorkflow ==
    LET w == NewWorkflow(input)
    IN /\ phase = "declared"
       /\ wf' = w
       /\ phase' = IF ValidGroups(w.groups) /\ ValidateDAG(w.steps) THEN "accepted" ELSE "rejected"
       /\ UNCHANGED <<input, dag, drawing>>

DrawDAG == /\ phase = "accepted"
           /\ phase' = "drawn"
           /\ dag' = Graph(wf) /\ drawing' = LayoutDAG(dag')
           /\ UNCHANGED <<input, wf>>

Next == EnqueueWorkflow \/ DrawDAG
Spec == Init /\ [][Next]_vars

-----------------------------------------------------------------------------
(* Properties.                                                             *)

Declared   == FlattenSeq([i \in DOMAIN input.groups |-> input.groups[i].steps])

\* No group without steps waits for another: the code loses what such a group
\* should pass on from the groups before it to the groups after it.
NoEmptyLink == \A i \in DOMAIN input.groups : input.groups[i].steps = <<>> => input.groups[i].after = <<>>

\* C has every successor of x and every successor of its own.
Covers(S, pairs, x, C) ==
    \A u \in C \cup {x}, z \in S : <<u, z>> \in pairs => z \in C

\* What comes after x: the least set of that kind.
Reach(S, pairs, x) == {y \in S : \A C \in SUBSET S : Covers(S, pairs, x, C) => y \in C}

\* What a declaration means: a step waits for its dependencies, and for every
\* step of every group that its group waits for, directly or through others.
Meant ==
    LET steps  == ToSet(Names(Declared))
        groups == ToSet(Names(input.groups))
        after  == UNION {{<<g, input.groups[i].name>> : g \in ToSet(input.groups[i].after)}
                         : i \in DOMAIN input.groups}
    IN ToSet(DepEdges(Declared)) \cup
       {e \in steps \X steps :
           ~input.flat /\ \E i, j \in DOMAIN input.groups :
              /\ e[1] \in ToSet(Names(input.groups[i].steps)) /\ e[2] \in ToSet(Names(input.groups[j].steps))
              /\ input.groups[j].name \in Reach(groups, after, input.groups[i].name)}

WellNamed ==
    /\ "" \notin ToSet(Names(Declared)) /\ NoDuplicates(Names(Declared))
    /\ input.flat \/ ("" \notin ToSet(Names(input.groups)) /\ NoDuplicates(Names(input.groups)))
    /\ \A i \in DOMAIN Declared : ToSet(Declared[i].deps) \subseteq ToSet(Names(Declared))
    /\ \A i \in DOMAIN input.groups : input.flat \/ ToSet(input.groups[i].after) \subseteq ToSet(Names(input.groups))

\* workflow.go: "a group runs only after its dependencies", "cycles are rejected
\* at enqueue".  A workflow is accepted exactly if its names are in order and
\* what it means has no cycle, and the steps then wait for what it means.
AcceptedIsOrdered ==
    LET S == ToSet(Names(Declared))
    IN phase \in {"accepted", "rejected"} /\ (input.flat \/ NoEmptyLink) =>
        /\ (phase = "accepted") <=> WellNamed /\ \A s \in S : s \notin Reach(S, Meant, s)
        /\ phase = "accepted" =>
              \A s \in S : Reach(S, ToSet(DepEdges(wf.steps)), s) = Reach(S, Meant, s)

Disjoint(a, b) == \/ a.x + a.w <= b.x \/ b.x + b.w <= a.x
                  \/ a.y + a.h <= b.y \/ b.y + b.h <= a.y
Inside(a, b)   == /\ a.x >= b.x /\ a.x + a.w <= b.x + b.w
                  /\ a.y >= b.y /\ a.y + a.h <= b.y + b.h

\* renderDAGSVG draws an edge between the nodes of that name or, failing that, the boxes.
Anchor(n) == IF n \in DOMAIN drawing.rects THEN drawing.rects[n] ELSE drawing.boxes[n]
EndsBefore(a, b) == a.x + a.w < b.x

\* No group has the name of a step.
NamesApart == ToSet(Names(input.groups)) \cap ToSet(Names(Declared)) = {}

\* dag_svg.go: boxes "never enclose a node from another group", and edges run
\* from left to right.  Nodes do not overlap, a group's box holds its own nodes
\* and touches no other; and where groups are not named like steps, the edges
\* that are drawn point forward.
DrawingSound ==
    phase = "drawn" =>
        LET r == drawing.rects  b == drawing.boxes
        IN /\ \A m, n \in DOMAIN r : m # n => Disjoint(r[m], r[n])
           /\ \A g \in DOMAIN b, n \in DOMAIN r :
                 IF GroupOf(wf, n) = g THEN Inside(r[n], b[g]) ELSE Disjoint(r[n], b[g])
           /\ \A g, h \in DOMAIN b : g # h => Disjoint(b[g], b[h])
           /\ NamesApart =>
                 \A e \in ToSet(dag.edges) : e[2] \in DOMAIN r \/ NoEmptyLink => EndsBefore(Anchor(e[1]), Anchor(e[2]))

-----------------------------------------------------------------------------
(* What the repository says of the code and the code does not keep.        *)

\* dag_svg.go: "so a group is placed after whatever it waits on".  Not if another
\* group holds a step of that name.
GroupsInOrder ==
    phase = "drawn" /\ NoEmptyLink =>
        \A e \in ToSet(DepEdges(wf.groups)) : EndsBefore(drawing.boxes[e[1]], drawing.boxes[e[2]])

\* dag.go: "A dep across two different groups is a group-level edge, drawn once
\* between the boxes".  Every dependency of an accepted run is drawn as one.
EveryDependencyDrawn ==
    phase = "drawn" /\ NoEmptyLink =>
        \A e \in ToSet(DepEdges(wf.steps)) :
            {e, <<GroupOf(wf, e[1]), GroupOf(wf, e[2])>>} \cap ToSet(dag.edges) # {}
=============================================================================
