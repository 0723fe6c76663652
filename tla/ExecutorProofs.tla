---------------------------- MODULE ExecutorProofs ----------------------------
(***************************************************************************)
(* Theorems about the caches, for every set of names, numbers, formulas    *)
(* and operations, in every state between calls and inside the walks: all  *)
(* that reads a dirty node is dirty, a clean node holds what its formula   *)
(* gives, marking goes downstream only, the walks work on dirty nodes and  *)
(* upstream only, and a sweep leaves no listed node dirty.                 *)
(*                                                                         *)
(* The argument has two halves.  A mutation keeps the caches sound         *)
(* because what it changes is read by dirty nodes only once it has marked. *)
(* A walk keeps them sound because it computes a node only when nothing    *)
(* the node reads is dirty; that is what the walk invariants below are     *)
(* for, one for each of the two walks.                                     *)
(***************************************************************************)
EXTENDS StatKernelProofs

VisitStates == [NodeId -> {"Unvisited", "Visiting", "Visited"}]

\* The nodes that have a formula to be computed with.
Computed(g) == {n \in NodeId : g.type[n] \in {"Formula", "Collection"}}

\* A clean node holds what its formula gives on the values it reads.
Cached(g, f, v, D) ==
    \A n \in Computed(g) \ D : v[n] = Apply(f[n], [m \in g.dependencies[n] |-> v[m]])

\* Both, for the nodes as they are.
Fresh == Propagated(graph, dirty) /\ Cached(graph, formula, value, dirty)

-----------------------------------------------------------------------------
(***************************************************************************)
(* The two walks.                                                          *)
(***************************************************************************)

\* Entry i of the stack s is where n was opened: all above it is upstream of n,
\* and what n reads is Visited or above it.
OpenedAt(deps, s, vs, n, i) ==
    /\ s[i] = n
    /\ \A j \in 1 .. Len(s) : j > i => s[j] \in Reach(deps, deps[n])
    /\ \A d \in deps[n] : vs[d] = "Visited" \/ \E j \in 1 .. Len(s) : j > i /\ s[j] = d

\* evaluateIterative: Visited nodes are clean, Visiting nodes dirty and open.
StackSound(deps, D, s, vs) ==
    /\ \A n \in NodeId : vs[n] = "Visited" => n \notin D
    /\ \A n \in NodeId : vs[n] = "Visiting" =>
          n \in D /\ \E i \in 1 .. Len(s) : OpenedAt(deps, s, vs, n, i)

\* evaluateRecursive: what an activation is done with is clean, but for the
\* dependency it is waiting for.
FramesSound(deps, D, fs) ==
    \A i \in 1 .. Len(fs) :
        /\ fs[i].node \in D
        /\ fs[i].rest \subseteq deps[fs[i].node]
        /\ \A d \in deps[fs[i].node] \ fs[i].rest :
              d \notin D \/ (i < Len(fs) /\ d = fs[i + 1].node)
        /\ \A j \in 1 .. Len(fs) : j > i => fs[j].node \in Reach(deps, deps[fs[i].node])

\* The node the walk is for.
Root == IF call = "evaluate" THEN dirtyLeaves[position] ELSE requested

\* Only one of the walks is under way; it began at its root and works upstream.
OneWalk ==
    /\ stack = << >> \/ frames = << >>
    /\ stack = << >> => visitState = Unvisited
    /\ stack # << >> => stack[1] = Root
    /\ frames # << >> => frames[1].node = Root
    /\ \A i \in 1 .. Len(stack) : stack[i] \in Reach(graph.dependencies, {Root})
    /\ \A i \in 1 .. Len(frames) : frames[i].node \in Reach(graph.dependencies, {Root})

\* When a walk is over its root is clean, and so are the leaves swept before.
RootsClean ==
    /\ WalkDone /\ (call = "getNodeValue" \/ (call = "evaluate" /\ position > 0))
          => Root \notin dirty
    /\ call = "evaluate" => \A i \in 1 .. position - 1 : dirtyLeaves[i] \notin dirty

WalksSound ==
    /\ StackSound(graph.dependencies, dirty, stack, visitState)
    /\ FramesSound(graph.dependencies, dirty, frames)
    /\ OneWalk
    /\ RootsClean

\* The inductive invariant of the caches, over that of the kernel.
CInv == Fresh /\ WalksSound

-----------------------------------------------------------------------------
(***************************************************************************)
(* The stack.                                                              *)
(***************************************************************************)

\* Popping the top, once it is Visited and clean.
LEMMA PopKeepsStack ==
    ASSUME NEW deps \in Edges, NEW D \in SUBSET NodeId, NEW s \in Seq(NodeId), s # << >>,
           NEW vs \in VisitStates, StackSound(deps, D, s, vs),
           NEW E, D \ {Last(s)} \subseteq E, E \subseteq D \ {Last(s)}
    PROVE  StackSound(deps, E, Front(s), [vs EXCEPT ![Last(s)] = "Visited"])
<1> DEFINE t == Last(s)
           vis == [vs EXCEPT ![t] = "Visited"]
<1>1. /\ Len(s) \in Nat /\ Len(s) > 0 /\ t = s[Len(s)]
      /\ Len(Front(s)) = Len(s) - 1
      /\ \A i \in 1 .. Len(s) - 1 : Front(s)[i] = s[i]
  BY FrontElements
<1>2. t \in NodeId
  BY FrontType
<1> HIDE DEF t
<1>3. /\ vis[t] = "Visited"
      /\ \A n \in NodeId : n # t => vis[n] = vs[n]
  BY <1>2 DEF VisitStates
<1> HIDE DEF vis
<1>4. ASSUME NEW n \in NodeId, vis[n] = "Visited"
      PROVE  n \notin E
  BY <1>3, <1>4 DEF StackSound, t
<1>5. ASSUME NEW n \in NodeId, vis[n] = "Visiting"
      PROVE  n \in E /\ \E i \in 1 .. Len(Front(s)) : OpenedAt(deps, Front(s), vis, n, i)
  <2>1. n # t /\ vs[n] = "Visiting"
    BY <1>3, <1>5
  <2>2. n \in D
    BY <2>1 DEF StackSound
  <2>3. PICK i \in 1 .. Len(s) : OpenedAt(deps, s, vs, n, i)
    BY <2>1 DEF StackSound
  <2>4. i \in 1 .. Len(Front(s))
    BY <1>1, <2>1, <2>3 DEF OpenedAt
  <2>5. Front(s)[i] = n
    BY <1>1, <2>3, <2>4 DEF OpenedAt
  <2>6. ASSUME NEW j \in 1 .. Len(Front(s)), j > i
        PROVE  Front(s)[j] \in Reach(deps, deps[n])
    BY <1>1, <2>3, <2>6 DEF OpenedAt
  <2>7. ASSUME NEW d \in deps[n]
        PROVE  vis[d] = "Visited" \/ \E j \in 1 .. Len(Front(s)) : j > i /\ Front(s)[j] = d
    <3>1. d \in NodeId
      BY DEF Edges
    <3>2. CASE vs[d] = "Visited"
      BY <1>3, <3>1, <3>2
    <3>3. CASE \E j \in 1 .. Len(s) : j > i /\ s[j] = d
      <4>1. PICK j \in 1 .. Len(s) : j > i /\ s[j] = d
        BY <3>3
      <4>2. CASE j = Len(s)
        BY <1>1, <1>3, <4>1, <4>2
      <4>3. CASE j # Len(s)
        BY <1>1, <4>1, <4>3
      <4> QED
        BY <4>2, <4>3
    <3> QED
      BY <2>3, <3>2, <3>3 DEF OpenedAt
  <2>8. OpenedAt(deps, Front(s), vis, n, i)
    BY <2>5, <2>6, <2>7 DEF OpenedAt
  <2> QED
    BY <2>1, <2>2, <2>4, <2>8 DEF t
<1> QED
  BY <1>4, <1>5 DEF StackSound, vis, t

\* Opening the top: what it reads and is not Visited comes above it.
LEMMA OpenKeepsStack ==
    ASSUME NEW deps \in Edges, NEW D \in SUBSET NodeId, NEW s \in Seq(NodeId), s # << >>,
           NEW vs \in VisitStates, StackSound(deps, D, s, vs),
           Last(s) \in D, vs[Last(s)] = "Unvisited",
           NEW vis, vis = [vs EXCEPT ![Last(s)] = "Visiting"],
           NEW order \in Seq(NodeId),
           Range(order) = {d \in deps[Last(s)] : vis[d] # "Visited"}
    PROVE  StackSound(deps, D, s \o order, vis)
<1> DEFINE t == Last(s)
           r == s \o order
<1>1. Len(s) \in Nat /\ Len(s) > 0 /\ t = s[Len(s)]
  BY FrontElements
<1>2. t \in NodeId
  BY FrontType
<1>3. /\ Len(order) \in Nat
      /\ Len(r) = Len(s) + Len(order)
      /\ \A i \in 1 .. Len(s) : r[i] = s[i]
      /\ \A i \in 1 .. Len(order) : r[Len(s) + i] = order[i]
      /\ \A i \in Len(s) + 1 .. Len(r) : r[i] = order[i - Len(s)] /\ i - Len(s) \in 1 .. Len(order)
  BY <1>1
<1>4. /\ \A i \in 1 .. Len(order) : order[i] \in deps[t]
      /\ \A d \in deps[t] : vis[d] # "Visited" => \E i \in 1 .. Len(order) : order[i] = d
  BY DEF Range
<1> HIDE DEF t, r
<1>5. /\ vis[t] = "Visiting"
      /\ \A n \in NodeId : n # t => vis[n] = vs[n]
  BY <1>2 DEF VisitStates, t
<1>6. ASSUME NEW n \in NodeId, vis[n] = "Visited"
      PROVE  n \notin D
  BY <1>5, <1>6 DEF StackSound
<1>7. ASSUME NEW n \in NodeId, vis[n] = "Visiting"
      PROVE  n \in D /\ \E i \in 1 .. Len(r) : OpenedAt(deps, r, vis, n, i)
  <2>1. CASE n = t
    <3>1. Len(s) \in 1 .. Len(r) /\ r[Len(s)] = n
      BY <1>1, <1>3, <2>1
    <3>2. ASSUME NEW j \in 1 .. Len(r), j > Len(s)
          PROVE  r[j] \in Reach(deps, deps[n])
      <4>1. r[j] \in deps[n]
        BY <1>1, <1>3, <1>4, <2>1, <3>2
      <4>2. deps[n] \in SUBSET NodeId
        BY DEF Edges
      <4> QED
        BY <4>1, <4>2, ReachHoldsRoots
    <3>3. ASSUME NEW d \in deps[n], vis[d] # "Visited"
          PROVE  \E j \in 1 .. Len(r) : j > Len(s) /\ r[j] = d
      <4>1. PICK i \in 1 .. Len(order) : order[i] = d
        BY <1>4, <2>1, <3>3
      <4> QED
        BY <1>1, <1>3, <4>1
    <3>4. OpenedAt(deps, r, vis, n, Len(s))
      BY <3>1, <3>2, <3>3 DEF OpenedAt
    <3> QED
      BY <2>1, <3>1, <3>4 DEF t
  <2>2. CASE n # t
    <3>1. vs[n] = "Visiting"
      BY <1>5, <1>7, <2>2
    <3>2. PICK i \in 1 .. Len(s) : OpenedAt(deps, s, vs, n, i)
      BY <3>1 DEF StackSound
    <3>3. i < Len(s)
      BY <1>1, <2>2, <3>2 DEF OpenedAt
    <3>4. i \in 1 .. Len(r) /\ r[i] = n
      BY <1>1, <1>3, <3>2 DEF OpenedAt
    <3>5. ASSUME NEW j \in 1 .. Len(r), j > i
          PROVE  r[j] \in Reach(deps, deps[n])
      <4>1. CASE j <= Len(s)
        BY <1>1, <1>3, <3>2, <3>5, <4>1 DEF OpenedAt
      <4>2. CASE j > Len(s)
        <5>1. r[j] \in deps[t]
          BY <1>1, <1>3, <1>4, <4>2
        <5>2. t \in Reach(deps, deps[n])
          BY <1>1, <3>2, <3>3 DEF OpenedAt
        <5>3. ClosedUnder(deps, Reach(deps, deps[n]))
          BY ReachClosed
        <5> QED
          BY <5>1, <5>2, <5>3 DEF ClosedUnder
      <4> QED
        BY <1>1, <1>3, <4>1, <4>2
    <3>6. ASSUME NEW d \in deps[n], vis[d] # "Visited"
          PROVE  \E j \in 1 .. Len(r) : j > i /\ r[j] = d
      <4>1. d \in NodeId
        BY DEF Edges
      <4>2. vs[d] # "Visited"
        BY <1>5, <3>6, <4>1 DEF t
      <4>3. PICK j \in 1 .. Len(s) : j > i /\ s[j] = d
        BY <3>2, <4>2 DEF OpenedAt
      <4> QED
        BY <1>1, <1>3, <4>3
    <3>7. OpenedAt(deps, r, vis, n, i)
      BY <3>4, <3>5, <3>6 DEF OpenedAt
    <3> QED
      BY <3>1, <3>4, <3>7 DEF StackSound
  <2> QED
    BY <2>1, <2>2
<1> QED
  BY <1>6, <1>7 DEF StackSound, r

\* A Visiting node at the top has only clean nodes left to read: no node is
\* upstream of itself, so nothing was pushed above the place it was opened at.
LEMMA TopReadsClean ==
    ASSUME NEW deps \in Edges, NoCycle(deps), NEW D \in SUBSET NodeId,
           NEW s \in Seq(NodeId), s # << >>, NEW vs \in VisitStates,
           StackSound(deps, D, s, vs), vs[Last(s)] = "Visiting"
    PROVE  Last(s) \in D /\ deps[Last(s)] \cap D = {}
<1> DEFINE t == Last(s)
<1>1. Len(s) \in Nat /\ Len(s) > 0 /\ t = s[Len(s)] /\ t \in NodeId
  BY FrontElements, FrontType
<1> HIDE DEF t
<1>2. t \in D
  BY <1>1 DEF StackSound, t
<1>3. PICK i \in 1 .. Len(s) : OpenedAt(deps, s, vs, t, i)
  BY <1>1 DEF StackSound, t
<1>4. i = Len(s)
  <2>1. t \notin Reach(deps, deps[t])
    BY <1>1 DEF NoCycle
  <2> QED
    BY <1>1, <1>3, <2>1 DEF OpenedAt
<1>5. \A d \in deps[t] : vs[d] = "Visited"
  BY <1>1, <1>3, <1>4 DEF OpenedAt
<1>6. \A d \in deps[t] : d \in NodeId
  BY <1>1 DEF Edges
<1> QED
  BY <1>2, <1>5, <1>6 DEF StackSound, t

-----------------------------------------------------------------------------
(***************************************************************************)
(* The activations.                                                        *)
(***************************************************************************)

LEMMA FrameFields ==
    ASSUME NEW fs \in Seq(Frame), NEW i \in 1 .. Len(fs)
    PROVE  fs[i].node \in NodeId /\ fs[i].rest \in SUBSET NodeId
<1>1. fs[i] \in Frame
  OBVIOUS
<1> QED
  BY <1>1 DEF Frame

\* The activations after a call on d.
AfterCall(fs, D, d, caller, callee) ==
    Front(fs) \o (IF d \in D THEN <<caller, callee>> ELSE <<caller>>)

\* The caller is in its place, and the callee above it when d is dirty.
LEMMA CalledFrames ==
    ASSUME NEW D \in SUBSET NodeId, NEW d \in NodeId, NEW fs \in Seq(Frame), fs # << >>,
           NEW caller \in Frame, NEW callee \in Frame,
           NEW gs, gs = AfterCall(fs, D, d, caller, callee)
    PROVE  /\ Len(gs) = IF d \in D THEN Len(fs) + 1 ELSE Len(fs)
           /\ \A i \in 1 .. Len(fs) - 1 : gs[i] = fs[i]
           /\ gs[Len(fs)] = caller
           /\ d \in D => gs[Len(fs) + 1] = callee
<1> DEFINE top == Len(fs)
<1>0. /\ top \in Nat /\ top > 0 /\ Front(fs) \in Seq(Frame)
      /\ Len(Front(fs)) = top - 1
      /\ \A i \in 1 .. top - 1 : Front(fs)[i] = fs[i]
  BY FrontElements, FrontType
<1> HIDE DEF top
<1>1. CASE d \in D
  <2> DEFINE pair == <<caller, callee>>
  <2>1. gs = Front(fs) \o pair
    BY <1>1 DEF AfterCall
  <2>2. Len(pair) = 2 /\ pair[1] = caller /\ pair[2] = callee /\ pair \in Seq(Frame)
    BY <1>0
  <2> HIDE DEF pair
  <2>3. /\ Len(gs) = Len(Front(fs)) + Len(pair)
        /\ \A i \in 1 .. Len(Front(fs)) : gs[i] = Front(fs)[i]
        /\ \A i \in 1 .. Len(pair) : gs[Len(Front(fs)) + i] = pair[i]
    <3> DEFINE front == Front(fs)
    <3>1. front \in Seq(Frame) /\ pair \in Seq(Frame) /\ gs = front \o pair
      BY <1>0, <2>1, <2>2
    <3> HIDE DEF front
    <3>2. /\ Len(front \o pair) = Len(front) + Len(pair)
          /\ \A i \in 1 .. Len(front) : (front \o pair)[i] = front[i]
          /\ \A i \in 1 .. Len(pair) : (front \o pair)[Len(front) + i] = pair[i]
      BY <3>1, ConcatElements
    <3> QED
      BY <3>1, <3>2, Zenon DEF front
  <2>4. /\ Len(gs) = top + 1
        /\ \A i \in 1 .. top - 1 : gs[i] = fs[i]
        /\ gs[top] = caller /\ gs[top + 1] = callee
    <3>1. 1 \in 1 .. Len(pair) /\ 2 \in 1 .. Len(pair)
      BY <2>2
    <3>2. gs[top - 1 + 1] = caller /\ gs[top - 1 + 2] = callee
      BY <1>0, <2>2, <2>3, <3>1, Zenon
    <3>3. top - 1 + 2 = top + 1 /\ top - 1 + 1 = top
      BY <1>0
    <3> QED
      BY <1>0, <2>2, <2>3, <3>2, <3>3, Zenon
  <2> QED
    BY <1>1, <2>4, Zenon DEF top
<1>2. CASE d \notin D
  <2> DEFINE one == <<caller>>
  <2>1. gs = Front(fs) \o one
    BY <1>2 DEF AfterCall
  <2>2. Len(one) = 1 /\ one[1] = caller /\ one \in Seq(Frame)
    BY <1>0
  <2> HIDE DEF one
  <2>3. /\ Len(gs) = Len(Front(fs)) + Len(one)
        /\ \A i \in 1 .. Len(Front(fs)) : gs[i] = Front(fs)[i]
        /\ \A i \in 1 .. Len(one) : gs[Len(Front(fs)) + i] = one[i]
    <3> DEFINE front == Front(fs)
    <3>1. front \in Seq(Frame) /\ one \in Seq(Frame) /\ gs = front \o one
      BY <1>0, <2>1, <2>2
    <3> HIDE DEF front
    <3>2. /\ Len(front \o one) = Len(front) + Len(one)
          /\ \A i \in 1 .. Len(front) : (front \o one)[i] = front[i]
          /\ \A i \in 1 .. Len(one) : (front \o one)[Len(front) + i] = one[i]
      BY <3>1, ConcatElements
    <3> QED
      BY <3>1, <3>2, Zenon DEF front
  <2>4. Len(gs) = top /\ (\A i \in 1 .. top - 1 : gs[i] = fs[i]) /\ gs[top] = caller
    <3>1. 1 \in 1 .. Len(one)
      BY <2>2
    <3>2. gs[top - 1 + 1] = caller
      BY <1>0, <2>2, <2>3, <3>1, Zenon
    <3>3. top - 1 + 1 = top
      BY <1>0
    <3> QED
      BY <1>0, <2>2, <2>3, <3>2, <3>3, Zenon
  <2> QED
    BY <1>2, <2>4, Zenon DEF top
<1> QED
  BY <1>1, <1>2 DEF top

\* A call on a dependency: a clean one is done with, a dirty one is waited for.
LEMMA CallKeepsFrames ==
    ASSUME NEW deps \in Edges, NEW D \in SUBSET NodeId,
           NEW fs \in Seq(Frame), fs # << >>, FramesSound(deps, D, fs),
           NEW d \in Last(fs).rest, NEW gs,
           Len(gs) = IF d \in D THEN Len(fs) + 1 ELSE Len(fs),
           \A i \in 1 .. Len(fs) - 1 : gs[i] = fs[i],
           gs[Len(fs)].node = Last(fs).node, gs[Len(fs)].rest = Last(fs).rest \ {d},
           d \in D => gs[Len(fs) + 1].node = d /\ gs[Len(fs) + 1].rest = deps[d]
    PROVE  FramesSound(deps, D, gs)
<1> DEFINE top == Len(fs)
<1>1. top \in Nat /\ top > 0 /\ Last(fs) = fs[top]
  BY FrontElements
<1>2. \A i \in 1 .. top : fs[i].node \in NodeId /\ fs[i].rest \in SUBSET NodeId
  BY FrameFields
<1>4. d \in deps[fs[top].node]
  BY <1>1 DEF FramesSound
<1>5. /\ Len(gs) = IF d \in D THEN top + 1 ELSE top
      /\ \A i \in 1 .. top - 1 : gs[i] = fs[i]
      /\ gs[top].node = fs[top].node /\ gs[top].rest = fs[top].rest \ {d}
      /\ d \in D => gs[top + 1].node = d /\ gs[top + 1].rest = deps[d]
  BY <1>1
<1> HIDE DEF top
<1>6. \A i \in 1 .. top : gs[i].node = fs[i].node
  BY <1>1, <1>5
<1>7. ASSUME NEW i \in 1 .. Len(gs)
      PROVE  /\ gs[i].node \in D
             /\ gs[i].rest \subseteq deps[gs[i].node]
             /\ \A e \in deps[gs[i].node] \ gs[i].rest :
                   e \notin D \/ (i < Len(gs) /\ e = gs[i + 1].node)
             /\ \A j \in 1 .. Len(gs) : j > i => gs[j].node \in Reach(deps, deps[gs[i].node])
  <2>0. ASSUME d \in D, i <= top
        PROVE  d \in Reach(deps, deps[gs[i].node])
    <3>1. CASE i = top
      <4>1. gs[i].node = fs[top].node /\ fs[top].node \in NodeId
        BY <1>1, <1>2, <1>6, <3>1
      <4>2. deps[fs[top].node] \in SUBSET NodeId
        BY <4>1 DEF Edges
      <4> QED
        BY <1>4, <4>1, <4>2, ReachHoldsRoots
    <3>2. CASE i # top
      <4>1. fs[top].node \in Reach(deps, deps[gs[i].node])
        BY <1>1, <1>6, <2>0, <3>2 DEF FramesSound, top
      <4>2. ClosedUnder(deps, Reach(deps, deps[gs[i].node]))
        BY ReachClosed
      <4> QED
        BY <1>4, <4>1, <4>2 DEF ClosedUnder
    <3> QED
      BY <3>1, <3>2
  <2>1. \A j \in 1 .. Len(gs) : j > i => gs[j].node \in Reach(deps, deps[gs[i].node])
    <3> SUFFICES ASSUME NEW j \in 1 .. Len(gs), j > i
                 PROVE  gs[j].node \in Reach(deps, deps[gs[i].node])
      OBVIOUS
    <3>1. CASE j <= top
      <4>1. i \in 1 .. top /\ j \in 1 .. top
        BY <1>1, <1>5, <3>1
      <4>2. gs[i].node = fs[i].node /\ gs[j].node = fs[j].node
        BY <1>6, <4>1
      <4> QED
        BY <4>1, <4>2 DEF FramesSound, top
    <3>2. CASE j > top
      <4>1. d \in D /\ gs[j].node = d /\ i <= top
        BY <1>1, <1>5, <3>2
      <4> QED
        BY <2>0, <4>1
    <3> QED
      BY <1>1, <3>1, <3>2
  <2>2. CASE i < top
    <3>1. i \in 1 .. top - 1 /\ i + 1 \in 1 .. top /\ i < Len(gs)
      BY <1>1, <1>5, <2>2
    <3>2. i \in 1 .. Len(fs) /\ gs[i] = fs[i] /\ gs[i + 1].node = fs[i + 1].node
      BY <1>1, <1>5, <1>6, <3>1 DEF top
    <3>3. /\ fs[i].node \in D
          /\ fs[i].rest \subseteq deps[fs[i].node]
          /\ \A e \in deps[fs[i].node] \ fs[i].rest : e \notin D \/ e = fs[i + 1].node
      BY <3>2 DEF FramesSound
    <3> QED
      BY <2>1, <3>1, <3>2, <3>3
  <2>3. CASE i = top
    <3>1. /\ fs[top].node \in D
          /\ fs[top].rest \subseteq deps[fs[top].node]
          /\ \A e \in deps[fs[top].node] \ fs[top].rest : e \notin D
      BY <1>1 DEF FramesSound, top
    <3>2. gs[i].node = fs[top].node /\ gs[i].rest = fs[top].rest \ {d}
      BY <1>1, <1>5, <2>3
    <3>3. d \in D => i < Len(gs) /\ gs[i + 1].node = d
      BY <1>1, <1>5, <2>3
    <3> QED
      BY <2>1, <3>1, <3>2, <3>3
  <2>4. CASE i > top
    <3>1. d \in D /\ gs[i].node = d /\ gs[i].rest = deps[d]
      BY <1>1, <1>5, <2>4
    <3> QED
      BY <2>1, <3>1
  <2>5. i < top \/ i = top \/ i > top
    BY <1>1, <1>5
  <2> QED
    BY <2>2, <2>3, <2>4, <2>5
<1> QED
  BY <1>7 DEF FramesSound

\* The last activation returns when nothing it reads is dirty, and its own node
\* turns clean: it is not one that an earlier activation is for.
LEMMA ReturnKeepsFrames ==
    ASSUME NEW deps \in Edges, NoCycle(deps), NEW D \in SUBSET NodeId,
           NEW fs \in Seq(Frame), fs # << >>, FramesSound(deps, D, fs),
           Last(fs).rest = {}
    PROVE  /\ Last(fs).node \in D
           /\ deps[Last(fs).node] \cap D = {}
           /\ FramesSound(deps, D \ {Last(fs).node}, Front(fs))
<1> DEFINE top == Len(fs)
           t == fs[top].node
<1>1. /\ top \in Nat /\ top > 0 /\ Last(fs) = fs[top]
      /\ Len(Front(fs)) = top - 1
      /\ \A i \in 1 .. top - 1 : Front(fs)[i] = fs[i]
  BY FrontElements
<1>2. \A i \in 1 .. top : fs[i].node \in NodeId
  BY FrameFields
<1>3. t \in D /\ deps[t] \cap D = {}
  BY <1>1 DEF FramesSound
<1> HIDE DEF top
<1>4. ASSUME NEW i \in 1 .. top - 1
      PROVE  /\ fs[i].node \in D \ {t}
             /\ fs[i].rest \subseteq deps[fs[i].node]
             /\ \A e \in deps[fs[i].node] \ fs[i].rest :
                   e \notin D \ {t} \/ (i < top - 1 /\ e = fs[i + 1].node)
             /\ \A j \in 1 .. top - 1 : j > i => fs[j].node \in Reach(deps, deps[fs[i].node])
  <2>1. i \in 1 .. Len(fs) /\ top \in 1 .. Len(fs) /\ top > i
    BY <1>1 DEF top
  <2>2. /\ fs[i].node \in D
        /\ fs[i].rest \subseteq deps[fs[i].node]
        /\ \A e \in deps[fs[i].node] \ fs[i].rest : e \notin D \/ e = fs[i + 1].node
        /\ t \in Reach(deps, deps[fs[i].node])
        /\ \A j \in 1 .. top - 1 : j > i => fs[j].node \in Reach(deps, deps[fs[i].node])
    BY <1>1, <2>1 DEF FramesSound, top
  <2>3. fs[i].node # t
    BY <1>1, <1>2, <2>1, <2>2 DEF NoCycle
  <2>4. i < top - 1 \/ i + 1 = top
    BY <1>1
  <2> QED
    BY <2>2, <2>3, <2>4
<1> HIDE DEF t
<1>5. FramesSound(deps, D \ {t}, Front(fs))
  <2>1. \A i \in 1 .. top - 1 : i + 1 \in 1 .. top - 1 \/ ~(i < top - 1)
    BY <1>1
  <2> QED
    BY <1>1, <1>4, <2>1 DEF FramesSound
<1> QED
  BY <1>1, <1>3, <1>5 DEF t

-----------------------------------------------------------------------------
(***************************************************************************)
(* Computing a node, and what keeps the caches sound.                      *)
(***************************************************************************)

\* The clean nodes that were clean before, read what they read before, and find
\* there what they found before.
LEMMA CacheKept ==
    ASSUME Cached(graph, formula, value, dirty),
           \A n \in Computed(graph') \ dirty' :
              /\ n \in Computed(graph) \ dirty
              /\ formula'[n] = formula[n]
              /\ graph'.dependencies[n] = graph.dependencies[n]
              /\ value'[n] = value[n]
              /\ \A m \in graph.dependencies[n] : value'[m] = value[m]
    PROVE  Cached(graph', formula', value', dirty')
<1> SUFFICES ASSUME NEW n \in Computed(graph') \ dirty'
             PROVE  value'[n] = Apply(formula'[n], [m \in graph'.dependencies[n] |-> value'[m]])
  BY DEF Cached
<1>1. value[n] = Apply(formula[n], [m \in graph.dependencies[n] |-> value[m]])
  BY DEF Cached
<1>2. [m \in graph'.dependencies[n] |-> value'[m]] = [m \in graph.dependencies[n] |-> value[m]]
  OBVIOUS
<1> QED
  BY <1>1, <1>2

\* A dirty node has a formula, and looks up what the graph says it reads.
LEMMA DirtyIsComputed ==
    ASSUME IInv, NEW n \in NodeId
    PROVE  /\ n \in dirty => n \in Computed(graph)
           /\ n \in Computed(graph) =>
                 formula[n] # NoFormula /\ Operands(n) = graph.dependencies[n]
<1>1. graph.type[n] \in NodeType \cup {Absent}
  BY DEF IInv, TypeOK, Graphs
<1>2. n \in dirty => n \in Computed(graph)
  BY <1>1 DEF IInv, FormulaBindings, Computed, NodeType
<1>3. ASSUME n \in Computed(graph)
      PROVE  formula[n] # NoFormula /\ Operands(n) = graph.dependencies[n]
  <2>1. CASE graph.type[n] = "Formula"
    BY <2>1, KernelConstants DEF IInv, FormulaBindings, Operands
  <2>2. CASE graph.type[n] = "Collection"
    BY <2>2, KernelConstants DEF IInv, FormulaBindings, Operands
  <2> QED
    BY <1>3, <2>1, <2>2 DEF Computed
<1> QED
  BY <1>2, <1>3

\* Computing a dirty node that reads nothing dirty.
LEMMA ComputeKeepsFresh ==
    ASSUME IInv, Fresh, NEW t \in dirty, graph.dependencies[t] \cap dirty = {},
           ComputeValue(t), UNCHANGED <<graph, formula>>
    PROVE  Fresh'
<1>1. /\ graph \in Graphs /\ WellFormed(graph) /\ t \in NodeId
      /\ value \in [NodeId -> NodeValue] /\ dirty \in SUBSET NodeId
  BY DEF IInv, TypeOK, GraphWellFormed
<1>2. /\ t \in Computed(graph)
      /\ formula[t] # NoFormula /\ Operands(t) = graph.dependencies[t]
  BY <1>1, DirtyIsComputed
<1>3. /\ dirty' = dirty \ {t}
      /\ value' = [value EXCEPT ![t] =
                       Apply(formula[t], [m \in graph.dependencies[t] |-> value[m]])]
  BY <1>2 DEF ComputeValue
<1>4. Propagated(graph', dirty')
  BY <1>1, <1>3 DEF Fresh, Propagated
<1>5. t \notin graph.dependencies[t]
  BY <1>1 DEF Graphs
<1>6. ASSUME NEW n \in Computed(graph) \ dirty'
      PROVE  value'[n] = Apply(formula[n], [m \in graph.dependencies[n] |-> value'[m]])
  <2>1. n \in NodeId /\ graph.dependencies[n] \in SUBSET NodeId
    BY <1>1 DEF Computed, Graphs
  <2>2. t \notin graph.dependencies[n]
    BY <1>3, <1>5, <1>6, <2>1 DEF Fresh, Propagated
  <2>3. [m \in graph.dependencies[n] |-> value'[m]] = [m \in graph.dependencies[n] |-> value[m]]
    BY <1>1, <1>3, <2>1, <2>2
  <2>4. CASE n = t
    BY <1>1, <1>3, <2>3, <2>4
  <2>5. CASE n # t
    BY <1>1, <1>3, <1>6, <2>1, <2>3, <2>5 DEF Fresh, Cached
  <2> QED
    BY <2>4, <2>5
<1> QED
  BY <1>4, <1>6 DEF Fresh, Cached

-----------------------------------------------------------------------------
(***************************************************************************)
(* The steps of the walks.                                                 *)
(***************************************************************************)

\* The types the walks need, and that the graph has no cycle.
LEMMA WalkTypes ==
    ASSUME IInv
    PROVE  /\ graph \in Graphs /\ WellFormed(graph)
           /\ graph.dependencies \in Edges /\ NoCycle(graph.dependencies)
           /\ graph.dependents \in Edges
           /\ dirty \in SUBSET NodeId /\ stack \in Seq(NodeId) /\ frames \in Seq(Frame)
           /\ visitState \in VisitStates
BY DEF IInv, TypeOK, GraphWellFormed, WellFormed, Graphs, Acyclic, NoCycle, Edges, VisitStates

\* The root of the walk stays while a walk goes on.
LEMMA RootStays ==
    ASSUME UNCHANGED <<dirtyLeaves, callVars>>
    PROVE  Root' = Root
BY DEF Root, callVars

\* A node at the top of the stack that is clean, or turns clean, goes.
LEMMA PopKeepsWalks ==
    ASSUME IInv, WalksSound, stack # << >>,
           UNCHANGED <<graph, dirtyLeaves, callVars>>,
           PopStack([visitState EXCEPT ![Last(stack)] = "Visited"]),
           dirty' = dirty \ {Last(stack)}
    PROVE  WalksSound'
<1> DEFINE vis == [visitState EXCEPT ![Last(stack)] = "Visited"]
<1>1. /\ graph.dependencies \in Edges /\ dirty \in SUBSET NodeId
      /\ stack \in Seq(NodeId) /\ visitState \in VisitStates
  BY WalkTypes
<1>2. /\ stack' = Front(stack)
      /\ visitState' = IF Len(stack) = 1 THEN Unvisited ELSE vis
      /\ frames = << >> /\ frames' = << >>
  BY DEF PopStack, WalksSound, OneWalk
<1>3. /\ Len(stack) \in Nat /\ Len(stack) > 0 /\ Last(stack) = stack[Len(stack)]
      /\ Len(stack') = Len(stack) - 1
      /\ \A i \in 1 .. Len(stack) - 1 : stack'[i] = stack[i]
  BY <1>1, <1>2, FrontElements
<1>4. stack' \in Seq(NodeId)
  BY <1>1, <1>2, FrontType
<1>5. stack' = << >> <=> Len(stack) = 1
  BY <1>3, <1>4, EmptySeq
<1>6. StackSound(graph.dependencies, dirty', stack', visitState')
  <2>1. CASE Len(stack) = 1
    BY <1>2, <2>1 DEF StackSound, Unvisited
  <2>2. CASE Len(stack) # 1
    <3>1. StackSound(graph.dependencies, dirty, stack, visitState)
      BY DEF WalksSound
    <3>2. StackSound(graph.dependencies, dirty', Front(stack), vis)
      BY <1>1, <3>1, PopKeepsStack
    <3> QED
      BY <1>2, <2>2, <3>2
  <2> QED
    BY <2>1, <2>2
<1>7. FramesSound(graph.dependencies, dirty', frames')
  BY <1>2 DEF FramesSound
<1>8. Root' = Root /\ stack[1] = Root
  BY RootStays DEF WalksSound, OneWalk
<1>9. OneWalk'
  <2>1. stack' = << >> => visitState' = Unvisited
    BY <1>2, <1>5
  <2>2. stack' # << >> => stack'[1] = Root
    BY <1>3, <1>5, <1>8
  <2>3. \A i \in 1 .. Len(stack') : stack'[i] \in Reach(graph.dependencies, {Root})
    <3>1. \A i \in 1 .. Len(stack) : stack[i] \in Reach(graph.dependencies, {Root})
      BY DEF WalksSound, OneWalk
    <3>2. \A i \in 1 .. Len(stack') : i \in 1 .. Len(stack) - 1 /\ i \in 1 .. Len(stack)
      BY <1>3
    <3> QED
      BY <1>3, <3>1, <3>2, Zenon
  <2>4. \A i \in 1 .. Len(frames') : FALSE
    BY <1>2
  <2> QED
    BY <1>2, <1>8, <2>1, <2>2, <2>3, <2>4 DEF OneWalk
<1>10. RootsClean'
  <2>1. WalkDone' => Root \notin dirty'
    BY <1>3, <1>5, <1>8 DEF WalkDone
  <2>2. call = "evaluate" => \A i \in 1 .. position - 1 : dirtyLeaves[i] \notin dirty'
    BY DEF WalksSound, RootsClean
  <2> QED
    BY <1>8, <2>1, <2>2 DEF RootsClean, callVars
<1> QED
  BY <1>6, <1>7, <1>9, <1>10 DEF WalksSound

LEMMA PopVisitedSound ==
    ASSUME IInv, CInv, PopVisited
    PROVE  CInv'
<1>1. /\ stack # << >> /\ visitState[Last(stack)] = "Visited" /\ PopStack(visitState)
      /\ UNCHANGED <<graph, formula, value, dirty, dirtyLeaves, callVars>>
  BY DEF PopVisited, nodeVars
<1>2. visitState \in VisitStates /\ Last(stack) \in NodeId
  BY <1>1, WalkTypes, FrontType
<1>3. [visitState EXCEPT ![Last(stack)] = "Visited"] = visitState
  BY <1>1, <1>2 DEF VisitStates
<1>4. dirty' = dirty \ {Last(stack)}
  BY <1>1, <1>2 DEF CInv, WalksSound, StackSound
<1>5. WalksSound'
  BY <1>1, <1>3, <1>4, PopKeepsWalks DEF CInv
<1> QED
  BY <1>1, <1>5 DEF CInv, Fresh

LEMMA VisitCleanSound ==
    ASSUME IInv, CInv, VisitClean
    PROVE  CInv'
<1>1. /\ stack # << >> /\ Last(stack) \notin dirty
      /\ PopStack([visitState EXCEPT ![Last(stack)] = "Visited"])
      /\ UNCHANGED <<graph, formula, value, dirty, dirtyLeaves, callVars>>
  BY DEF VisitClean, nodeVars
<1>2. dirty' = dirty \ {Last(stack)}
  BY <1>1
<1>3. WalksSound'
  BY <1>1, <1>2, PopKeepsWalks DEF CInv
<1> QED
  BY <1>1, <1>3 DEF CInv, Fresh

LEMMA ComputeVisitingSound ==
    ASSUME IInv, CInv, ComputeVisiting
    PROVE  CInv'
<1>1. /\ stack # << >> /\ visitState[Last(stack)] = "Visiting" /\ ComputeValue(Last(stack))
      /\ PopStack([visitState EXCEPT ![Last(stack)] = "Visited"])
      /\ UNCHANGED <<graph, formula, dirtyLeaves, callVars>>
  BY DEF ComputeVisiting
<1>2. dirty' = dirty \ {Last(stack)}
  BY <1>1 DEF ComputeValue
<1>3. Last(stack) \in dirty /\ graph.dependencies[Last(stack)] \cap dirty = {}
  BY <1>1, WalkTypes, TopReadsClean DEF CInv, WalksSound
<1>4. Fresh'
  BY <1>1, <1>3, ComputeKeepsFresh DEF CInv
<1>5. WalksSound'
  BY <1>1, <1>2, PopKeepsWalks DEF CInv
<1> QED
  BY <1>4, <1>5 DEF CInv

LEMMA VisitDirtySound ==
    ASSUME IInv, CInv, VisitDirty
    PROVE  CInv'
<1> DEFINE deps == graph.dependencies
           waiting == {d \in deps[Last(stack)] : visitState'[d] # "Visited"}
<1>1. /\ stack # << >> /\ Last(stack) \in dirty /\ visitState[Last(stack)] = "Unvisited"
      /\ visitState' = [visitState EXCEPT ![Last(stack)] = "Visiting"]
      /\ UNCHANGED <<graph, formula, value, dirty, dirtyLeaves, callVars, frames>>
      /\ \E order \in Orders(waiting) : stack' = stack \o order
  BY DEF VisitDirty, nodeVars
<1>2. /\ deps \in Edges /\ dirty \in SUBSET NodeId
      /\ stack \in Seq(NodeId) /\ visitState \in VisitStates
  BY WalkTypes
<1>3. Last(stack) \in NodeId
  BY <1>1, <1>2, FrontType
<1>4. waiting \in SUBSET NodeId
  BY <1>2, <1>3 DEF Edges
<1>5. PICK order \in Seq(NodeId) : Range(order) = waiting /\ stack' = stack \o order
  <2> HIDE DEF waiting
  <2> QED
    BY <1>1, <1>4, OrdersRange
<1>6. /\ Len(stack) \in Nat /\ Len(stack) > 0 /\ Last(stack) = stack[Len(stack)]
      /\ Len(order) \in Nat /\ Len(stack') = Len(stack) + Len(order)
      /\ \A i \in 1 .. Len(stack) : stack'[i] = stack[i]
      /\ \A i \in 1 .. Len(stack') : i > Len(stack) =>
            i - Len(stack) \in 1 .. Len(order) /\ stack'[i] = order[i - Len(stack)]
  BY <1>1, <1>2, <1>5, FrontElements
<1>7. Root' = Root /\ stack[1] = Root /\ frames = << >>
  BY <1>1, RootStays DEF CInv, WalksSound, OneWalk
<1>8. StackSound(deps, dirty', stack', visitState')
  <2>1. StackSound(deps, dirty, stack, visitState)
    BY DEF CInv, WalksSound
  <2>2. Range(order) = {d \in deps[Last(stack)] : visitState'[d] # "Visited"}
    BY <1>5
  <2> HIDE DEF deps
  <2>3. StackSound(deps, dirty, stack \o order, visitState')
    BY <1>1, <1>2, <2>1, <2>2, OpenKeepsStack
  <2> QED
    BY <1>1, <1>5, <2>3
<1>9. OneWalk'
  <2> DEFINE upstream == Reach(deps, {Root})
  <2>1. \A i \in 1 .. Len(stack) : stack[i] \in upstream
    BY DEF CInv, WalksSound, OneWalk
  <2>2. ClosedUnder(deps, upstream)
    BY <1>2, ReachClosed
  <2>3. \A i \in 1 .. Len(order) : order[i] \in deps[Last(stack)]
    BY <1>5 DEF Range
  <2> HIDE DEF upstream
  <2>4. Last(stack) \in upstream
    BY <1>6, <2>1
  <2>5. \A i \in 1 .. Len(order) : order[i] \in upstream
    BY <2>2, <2>3, <2>4 DEF ClosedUnder
  <2>6. ASSUME NEW i \in 1 .. Len(stack')
        PROVE  stack'[i] \in upstream
    <3>1. CASE i <= Len(stack)
      BY <1>6, <2>1, <3>1
    <3>2. CASE i > Len(stack)
      BY <1>6, <2>5, <3>2
    <3> QED
      BY <1>6, <3>1, <3>2
  <2>7. stack' # << >> /\ stack'[1] = Root
    BY <1>6, <1>7
  <2>8. frames' = << >> /\ \A i \in 1 .. Len(frames') : FALSE
    BY <1>1, <1>7
  <2> QED
    BY <1>1, <1>7, <2>6, <2>7, <2>8 DEF OneWalk, upstream
<1>10. RootsClean'
  <2>1. stack' # << >>
    BY <1>6
  <2> QED
    BY <1>1, <1>7, <2>1 DEF CInv, WalksSound, RootsClean, WalkDone, callVars
<1>11. FramesSound(deps, dirty', frames')
  BY <1>1, <1>7 DEF FramesSound
<1>12. WalksSound'
  BY <1>1, <1>8, <1>9, <1>10, <1>11 DEF WalksSound
<1> QED
  BY <1>1, <1>12 DEF CInv, Fresh

\* The last activation stands for a node upstream of the root.
LEMMA CallDependencySound ==
    ASSUME IInv, CInv, NEW d \in NodeId, CallDependency(d)
    PROVE  CInv'
<1> DEFINE deps == graph.dependencies
           top == Len(frames)
           caller == [node |-> Last(frames).node, rest |-> Last(frames).rest \ {d}]
           callee == [node |-> d, rest |-> deps[d]]
<1>2. /\ deps \in Edges /\ dirty \in SUBSET NodeId /\ frames \in Seq(Frame)
  BY WalkTypes
<1>1. /\ frames # << >> /\ d \in Last(frames).rest
      /\ frames' = AfterCall(frames, dirty, d, caller, callee)
      /\ UNCHANGED <<graph, formula, value, dirty, dirtyLeaves, callVars, stack, visitState>>
  <2>1. /\ frames # << >> /\ d \in Last(frames).rest
        /\ frames' = AfterCall(frames, dirty, d, [Last(frames) EXCEPT !.rest = @ \ {d}], callee)
        /\ UNCHANGED <<graph, formula, value, dirty, dirtyLeaves, callVars, stack, visitState>>
    BY DEF CallDependency, nodeVars, AfterCall
  <2>2. Last(frames) \in Frame
    BY <1>2, <2>1, FrontType
  <2>3. [Last(frames) EXCEPT !.rest = @ \ {d}] = caller
    BY <2>2 DEF Frame
  <2> QED
    BY <2>1, <2>3
<1>3. Last(frames) \in Frame /\ top \in Nat /\ top > 0 /\ Last(frames) = frames[top]
  BY <1>1, <1>2, FrontType, FrontElements
<1>4. caller \in Frame /\ callee \in Frame
  BY <1>2, <1>3 DEF Frame, Edges
<1>5. /\ caller.node = Last(frames).node /\ caller.rest = Last(frames).rest \ {d}
      /\ callee.node = d /\ callee.rest = deps[d]
  OBVIOUS
<1> HIDE DEF caller, callee, deps
<1>6. /\ Len(frames') = IF d \in dirty THEN top + 1 ELSE top
      /\ \A i \in 1 .. top - 1 : frames'[i] = frames[i]
      /\ frames'[top] = caller
      /\ d \in dirty => frames'[top + 1] = callee
  BY <1>1, <1>2, <1>4, CalledFrames DEF top
<1>7. FramesSound(deps, dirty, frames')
  <2>1. FramesSound(deps, dirty, frames)
    BY DEF CInv, WalksSound, deps
  <2> QED
    BY <1>1, <1>2, <1>5, <1>6, <2>1, CallKeepsFrames
<1>8. Root' = Root /\ stack = << >> /\ frames[1].node = Root
  BY <1>1, RootStays DEF CInv, WalksSound, OneWalk
<1> HIDE DEF top
<1>9. \A i \in 1 .. top : frames'[i].node = frames[i].node
  BY <1>3, <1>5, <1>6
<1>10. ASSUME NEW i \in 1 .. Len(frames')
       PROVE  frames'[i].node \in Reach(deps, {Root})
  <2> DEFINE upstream == Reach(deps, {Root})
  <2>1. \A j \in 1 .. top : frames[j].node \in upstream
    BY DEF CInv, WalksSound, OneWalk, deps, top
  <2>2. ClosedUnder(deps, upstream)
    BY <1>2, ReachClosed
  <2> HIDE DEF upstream
  <2>3. CASE i <= top
    <3>1. i \in 1 .. top
      BY <1>3, <2>3
    <3>2. frames'[i].node \in upstream
      BY <1>9, <2>1, <3>1
    <3> QED
      BY <3>2 DEF upstream
  <2>4. CASE i > top
    <3>1. i = top + 1 /\ d \in dirty
      BY <1>3, <1>6, <2>4
    <3>2. frames'[i].node = d
      BY <1>5, <1>6, <3>1
    <3>3. d \in deps[Last(frames).node]
      BY <1>1, <1>3 DEF CInv, WalksSound, FramesSound, deps, top
    <3>4. top \in 1 .. top
      BY <1>3
    <3>5. Last(frames).node \in upstream
      BY <1>3, <2>1, <3>4
    <3> QED
      BY <2>2, <3>2, <3>3, <3>5 DEF ClosedUnder, upstream
  <2> QED
    BY <1>3, <1>6, <2>3, <2>4
<1>11. frames' # << >> /\ frames'[1].node = Root
  <2>1. Len(frames') > 0 /\ 1 \in 1 .. top
    BY <1>3, <1>6
  <2> QED
    BY <1>8, <1>9, <2>1
<1>12. OneWalk'
  <2>1. stack' = << >> /\ visitState' = Unvisited /\ \A i \in 1 .. Len(stack') : FALSE
    BY <1>1, <1>8 DEF CInv, WalksSound, OneWalk
  <2> QED
    BY <1>1, <1>8, <1>10, <1>11, <2>1 DEF OneWalk, deps
<1>13. RootsClean'
  BY <1>1, <1>8, <1>11 DEF CInv, WalksSound, RootsClean, WalkDone, callVars
<1>14. WalksSound'
  BY <1>1, <1>7, <1>12, <1>13 DEF CInv, WalksSound, deps
<1> QED
  BY <1>1, <1>14 DEF CInv, Fresh

LEMMA ComputeReturningSound ==
    ASSUME IInv, CInv, ComputeReturning
    PROVE  CInv'
<1> DEFINE deps == graph.dependencies
           t == Last(frames).node
<1>1. /\ frames # << >> /\ Last(frames).rest = {} /\ ComputeValue(t) /\ frames' = Front(frames)
      /\ UNCHANGED <<graph, formula, dirtyLeaves, callVars, stack, visitState>>
  BY DEF ComputeReturning
<1>2. /\ deps \in Edges /\ NoCycle(deps) /\ dirty \in SUBSET NodeId
      /\ frames \in Seq(Frame)
  BY WalkTypes
<1>3. FramesSound(deps, dirty, frames)
  BY DEF CInv, WalksSound
<1>4. /\ t \in dirty /\ deps[t] \cap dirty = {}
      /\ FramesSound(deps, dirty \ {t}, Front(frames))
  BY <1>1, <1>2, <1>3, ReturnKeepsFrames
<1>5. dirty' = dirty \ {t}
  BY <1>1 DEF ComputeValue
<1>6. Fresh'
  BY <1>1, <1>4, ComputeKeepsFresh DEF CInv
<1>7. /\ Len(frames) \in Nat /\ Len(frames) > 0 /\ Last(frames) = frames[Len(frames)]
      /\ Len(frames') = Len(frames) - 1
      /\ \A i \in 1 .. Len(frames) - 1 : frames'[i] = frames[i]
      /\ frames' \in Seq(Frame)
  BY <1>1, <1>2, FrontElements, FrontType
<1>8. frames' = << >> <=> Len(frames) = 1
  BY <1>7, EmptySeq
<1>9. /\ Root' = Root /\ stack = << >> /\ visitState = Unvisited /\ frames[1].node = Root
      /\ \A i \in 1 .. Len(frames) : frames[i].node \in Reach(deps, {Root})
  BY <1>1, RootStays DEF CInv, WalksSound, OneWalk
<1> HIDE DEF t, deps
<1>10. OneWalk'
  <2>1. frames' # << >> => frames'[1].node = Root
    BY <1>7, <1>8, <1>9
  <2>2. \A i \in 1 .. Len(frames') : frames'[i].node \in Reach(deps, {Root})
    <3>1. \A i \in 1 .. Len(frames') : i \in 1 .. Len(frames) - 1 /\ i \in 1 .. Len(frames)
      BY <1>7
    <3> QED
      BY <1>7, <1>9, <3>1, Zenon
  <2>3. \A i \in 1 .. Len(stack') : FALSE
    BY <1>1, <1>9
  <2> QED
    BY <1>1, <1>9, <2>1, <2>2, <2>3 DEF OneWalk, deps
<1>11. RootsClean'
  <2>1. WalkDone' => Root \notin dirty'
    BY <1>5, <1>7, <1>8, <1>9 DEF WalkDone, t
  <2>2. call = "evaluate" => \A i \in 1 .. position - 1 : dirtyLeaves[i] \notin dirty'
    BY <1>5 DEF CInv, WalksSound, RootsClean
  <2> QED
    BY <1>1, <1>9, <2>1, <2>2 DEF RootsClean, callVars
<1>12. StackSound(deps, dirty', stack', visitState')
  BY <1>1, <1>9 DEF StackSound, Unvisited
<1>13. WalksSound'
  BY <1>1, <1>4, <1>5, <1>10, <1>11, <1>12 DEF WalksSound, deps, t
<1> QED
  BY <1>6, <1>13 DEF CInv

-----------------------------------------------------------------------------
(***************************************************************************)
(* Calls begin and end.                                                    *)
(***************************************************************************)

\* Where no walk is under way there is nothing to be wrong with it.
LEMMA NoWalkIsSound ==
    ASSUME stack' = << >>, frames' = << >>, visitState' = Unvisited
    PROVE  /\ StackSound(graph.dependencies, dirty, stack, visitState)'
           /\ FramesSound(graph.dependencies, dirty, frames)'
           /\ OneWalk'
<1>1. (\A i \in 1 .. Len(stack') : FALSE) /\ (\A i \in 1 .. Len(frames') : FALSE)
  OBVIOUS
<1> QED
  BY <1>1 DEF StackSound, FramesSound, OneWalk, Unvisited

\* A walk begins at a dirty node, on an empty stack.
LEMMA StartWalkSound ==
    ASSUME IInv, CInv, WalkDone, NEW id \in dirty, StartWalk(id), Root' = id,
           UNCHANGED <<graph, dirty>>
    PROVE  /\ StackSound(graph.dependencies, dirty, stack, visitState)'
           /\ FramesSound(graph.dependencies, dirty, frames)'
           /\ OneWalk'
           /\ ~WalkDone'
<1> DEFINE deps == graph.dependencies
<1>1. id \in NodeId /\ deps \in Edges
  BY WalkTypes
<1>2. stack = << >> /\ frames = << >> /\ visitState = Unvisited
  BY DEF WalkDone, CInv, WalksSound, OneWalk
<1>3. id \in Reach(deps, {Root'})
  <2>1. {id} \in SUBSET NodeId
    BY <1>1
  <2>2. {id} \subseteq Reach(deps, {id})
    BY <2>1, ReachHoldsRoots
  <2> QED
    BY <2>2
<1>4. CASE evaluateImpl = "Iterative"
  <2>1. stack' = <<id>> /\ visitState' = Unvisited /\ frames' = << >>
    BY <1>2, <1>4 DEF StartWalk
  <2>2. Len(stack') = 1 /\ stack'[1] = id /\ Len(frames') = 0 /\ stack' # << >>
    BY <2>1
  <2>3. StackSound(deps, dirty, stack', visitState')
    BY <2>1 DEF StackSound, Unvisited
  <2>4. FramesSound(deps, dirty, frames')
    BY <2>2 DEF FramesSound
  <2>5. \A i \in 1 .. Len(stack') : stack'[i] \in Reach(deps, {Root'})
    BY <1>3, <2>2
  <2>6. \A i \in 1 .. Len(frames') : FALSE
    BY <2>2
  <2>7. OneWalk'
    BY <2>1, <2>2, <2>5, <2>6 DEF OneWalk
  <2> QED
    BY <2>2, <2>3, <2>4, <2>7 DEF WalkDone
<1>5. CASE evaluateImpl # "Iterative"
  <2> DEFINE frame == [node |-> id, rest |-> deps[id]]
  <2>1. frames' = <<frame>> /\ visitState' = Unvisited /\ stack' = << >>
    BY <1>2, <1>5 DEF StartWalk
  <2>2. frame.node = id /\ frame.rest = deps[id]
    OBVIOUS
  <2> HIDE DEF frame
  <2>3. Len(frames') = 1 /\ frames'[1] = frame /\ Len(stack') = 0 /\ frames' # << >>
    BY <2>1
  <2>4. StackSound(deps, dirty, stack', visitState')
    BY <2>1 DEF StackSound, Unvisited
  <2>5. FramesSound(deps, dirty, frames')
    BY <2>2, <2>3 DEF FramesSound
  <2>6. \A i \in 1 .. Len(frames') : frames'[i].node \in Reach(deps, {Root'})
    BY <1>3, <2>2, <2>3
  <2>7. \A i \in 1 .. Len(stack') : FALSE
    BY <2>3
  <2>8. OneWalk'
    BY <2>1, <2>2, <2>3, <2>6, <2>7 DEF OneWalk
  <2> QED
    BY <2>3, <2>4, <2>5, <2>8 DEF WalkDone
<1> QED
  BY <1>4, <1>5

LEMMA AbortSound ==
    ASSUME CInv, Abort
    PROVE  CInv'
<1>1. /\ call' = "aborted" /\ stack' = << >> /\ visitState' = Unvisited /\ frames' = << >>
      /\ UNCHANGED <<graph, formula, value, dirty>>
  BY DEF Abort, nodeVars
<1>2. RootsClean'
  BY <1>1 DEF RootsClean
<1> QED
  BY <1>1, <1>2, NoWalkIsSound DEF CInv, Fresh, WalksSound

\* A call returns, or a sweep begins: no walk is under way before or after.
LEMMA NoWalkSound ==
    ASSUME CInv, WalkDone, UNCHANGED walkVars, Fresh',
           call' = "none" \/ (call' = "evaluate" /\ position' = 0)
    PROVE  CInv'
<1>1. stack' = << >> /\ frames' = << >> /\ visitState' = Unvisited
  BY DEF WalkDone, walkVars, CInv, WalksSound, OneWalk
<1>2. RootsClean'
  BY DEF RootsClean
<1> QED
  BY <1>1, <1>2, NoWalkIsSound DEF CInv, WalksSound

LEMMA GetNodeValueSound ==
    ASSUME IInv, CInv, NEW id \in NodeId, GetNodeValue(id)
    PROVE  CInv'
<1>1. call = "none" /\ UNCHANGED <<graph, formula, value, dirty, dirtyLeaves>>
  BY DEF GetNodeValue, nodeVars
<1>2. WalkDone
  BY <1>1 DEF IInv, IdleRests
<1>3. Fresh'
  BY <1>1 DEF CInv, Fresh
<1>4. CASE id \in dirty
  <2>1. call' = "getNodeValue" /\ requested' = id /\ StartWalk(id)
    BY <1>4 DEF GetNodeValue
  <2>2. Root' = id
    BY <2>1 DEF Root
  <2>3. /\ StackSound(graph.dependencies, dirty, stack, visitState)'
        /\ FramesSound(graph.dependencies, dirty, frames)'
        /\ OneWalk'
        /\ ~WalkDone'
    BY <1>1, <1>2, <1>4, <2>1, <2>2, StartWalkSound
  <2>4. RootsClean'
    BY <2>1, <2>3 DEF RootsClean
  <2> QED
    BY <1>3, <2>3, <2>4 DEF CInv, WalksSound
<1>5. CASE id \notin dirty
  <2>1. call' = "none" /\ UNCHANGED walkVars
    BY <1>1, <1>5 DEF GetNodeValue
  <2> QED
    BY <1>2, <1>3, <2>1, NoWalkSound
<1> QED
  BY <1>4, <1>5

LEMMA EvaluateLeafSound ==
    ASSUME IInv, CInv, EvaluateLeaf
    PROVE  CInv'
<1> DEFINE leaf == dirtyLeaves[position + 1]
<1>1. /\ call = "evaluate" /\ call' = "evaluate" /\ WalkDone /\ position' = position + 1
      /\ IF leaf \in dirty THEN StartWalk(leaf) ELSE UNCHANGED walkVars
      /\ UNCHANGED <<graph, formula, value, dirty, dirtyLeaves>>
  BY DEF EvaluateLeaf, nodeVars
<1>2. position \in Nat
  BY DEF IInv, TypeOK
<1>3. Root' = leaf
  BY <1>1 DEF Root
<1>4. \A i \in 1 .. position : dirtyLeaves[i] \notin dirty
  <2>1. \A i \in 1 .. position - 1 : dirtyLeaves[i] \notin dirty
    BY <1>1 DEF CInv, WalksSound, RootsClean
  <2>2. position > 0 => dirtyLeaves[position] \notin dirty
    BY <1>1 DEF CInv, WalksSound, RootsClean, Root
  <2>3. \A i \in 1 .. position : i \in 1 .. position - 1 \/ (i = position /\ position > 0)
    BY <1>2
  <2> QED
    BY <2>1, <2>2, <2>3
<1>5. Fresh'
  BY <1>1 DEF CInv, Fresh
<1> HIDE DEF leaf
<1>6. /\ StackSound(graph.dependencies, dirty, stack, visitState)'
      /\ FramesSound(graph.dependencies, dirty, frames)'
      /\ OneWalk'
      /\ WalkDone' => leaf \notin dirty
  <2>1. CASE leaf \in dirty
    BY <1>1, <1>3, <2>1, StartWalkSound
  <2>2. CASE leaf \notin dirty
    <3>1. stack' = << >> /\ frames' = << >> /\ visitState' = Unvisited
      BY <1>1, <2>2 DEF WalkDone, walkVars, CInv, WalksSound, OneWalk
    <3> QED
      BY <2>2, <3>1, NoWalkIsSound
  <2> QED
    BY <2>1, <2>2
<1>7. RootsClean'
  <2>1. position' - 1 = position
    BY <1>1, <1>2
  <2> QED
    BY <1>1, <1>3, <1>4, <1>6, <2>1 DEF RootsClean
<1> QED
  BY <1>5, <1>6, <1>7 DEF CInv, WalksSound

LEMMA ExecutorStepSound ==
    ASSUME IInv, CInv, ExecutorStep
    PROVE  CInv'
<1>1. CASE PopVisited \/ VisitClean \/ VisitDirty \/ ComputeVisiting
  BY <1>1, PopVisitedSound, VisitCleanSound, VisitDirtySound, ComputeVisitingSound
<1>2. CASE (\E d \in NodeId : CallDependency(d)) \/ ComputeReturning
  BY <1>2, CallDependencySound, ComputeReturningSound
<1>3. CASE ComputeAborts \/ EvaluateLeafAborts
  BY <1>3, AbortSound DEF ComputeAborts, EvaluateLeafAborts
<1>4. CASE EvaluateLeaf
  BY <1>4, EvaluateLeafSound
<1>5. CASE ReturnNodeValue \/ ReturnEvaluate
  <2>1. /\ WalkDone /\ call' = "none" /\ UNCHANGED walkVars
        /\ UNCHANGED <<graph, formula, value, dirty>>
    BY <1>5 DEF ReturnNodeValue, ReturnEvaluate, nodeVars
  <2>2. Fresh'
    BY <2>1 DEF CInv, Fresh
  <2> QED
    BY <2>1, <2>2, NoWalkSound
<1> QED
  BY <1>1, <1>2, <1>3, <1>4, <1>5 DEF ExecutorStep

-----------------------------------------------------------------------------
(***************************************************************************)
(* Marking.                                                                *)
(***************************************************************************)

\* What the cases below share.
LEMMA NodeTypes ==
    ASSUME IInv
    PROVE  /\ graph \in Graphs /\ WellFormed(graph) /\ MirroredEdges(graph)
           /\ ValuesReadNothing(graph)
           /\ \A n \in NodeId : n \notin graph.dependencies[n]
           /\ \A n \in NodeId : graph.dependencies[n] \subseteq NodeId
           /\ formula \in Formulas /\ value \in [NodeId -> NodeValue]
           /\ dirty \in SUBSET NodeId
<1>1. graph \in Graphs /\ WellFormed(graph)
  BY DEF IInv, TypeOK, GraphWellFormed
<1>2. ASSUME NEW n \in NodeId
      PROVE  n \notin graph.dependencies[n] /\ graph.dependencies[n] \subseteq NodeId
  <2>1. graph.dependencies[n] \in SUBSET NodeId
    BY <1>1 DEF Graphs
  <2>2. n \notin Reach(graph.dependencies, graph.dependencies[n])
    BY <1>1 DEF WellFormed, Acyclic
  <2> QED
    BY <2>1, <2>2, ReachHoldsRoots
<1>3. ValuesReadNothing(graph)
  BY DEF IInv, FormulaBindings, ValuesReadNothing
<1> QED
  BY <1>1, <1>2, <1>3 DEF WellFormed, IInv, TypeOK, Formulas

\* The new dirty nodes are downstream of id.
MarkedBelow(id) == dirty' \ dirty \subseteq Reach(graph.dependents, {id})

\* A number changes: who reads it is marked.
LEMMA SetNumberKeepsFresh ==
    ASSUME IInv, IInv', Fresh, NEW id \in NodeId, NEW v, graph.type[id] = "Value",
           value' = [value EXCEPT ![id] = v], UNCHANGED <<graph, formula>>,
           dirty' = dirty \cup Marked(graph, dirty, {id})
    PROVE  Fresh' /\ MarkedBelow(id)
<1>1. /\ graph \in Graphs /\ MirroredEdges(graph) /\ ValuesReadNothing(graph)
      /\ value \in [NodeId -> NodeValue] /\ dirty \in SUBSET NodeId
      /\ \A n \in NodeId : graph.dependencies[n] \subseteq NodeId
  BY NodeTypes
<1>2. \A roots \in SUBSET NodeId : PropagatedBut(graph, dirty, roots)
  BY DEF Fresh, Propagated, PropagatedBut
<1>3. /\ Propagated(graph, dirty')
      /\ \A m, n \in NodeId : n \in graph.dependencies[m] /\ n \in {id} => m \in dirty'
  <2> DEFINE roots == {id}
  <2>1. roots \in SUBSET NodeId
    OBVIOUS
  <2> HIDE DEF roots
  <2>2. dirty' = WithMarked(graph, dirty, roots)
    BY DEF roots, WithMarked
  <2>3. /\ Propagated(graph, dirty')
        /\ \A m, n \in NodeId : n \in graph.dependencies[m] /\ n \in roots => m \in dirty'
    BY <1>1, <1>2, <2>1, <2>2, MarkingPropagates
  <2> QED
    BY <2>3 DEF roots
<1>4. \A n \in Computed(graph) : n \in NodeId /\ n # id
  BY DEF Computed
<1>5. Cached(graph', formula', value', dirty')
  <2> SUFFICES ASSUME NEW n \in Computed(graph') \ dirty'
               PROVE  /\ n \in Computed(graph) \ dirty
                      /\ formula'[n] = formula[n]
                      /\ graph'.dependencies[n] = graph.dependencies[n]
                      /\ value'[n] = value[n]
                      /\ \A m \in graph.dependencies[n] : value'[m] = value[m]
    BY CacheKept DEF Fresh
  <2>1. n \in NodeId /\ n # id /\ n \in Computed(graph) \ dirty
    BY <1>4
  <2>2. id \notin graph.dependencies[n]
    BY <1>3, <2>1
  <2> QED
    BY <1>1, <2>1, <2>2
<1>6. MarkedBelow(id)
  <2> DEFINE S == Reach(graph.dependents, {id})
  <2>1. graph.dependents \in Edges
    BY <1>1 DEF Graphs, Edges
  <2>2. S \in SUBSET NodeId /\ ClosedUnder(graph.dependents, S) /\ {id} \subseteq S
    BY <2>1, ReachClosed, ReachHoldsRoots
  <2> HIDE DEF S
  <2>3. Marked(graph, dirty, {id}) \subseteq S
    BY <2>2, MarkedStaysIn DEF ClosedUnder
  <2> QED
    BY <2>3 DEF MarkedBelow, S
<1> QED
  BY <1>3, <1>5, <1>6 DEF Fresh

\* A node reads something else, or computes something else, and is marked.
LEMMA RelinkKeepsFresh ==
    ASSUME IInv, IInv', Fresh, NEW id \in NodeId, graph.type[id] \in {"Formula", "Collection"},
           NEW deps, graph'.type = graph.type,
           graph'.dependencies = [graph.dependencies EXCEPT ![id] = deps],
           NEW f, formula' = [formula EXCEPT ![id] = f], UNCHANGED value,
           dirty' = dirty \cup Marked(graph', dirty, {id})
    PROVE  Fresh' /\ MarkedBelow(id)
<1>1. /\ graph \in Graphs /\ MirroredEdges(graph)
      /\ formula \in Formulas /\ dirty \in SUBSET NodeId
  BY NodeTypes
<1>2. graph' \in Graphs /\ MirroredEdges(graph') /\ ValuesReadNothing(graph')
  BY DEF IInv, TypeOK, GraphWellFormed, WellFormed, FormulaBindings, ValuesReadNothing
<1>3. \A n \in NodeId : n # id =>
          graph'.dependencies[n] = graph.dependencies[n] /\ formula'[n] = formula[n]
  BY <1>1 DEF Graphs, Formulas
<1> DEFINE roots == {id}
<1>4. PropagatedBut(graph', dirty, roots)
  BY <1>3 DEF Fresh, Propagated, PropagatedBut
<1>5. Propagated(graph', dirty') /\ id \in dirty'
  <2>1. graph'.type[id] # "Value" /\ roots \in SUBSET NodeId /\ id \in roots
    OBVIOUS
  <2>2. dirty' = WithMarked(graph', dirty, roots)
    BY DEF WithMarked
  <2> HIDE DEF roots
  <2>3. /\ Propagated(graph', WithMarked(graph', dirty, roots))
        /\ \A n \in roots :
              n \in WithMarked(graph', dirty, roots) \/ graph'.type[n] = "Value"
    BY <1>1, <1>2, <1>4, <2>1, MarkingPropagates
  <2> QED
    BY <2>1, <2>2, <2>3
<1>6. Cached(graph', formula', value', dirty')
  <2> SUFFICES ASSUME NEW n \in Computed(graph') \ dirty'
               PROVE  /\ n \in Computed(graph) \ dirty
                      /\ formula'[n] = formula[n]
                      /\ graph'.dependencies[n] = graph.dependencies[n]
                      /\ value'[n] = value[n]
                      /\ \A m \in graph.dependencies[n] : value'[m] = value[m]
    BY CacheKept DEF Fresh
  <2>1. n \in NodeId /\ n # id /\ n \in Computed(graph) \ dirty
    BY <1>5 DEF Computed
  <2> QED
    BY <1>3, <2>1
<1>7. MarkedBelow(id)
  <2> DEFINE S == Reach(graph.dependents, {id})
  <2>1. graph.dependents \in Edges
    BY <1>1 DEF Graphs, Edges
  <2>2. S \in SUBSET NodeId /\ ClosedUnder(graph.dependents, S) /\ {id} \subseteq S
    BY <2>1, ReachClosed, ReachHoldsRoots
  <2> HIDE DEF S
  <2>3. ASSUME NEW n \in S, NEW m \in graph'.dependents[n]
        PROVE  m \in S
    <3>1. m \in NodeId /\ n \in NodeId /\ n \in graph'.dependencies[m]
      BY <1>2, <2>2 DEF Graphs, MirroredEdges
    <3>2. m # id => m \in graph.dependents[n]
      BY <1>1, <1>3, <3>1 DEF MirroredEdges
    <3> QED
      BY <2>2, <3>2 DEF ClosedUnder
  <2>4. Marked(graph', dirty, {id}) \subseteq S
    BY <2>2, <2>3, MarkedStaysIn
  <2> QED
    BY <2>4 DEF MarkedBelow, S
<1> QED
  BY <1>5, <1>6, <1>7 DEF Fresh

\* A node goes: who read it is marked.
LEMMA DeleteKeepsFresh ==
    ASSUME IInv, IInv', Fresh, NEW id \in NodeId,
           graph'.type = [graph.type EXCEPT ![id] = Absent],
           \A n \in NodeId : graph'.dependencies[n] =
              IF n = id THEN {} ELSE graph.dependencies[n] \ {id},
           formula' = [formula EXCEPT ![id] = NoFormula],
           value' = [value EXCEPT ![id] = Zero],
           NEW D \in SUBSET NodeId, D = dirty \ {id},
           NEW roots \in SUBSET NodeId, roots = graph.dependents[id],
           dirty' = D \cup Marked(graph', D, roots)
    PROVE  Fresh' /\ MarkedBelow(id)
<1>1. /\ graph \in Graphs /\ MirroredEdges(graph) /\ ValuesReadNothing(graph)
      /\ formula \in Formulas /\ value \in [NodeId -> NodeValue] /\ dirty \in SUBSET NodeId
      /\ \A n \in NodeId : n \notin graph.dependencies[n]
      /\ \A n \in NodeId : graph.dependencies[n] \subseteq NodeId
  BY NodeTypes
<1>2. graph' \in Graphs /\ MirroredEdges(graph') /\ ValuesReadNothing(graph')
  BY DEF IInv, TypeOK, GraphWellFormed, WellFormed, FormulaBindings, ValuesReadNothing
<1>3. dirty' = WithMarked(graph', D, roots)
  BY DEF WithMarked
<1>4. PropagatedBut(graph', D, roots)
  BY DEF Fresh, Propagated, PropagatedBut
<1>5. Propagated(graph', dirty') /\ \A n \in roots : n \in dirty' \/ graph'.type[n] = "Value"
  <2>1. /\ Propagated(graph', WithMarked(graph', D, roots))
        /\ \A n \in roots : n \in WithMarked(graph', D, roots) \/ graph'.type[n] = "Value"
    BY <1>2, <1>4, MarkingPropagates
  <2> QED
    BY <1>3, <2>1
<1>6. ASSUME NEW n \in NodeId, id \in graph.dependencies[n]
      PROVE  n \in dirty'
  <2>1. n \in roots /\ n # id
    BY <1>1, <1>6 DEF MirroredEdges
  <2>2. graph.type[n] # "Value" /\ graph'.type[n] = graph.type[n]
    BY <1>1, <1>6, <2>1 DEF ValuesReadNothing, Graphs
  <2> QED
    BY <1>5, <2>1, <2>2
<1>7. Cached(graph', formula', value', dirty')
  <2> SUFFICES ASSUME NEW n \in Computed(graph') \ dirty'
               PROVE  /\ n \in Computed(graph) \ dirty
                      /\ formula'[n] = formula[n]
                      /\ graph'.dependencies[n] = graph.dependencies[n]
                      /\ value'[n] = value[n]
                      /\ \A m \in graph.dependencies[n] : value'[m] = value[m]
    BY CacheKept DEF Fresh
  <2>1. n \in NodeId /\ n \notin dirty' /\ graph'.type[n] \in {"Formula", "Collection"}
    BY DEF Computed
  <2>2. n # id
    BY <1>1, <2>1 DEF Graphs, Absent
  <2>3. n \in Computed(graph) \ dirty
    BY <1>1, <2>1, <2>2 DEF Computed, Graphs
  <2>4. id \notin graph.dependencies[n]
    BY <1>6, <2>1
  <2>5. graph'.dependencies[n] = graph.dependencies[n]
    BY <2>1, <2>2, <2>4
  <2>6. formula'[n] = formula[n] /\ value'[n] = value[n]
    BY <1>1, <2>1, <2>2 DEF Formulas
  <2>7. \A m \in graph.dependencies[n] : value'[m] = value[m]
    BY <1>1, <2>1, <2>4
  <2> QED
    BY <2>3, <2>5, <2>6, <2>7
<1>8. MarkedBelow(id)
  <2> DEFINE S == Reach(graph.dependents, {id})
  <2>1. graph.dependents \in Edges
    BY <1>1 DEF Graphs, Edges
  <2>2. S \in SUBSET NodeId /\ ClosedUnder(graph.dependents, S) /\ id \in S
    BY <2>1, ReachClosed, ReachHoldsRoots
  <2> HIDE DEF S
  <2>3. ASSUME NEW n \in S, NEW m \in graph'.dependents[n]
        PROVE  m \in S
    <3>1. m \in NodeId /\ n \in NodeId /\ n \in graph'.dependencies[m]
      BY <1>2, <2>2 DEF Graphs, MirroredEdges
    <3>2. n \in graph.dependencies[m]
      BY <3>1
    <3>3. m \in graph.dependents[n]
      BY <1>1, <3>1, <3>2 DEF MirroredEdges
    <3> QED
      BY <2>2, <3>3 DEF ClosedUnder
  <2>4. roots \subseteq S
    BY <2>2 DEF ClosedUnder
  <2>5. Marked(graph', D, roots) \subseteq S
    BY <2>2, <2>3, <2>4, MarkedStaysIn
  <2> QED
    BY <2>5 DEF MarkedBelow, S
<1> QED
  BY <1>5, <1>7, <1>8 DEF Fresh

\* A node comes: nothing reads it yet.
LEMMA CreateKeepsFresh ==
    ASSUME IInv, IInv', Fresh, NEW id \in NodeId, id \notin Nodes(graph),
           NEW type, graph'.type = [graph.type EXCEPT ![id] = type],
           NEW deps, graph'.dependencies = [graph.dependencies EXCEPT ![id] = deps],
           NEW f, formula' = [formula EXCEPT ![id] = f],
           NEW v, value' = [value EXCEPT ![id] = v],
           \/ dirty' = dirty \cup {id}
           \/ dirty' = dirty /\ deps = {} /\ type = "Value"
    PROVE  Fresh' /\ MarkedBelow(id)
<1>1. /\ graph \in Graphs /\ WellFormed(graph) /\ MirroredEdges(graph)
      /\ formula \in Formulas /\ value \in [NodeId -> NodeValue] /\ dirty \in SUBSET NodeId
  BY NodeTypes
<1>2. \A n \in NodeId : id \notin graph.dependencies[n]
  BY <1>1, AbsentHasNoEdges DEF MirroredEdges
<1>3. id \notin graph'.dependencies[id]
  <2>1. graph'.dependencies[id] \in SUBSET NodeId
    BY DEF IInv, TypeOK, Graphs
  <2>2. id \notin Reach(graph'.dependencies, graph'.dependencies[id])
    BY DEF IInv, GraphWellFormed, WellFormed, Acyclic
  <2> QED
    BY <2>1, <2>2, ReachHoldsRoots
<1>4. \A n \in NodeId : n # id =>
          /\ graph'.type[n] = graph.type[n]
          /\ graph'.dependencies[n] = graph.dependencies[n]
          /\ formula'[n] = formula[n] /\ value'[n] = value[n]
  BY <1>1 DEF Graphs, Formulas
<1>5. graph'.type[id] = type /\ graph'.dependencies[id] = deps
  BY <1>1 DEF Graphs
<1>6. Propagated(graph', dirty')
  <2> SUFFICES ASSUME NEW m \in NodeId, NEW n \in NodeId,
                      n \in graph'.dependencies[m], n \in dirty'
               PROVE  m \in dirty'
    BY DEF Propagated
  <2>1. n # id
    BY <1>2, <1>3, <1>4
  <2>2. CASE m = id
    BY <1>5, <2>2
  <2>3. CASE m # id
    BY <1>4, <2>1, <2>3 DEF Fresh, Propagated
  <2> QED
    BY <2>2, <2>3
<1>7. Cached(graph', formula', value', dirty')
  <2> SUFFICES ASSUME NEW n \in Computed(graph') \ dirty'
               PROVE  /\ n \in Computed(graph) \ dirty
                      /\ formula'[n] = formula[n]
                      /\ graph'.dependencies[n] = graph.dependencies[n]
                      /\ value'[n] = value[n]
                      /\ \A m \in graph.dependencies[n] : value'[m] = value[m]
    BY CacheKept DEF Fresh
  <2>1. n \in NodeId /\ n \notin dirty' /\ graph'.type[n] \in {"Formula", "Collection"}
    BY DEF Computed
  <2>2. n # id
    BY <1>5, <2>1
  <2>3. n \in Computed(graph) \ dirty
    BY <1>4, <2>1, <2>2 DEF Computed
  <2>4. graph.dependencies[n] \subseteq NodeId
    BY <1>1, <2>1, NodeTypes
  <2> QED
    BY <1>2, <1>4, <2>1, <2>2, <2>3, <2>4
<1>8. MarkedBelow(id)
  BY <1>1, ReachHoldsRoots DEF MarkedBelow
<1> QED
  BY <1>6, <1>7, <1>8 DEF Fresh

-----------------------------------------------------------------------------
(***************************************************************************)
(* The calls.                                                              *)
(***************************************************************************)

\* What every call does to the caches.
KeepsFresh == Fresh' /\ (dirty' \ dirty # {} => \E n \in NodeId : MarkedBelow(n))

\* A call that leaves the nodes alone.
LEMMA NodesKept ==
    ASSUME Fresh, UNCHANGED <<graph, formula, value, dirty>>
    PROVE  KeepsFresh
BY DEF Fresh, KeepsFresh

LEMMA RefusalKeepsFresh ==
    ASSUME Fresh, NEW result, result.graph = graph, Fail(result)
    PROVE  KeepsFresh
BY NodesKept DEF Fail

LEMMA RejectKeepsFresh ==
    ASSUME Fresh, NEW code, Reject(code)
    PROVE  KeepsFresh
BY NodesKept DEF Reject, Fail

\* A creation succeeds on a name that is free only.
LEMMA CreatedNameWasFree ==
    ASSUME NEW id \in NodeId
    PROVE  /\ \A type \in NodeType : \A deps \in Seq(NodeId) :
                 AddDependentNode(graph, id, type, deps).code = "OK" => id \notin Nodes(graph)
           /\ \A text \in Formula :
                 AddFormulaNode(graph, id, text).code = "OK" => id \notin Nodes(graph)
           /\ \A type \in NodeType :
                 AddNode(graph, id, type).code = "OK" => id \notin Nodes(graph)
<1>1. ASSUME NEW type, AddNode(graph, id, type).code = "OK"
      PROVE  id \notin Nodes(graph)
  BY <1>1 DEF AddNode
<1>2. ASSUME NEW type, NEW deps, AddDependentNode(graph, id, type, deps).code = "OK"
      PROVE  id \notin Nodes(graph)
  <2>1. AddNode(graph, id, type).code = "OK"
    BY <1>2 DEF AddDependentNode
  <2> QED
    BY <2>1, <1>1
<1>3. ASSUME NEW text \in Formula, AddFormulaNode(graph, id, text).code = "OK"
      PROVE  id \notin Nodes(graph)
  BY <1>2, <1>3 DEF AddFormulaNode
<1> QED
  BY <1>1, <1>2, <1>3

LEMMA InstallKeepsFresh ==
    ASSUME IInv, IInv', Fresh, NEW id \in NodeId, id \notin Nodes(graph),
           NEW f, NEW added, NEW type, NEW deps,
           Created(graph, added, id, type, deps), added.code = "OK",
           InstallDependentNode(id, f, added.graph)
    PROVE  KeepsFresh
<1>1. /\ graph'.type = [graph.type EXCEPT ![id] = type]
      /\ graph'.dependencies = [graph.dependencies EXCEPT ![id] = deps]
      /\ formula' = [formula EXCEPT ![id] = f]
      /\ value' = [value EXCEPT ![id] = Zero]
      /\ dirty' = dirty \cup {id}
  BY DEF Created, InstallDependentNode
<1>2. Fresh' /\ MarkedBelow(id)
  BY <1>1, CreateKeepsFresh
<1> QED
  BY <1>2 DEF KeepsFresh

LEMMA CreateCollectionNodeKeepsFresh ==
    ASSUME IInv, IInv', Fresh, NEW id \in NodeId, NEW deps \in DependencyLists,
           NEW op \in Operation \cup BadOperation, CreateCollectionNode(id, deps, op)
    PROVE  KeepsFresh
<1> DEFINE added == AddDependentNode(graph, id, "Collection", deps)
<1>1. CASE op \in BadOperation
  BY <1>1, RejectKeepsFresh DEF CreateCollectionNode
<1>2. CASE op \notin BadOperation
  <2>1. deps \in Seq(NodeId) /\ "Collection" \in NodeType
    BY CallerConstants DEF NodeType
  <2>2. Created(graph, added, id, "Collection", Range(deps))
    BY <2>1, AddDependentNodeCreates DEF IInv, TypeOK, GraphWellFormed
  <2>3. added.code = "OK" => id \notin Nodes(graph)
    BY <2>1, CreatedNameWasFree
  <2>4. \/ Fail(added)
        \/ added.code = "OK" /\ InstallDependentNode(id, op, added.graph)
    BY <1>2 DEF CreateCollectionNode
  <2> HIDE DEF added
  <2>5. CASE Fail(added)
    <3>1. added.graph = graph
      BY <2>2, <2>5 DEF Created, Fail
    <3> QED
      BY <2>5, <3>1, RefusalKeepsFresh
  <2>6. CASE added.code = "OK" /\ InstallDependentNode(id, op, added.graph)
    BY <2>2, <2>3, <2>6, InstallKeepsFresh
  <2> QED
    BY <2>4, <2>5, <2>6
<1> QED
  BY <1>1, <1>2

LEMMA CreateFormulaNodeKeepsFresh ==
    ASSUME IInv, IInv', Fresh, NEW id \in NodeId, NEW text \in Formula \cup IllFormed,
           CreateFormulaNode(id, text)
    PROVE  KeepsFresh
<1> DEFINE added == AddFormulaNode(graph, id, text)
<1>1. /\ Created(graph, added, id, "Formula", Range(Refs[text]))
      /\ added.code = "OK" => text \in Formula
  BY AddFormulaNodeCreates DEF IInv, TypeOK, GraphWellFormed
<1>2. added.code = "OK" => id \notin Nodes(graph)
  BY <1>1, CreatedNameWasFree
<1>3. \/ Fail(added)
      \/ added.code = "OK" /\ InstallDependentNode(id, text, added.graph)
  BY DEF CreateFormulaNode
<1> HIDE DEF added
<1>4. CASE Fail(added)
  <2>1. added.graph = graph
    BY <1>1, <1>4 DEF Created, Fail
  <2> QED
    BY <1>4, <2>1, RefusalKeepsFresh
<1>5. CASE added.code = "OK" /\ InstallDependentNode(id, text, added.graph)
  BY <1>1, <1>2, <1>5, InstallKeepsFresh
<1> QED
  BY <1>3, <1>4, <1>5

LEMMA CreateValueNodeKeepsFresh ==
    ASSUME IInv, IInv', Fresh, NEW id \in NodeId, NEW v \in Inputs, CreateValueNode(id, v)
    PROVE  KeepsFresh
<1> DEFINE added == AddNode(graph, id, "Value")
<1>1. /\ added.code # "OK" => added.graph = graph
      /\ added.code = "OK" =>
            /\ id \notin Nodes(graph)
            /\ added.graph.type = [graph.type EXCEPT ![id] = "Value"]
            /\ added.graph.dependencies = graph.dependencies
  <2>1. "Value" \in NodeType
    BY DEF NodeType
  <2> QED
    BY <2>1, AddNodePreserves DEF IInv, TypeOK, GraphWellFormed
<1>2. CASE Fail(added)
  BY <1>1, <1>2, RefusalKeepsFresh DEF Fail
<1>3. CASE /\ added.code = "OK"
           /\ graph' = added.graph
           /\ formula' = [formula EXCEPT ![id] = NoFormula]
           /\ value' = [value EXCEPT ![id] = v]
           /\ UNCHANGED <<dirty, dirtyLeaves>>
  <2> HIDE DEF added
  <2>1. graph \in Graphs /\ WellFormed(graph)
    BY DEF IInv, TypeOK, GraphWellFormed
  <2>2. graph.dependencies[id] = {}
    BY <1>1, <1>3, <2>1, AbsentHasNoEdges
  <2>3. graph'.dependencies = [graph.dependencies EXCEPT ![id] = {}]
    BY <1>1, <1>3, <2>1, <2>2 DEF Graphs
  <2>4. id \notin Nodes(graph) /\ graph'.type = [graph.type EXCEPT ![id] = "Value"]
    BY <1>1, <1>3
  <2>5. Fresh' /\ MarkedBelow(id)
    BY <1>3, <2>3, <2>4, CreateKeepsFresh
  <2> QED
    BY <2>5 DEF KeepsFresh
<1> QED
  BY <1>2, <1>3 DEF CreateValueNode

LEMMA DeleteNodeKeepsFresh ==
    ASSUME IInv, IInv', Fresh, NEW id \in NodeId, DeleteNode(id)
    PROVE  KeepsFresh
<1> DEFINE removed == RemoveNode(graph, id)
<1>1. graph \in Graphs /\ WellFormed(graph) /\ dirty \in SUBSET NodeId
  BY DEF IInv, TypeOK, GraphWellFormed
<1>2. /\ removed.code # "OK" => removed.graph = graph
      /\ removed.code = "OK" => removed.graph = WithoutNode(graph, id)
  BY <1>1, RemoveNodePreserves
<1>3. CASE Fail(removed)
  BY <1>2, <1>3, RefusalKeepsFresh DEF Fail
<1>4. CASE /\ removed.code = "OK"
           /\ graph' = removed.graph
           /\ formula' = [formula EXCEPT ![id] = NoFormula]
           /\ value' = [value EXCEPT ![id] = Zero]
           /\ MarkDirty(removed.graph, dirty \ {id}, RemoveFirst(dirtyLeaves, id),
                        graph.dependents[id])
  <2> HIDE DEF removed
  <2> DEFINE D == dirty \ {id}
             roots == graph.dependents[id]
  <2>1. /\ graph'.type = [graph.type EXCEPT ![id] = Absent]
        /\ \A n \in NodeId : graph'.dependencies[n] =
              IF n = id THEN {} ELSE graph.dependencies[n] \ {id}
    <3>1. graph' = WithoutNode(graph, id)
      BY <1>2, <1>4
    <3>2. LET h == WithoutNode(graph, id)
          IN  /\ h \in Graphs
              /\ h.type = [graph.type EXCEPT ![id] = Absent]
              /\ \A n \in NodeId :
                    /\ h.dependencies[n] = IF n = id THEN {} ELSE graph.dependencies[n] \ {id}
                    /\ h.dependents[n] = IF n = id THEN {} ELSE graph.dependents[n] \ {id}
      BY <1>1, WithoutNodeMaps, Zenon
    <3> QED
      BY <3>1, <3>2
  <2>2. D \in SUBSET NodeId /\ roots \in SUBSET NodeId
    BY <1>1 DEF Graphs
  <2>3. dirty' = D \cup Marked(graph', D, roots)
    BY <1>4 DEF MarkDirty
  <2>4. D = dirty \ {id} /\ roots = graph.dependents[id]
    OBVIOUS
  <2> HIDE DEF D, roots
  <2>5. Fresh' /\ MarkedBelow(id)
    BY <1>4, <2>1, <2>2, <2>3, <2>4, DeleteKeepsFresh
  <2> QED
    BY <2>5 DEF KeepsFresh
<1> QED
  BY <1>3, <1>4 DEF DeleteNode

LEMMA SetNodeValueKeepsFresh ==
    ASSUME IInv, IInv', Fresh, NEW id \in NodeId, NEW v \in Inputs, SetNodeValue(id, v)
    PROVE  KeepsFresh
<1>1. CASE Reject("NODE_NOT_FOUND") \/ Reject("NODE_TYPE_MISMATCH")
  BY <1>1, RejectKeepsFresh
<1>2. CASE UNCHANGED <<nodeVars, dirtyLeaves>>
  BY <1>2, NodesKept DEF nodeVars
<1>3. CASE /\ graph.type[id] = "Value"
           /\ value' = [value EXCEPT ![id] = v]
           /\ UNCHANGED <<graph, formula>>
           /\ MarkDirty(graph, dirty, dirtyLeaves, {id})
  <2>1. dirty' = dirty \cup Marked(graph, dirty, {id})
    BY <1>3 DEF MarkDirty
  <2>2. Fresh' /\ MarkedBelow(id)
    BY <1>3, <2>1, SetNumberKeepsFresh
  <2> QED
    BY <2>2 DEF KeepsFresh
<1> QED
  BY <1>1, <1>2, <1>3 DEF SetNodeValue

LEMMA SetNodeFormulaKeepsFresh ==
    ASSUME IInv, IInv', Fresh, NEW id \in NodeId, NEW text \in Formula \cup IllFormed,
           SetNodeFormula(id, text)
    PROVE  KeepsFresh
<1> DEFINE linked == SetNodeDependencies(graph, id, Refs[text], FALSE)
<1>1. CASE \E code \in ErrorCode : Reject(code)
  BY <1>1, RejectKeepsFresh
<1>2. CASE /\ graph.type[id] = "Formula" /\ text \in Formula
           /\ \/ Fail(linked)
              \/ /\ linked.code = "OK"
                 /\ graph' = linked.graph
                 /\ formula' = [formula EXCEPT ![id] = text]
                 /\ UNCHANGED value
                 /\ MarkDirty(linked.graph, dirty, dirtyLeaves, {id})
  <2>1. Refs[text] \in Seq(NodeId)
    BY <1>2, KernelConstants
  <2>2. /\ linked.graph.type = graph.type
        /\ linked.code # "OK" => linked.graph = graph
        /\ linked.code = "OK" => linked.graph.dependencies =
                                   [graph.dependencies EXCEPT ![id] = Range(Refs[text])]
    BY <2>1, LinkOutcome
  <2> HIDE DEF linked
  <2>3. CASE Fail(linked)
    BY <2>2, <2>3, RefusalKeepsFresh DEF Fail
  <2>4. CASE ~Fail(linked)
    <3>1. /\ graph'.type = graph.type
          /\ graph'.dependencies = [graph.dependencies EXCEPT ![id] = Range(Refs[text])]
          /\ dirty' = dirty \cup Marked(graph', dirty, {id})
      BY <1>2, <2>2, <2>4 DEF MarkDirty
    <3>2. Fresh' /\ MarkedBelow(id)
      BY <1>2, <2>4, <3>1, RelinkKeepsFresh
    <3> QED
      BY <3>2 DEF KeepsFresh
  <2> QED
    BY <2>3, <2>4
<1>3. {"NODE_NOT_FOUND", "NODE_TYPE_MISMATCH", "INVALID_DSL"} \subseteq ErrorCode
  BY DEF ErrorCode
<1> HIDE DEF linked
<1> QED
  BY <1>1, <1>2, <1>3 DEF SetNodeFormula, linked

LEMMA SetCollectionDependenciesKeepsFresh ==
    ASSUME IInv, IInv', Fresh, NEW id \in NodeId, NEW list \in DependencyLists,
           SetCollectionDependencies(id, list)
    PROVE  KeepsFresh
<1> DEFINE linked == SetNodeDependencies(graph, id, list, FALSE)
<1>1. CASE \E code \in ErrorCode : Reject(code)
  BY <1>1, RejectKeepsFresh
<1>2. CASE /\ graph.type[id] = "Collection"
           /\ \/ Fail(linked)
              \/ /\ linked.code = "OK"
                 /\ graph' = linked.graph
                 /\ UNCHANGED <<formula, value>>
                 /\ MarkDirty(linked.graph, dirty, dirtyLeaves, {id})
  <2>1. list \in Seq(NodeId)
    BY CallerConstants
  <2>2. /\ linked.graph.type = graph.type
        /\ linked.code # "OK" => linked.graph = graph
        /\ linked.code = "OK" => linked.graph.dependencies =
                                   [graph.dependencies EXCEPT ![id] = Range(list)]
    BY <2>1, LinkOutcome
  <2> HIDE DEF linked
  <2>3. CASE Fail(linked)
    BY <2>2, <2>3, RefusalKeepsFresh DEF Fail
  <2>4. CASE ~Fail(linked)
    <3>1. /\ graph'.type = graph.type
          /\ graph'.dependencies = [graph.dependencies EXCEPT ![id] = Range(list)]
          /\ dirty' = dirty \cup Marked(graph', dirty, {id})
      BY <1>2, <2>2, <2>4 DEF MarkDirty
    <3>2. formula' = [formula EXCEPT ![id] = formula[id]]
      BY <1>2, <2>4 DEF IInv, TypeOK
    <3>3. Fresh' /\ MarkedBelow(id)
      BY <1>2, <2>4, <3>1, <3>2, RelinkKeepsFresh
    <3> QED
      BY <3>3 DEF KeepsFresh
  <2> QED
    BY <2>3, <2>4
<1>3. {"NODE_NOT_FOUND", "NODE_TYPE_MISMATCH"} \subseteq ErrorCode
  BY DEF ErrorCode
<1> HIDE DEF linked
<1> QED
  BY <1>1, <1>2, <1>3 DEF SetCollectionDependencies, linked

LEMMA ResetKeepsFresh ==
    ASSUME IInv, Fresh, Reset
    PROVE  KeepsFresh
<1>1. graph' = EmptyGraph /\ dirty' = {}
  BY DEF Reset
<1>2. Computed(graph') = {}
  BY <1>1 DEF EmptyGraph, Computed, Absent
<1> QED
  BY <1>1, <1>2 DEF KeepsFresh, Fresh, Propagated, Cached

-----------------------------------------------------------------------------
(***************************************************************************)
(* Every step.                                                             *)
(***************************************************************************)

\* The calls but reads and sweeps return at once, and walk nowhere.
LEMMA CallsReturn ==
    ASSUME Call, \A id \in NodeId : ~GetNodeValue(id)
    PROVE  /\ call = "none" /\ UNCHANGED <<requested, walkVars>>
           /\ call' = "none" \/ (call' = "evaluate" /\ position' = 0 /\ reply' = NoReply)
<1> DEFINE Idle == call = "none" /\ UNCHANGED <<call, requested, position, walkVars>>
<1>1. ASSUME NEW code, Return(code) PROVE Idle
  BY <1>1 DEF Return, callVars
<1>2. ASSUME NEW result, Fail(result) PROVE Idle
  BY <1>1, <1>2 DEF Fail
<1>3. ASSUME NEW code, Reject(code) PROVE Idle
  BY <1>2, <1>3 DEF Reject
<1> HIDE DEF Idle
<1>4. CASE \E id \in NodeId :
             \/ \E deps \in DependencyLists, op \in Operation \cup BadOperation :
                   CreateCollectionNode(id, deps, op)
             \/ \E text \in Formula \cup IllFormed : CreateFormulaNode(id, text)
             \/ \E v \in Inputs : CreateValueNode(id, v)
             \/ DeleteNode(id)
  <2>1. Idle
    BY <1>1, <1>2, <1>3, <1>4 DEF CreateCollectionNode, CreateFormulaNode, CreateValueNode,
                                  DeleteNode
  <2> QED
    BY <2>1 DEF Idle
<1>5. CASE \E id \in NodeId :
             \/ \E v \in Inputs : SetNodeValue(id, v)
             \/ \E text \in Formula \cup IllFormed : SetNodeFormula(id, text)
             \/ \E deps \in DependencyLists : SetCollectionDependencies(id, deps)
  <2>1. Idle
    BY <1>1, <1>2, <1>3, <1>5 DEF SetNodeValue, SetNodeFormula, SetCollectionDependencies
  <2> QED
    BY <2>1 DEF Idle
<1>6. CASE Evaluate \/ \E type \in EvaluationTypes : SetEvaluationType(type)
  BY <1>6 DEF Evaluate, SetEvaluationType, callVars
<1>7. CASE Reset
  BY <1>1, <1>7 DEF Reset, Idle
<1> QED
  BY <1>4, <1>5, <1>6, <1>7 DEF Call

LEMMA CallKeepsFresh ==
    ASSUME IInv, Fresh, Call
    PROVE  KeepsFresh
<1>1. IInv'
  BY CallPreserves
<1>2. CASE \E id \in NodeId :
             \/ \E deps \in DependencyLists, op \in Operation \cup BadOperation :
                   CreateCollectionNode(id, deps, op)
             \/ \E text \in Formula \cup IllFormed : CreateFormulaNode(id, text)
             \/ \E v \in Inputs : CreateValueNode(id, v)
             \/ DeleteNode(id)
  BY <1>1, <1>2, CreateCollectionNodeKeepsFresh, CreateFormulaNodeKeepsFresh,
     CreateValueNodeKeepsFresh, DeleteNodeKeepsFresh
<1>3. CASE \E id \in NodeId :
             \/ \E v \in Inputs : SetNodeValue(id, v)
             \/ \E text \in Formula \cup IllFormed : SetNodeFormula(id, text)
             \/ \E deps \in DependencyLists : SetCollectionDependencies(id, deps)
  BY <1>1, <1>3, SetNodeValueKeepsFresh, SetNodeFormulaKeepsFresh,
     SetCollectionDependenciesKeepsFresh
<1>4. CASE \/ \E id \in NodeId : GetNodeValue(id)
           \/ Evaluate
           \/ \E type \in EvaluationTypes : SetEvaluationType(type)
  BY <1>4, NodesKept DEF GetNodeValue, Evaluate, SetEvaluationType, nodeVars
<1>5. CASE Reset
  BY <1>5, ResetKeepsFresh
<1> QED
  BY <1>2, <1>3, <1>4, <1>5 DEF Call

LEMMA CallSound ==
    ASSUME IInv, CInv, Call
    PROVE  CInv'
<1>1. Fresh'
  BY CallKeepsFresh DEF CInv, KeepsFresh
<1>2. CASE \E id \in NodeId : GetNodeValue(id)
  BY <1>2, GetNodeValueSound
<1>3. CASE \A id \in NodeId : ~GetNodeValue(id)
  <2>1. /\ call = "none" /\ UNCHANGED walkVars
        /\ call' = "none" \/ (call' = "evaluate" /\ position' = 0)
    BY <1>3, CallsReturn
  <2>2. WalkDone
    BY <2>1 DEF IInv, IdleRests
  <2> QED
    BY <1>1, <2>1, <2>2, NoWalkSound
<1> QED
  BY <1>2, <1>3

LEMMA InitSound == Init => CInv
<1> SUFFICES ASSUME Init PROVE CInv
  OBVIOUS
<1>1. /\ graph = EmptyGraph /\ dirty = {} /\ call = "none"
      /\ stack = << >> /\ visitState = Unvisited /\ frames = << >>
  BY DEF Init, ExecutorInit
<1>2. Fresh
  BY <1>1 DEF Fresh, Propagated, Cached, EmptyGraph, Computed, Absent
<1>3. (\A i \in 1 .. Len(stack) : FALSE) /\ (\A i \in 1 .. Len(frames) : FALSE)
  BY <1>1
<1>4. WalksSound
  BY <1>1, <1>3 DEF WalksSound, StackSound, FramesSound, OneWalk, RootsClean, Unvisited
<1> QED
  BY <1>2, <1>4 DEF CInv

LEMMA StutterSound ==
    ASSUME CInv, UNCHANGED vars
    PROVE  CInv'
<1>1. UNCHANGED <<graph, formula, value, dirty, dirtyLeaves, call, requested, position,
                 stack, visitState, frames>>
  BY DEF vars, nodeVars, callVars, walkVars
<1>2. Fresh' /\ Root' = Root /\ WalkDone' = WalkDone
  BY <1>1 DEF CInv, Fresh, Root, WalkDone
<1>3. StackSound(graph.dependencies, dirty, stack, visitState)'
  BY <1>1 DEF CInv, WalksSound, StackSound, OpenedAt
<1>4. FramesSound(graph.dependencies, dirty, frames)'
  BY <1>1 DEF CInv, WalksSound, FramesSound
<1>5. OneWalk'
  BY <1>1, <1>2 DEF CInv, WalksSound, OneWalk
<1>6. RootsClean'
  BY <1>1, <1>2 DEF CInv, WalksSound, RootsClean
<1> QED
  BY <1>2, <1>3, <1>4, <1>5, <1>6 DEF CInv, WalksSound

-----------------------------------------------------------------------------
(***************************************************************************)
(* The theorems.                                                           *)
(***************************************************************************)

\* The caches and the walks are sound in every state the kernel can be in.
THEOREM CacheInvariance == Spec => [](IInv /\ CInv)
<1>1. Init => IInv /\ CInv
  BY InitEstablishes, InitSound
<1>2. IInv /\ CInv /\ [Next]_vars => IInv' /\ CInv'
  BY CallPreserves, ExecutorStepPreserves, StutterPreserves, CallSound, ExecutorStepSound,
     StutterSound DEF Next, Aborted
<1> QED
  BY <1>1, <1>2, PTL DEF Spec

\* Everything that reads a dirty node is dirty, between calls and at each step
\* of a walk: markDirty may stop at dirty nodes.
THEOREM DirtyIsPropagated == Spec => []DirtyPropagated
<1>1. IInv /\ CInv => DirtyPropagated
  BY DEF IInv, TypeOK, Graphs, GraphWellFormed, WellFormed, MirroredEdges, CInv, Fresh,
         Propagated, DirtyPropagated
<1> QED
  BY CacheInvariance, <1>1, PTL

\* The kernel never leaves the settled states, from which the work lists of
\* markDirty and hasPath are shown to do what the kernel takes as done.
THEOREM KernelStaysSettled == Spec => []Settled(graph, dirty)
<1>1. IInv /\ CInv => Settled(graph, dirty)
  BY DEF IInv, TypeOK, Graphs, GraphWellFormed, WellFormed, MirroredEdges, FormulaBindings, CInv,
         Fresh, Propagated, Settled, SettledBut
<1> QED
  BY CacheInvariance, <1>1, PTL

\* A clean node holds what its formula gives on the values its operands hold,
\* after any mutations and any partial evaluations.
THEOREM CachesCorrect == Spec => []CacheCorrect
<1>1. ASSUME IInv, CInv, NEW n \in Nodes(graph) \ dirty, graph.type[n] # "Value"
      PROVE  value[n] = Apply(formula[n], [m \in Operands(n) |-> value[m]])
  <2>1. n \in NodeId /\ n \in Computed(graph)
    BY <1>1 DEF Nodes, Computed, IInv, TypeOK, Graphs, NodeType
  <2>2. Operands(n) = graph.dependencies[n]
    BY <1>1, <2>1, DirtyIsComputed
  <2>3. value[n] = Apply(formula[n], [m \in graph.dependencies[n] |-> value[m]])
    BY <1>1, <2>1 DEF CInv, Fresh, Cached
  <2> QED
    BY <2>2, <2>3
<1>2. IInv /\ CInv => CacheCorrect
  BY <1>1 DEF CacheCorrect
<1> QED
  BY CacheInvariance, <1>2, PTL

\* The walks visit and compute dirty nodes only, and what waits in a recursion
\* depends on what runs above it.
THEOREM WalksOnDirtyNodes == Spec => []WalkOnDirtyNodes
<1>1. ASSUME IInv, CInv, NEW i \in DOMAIN frames, NEW j \in 1 .. i - 1
      PROVE  HasPath(frames[j].node, frames[i].node, graph.dependencies)
  <2> DEFINE src == frames[j].node
             R == Reach(graph.dependencies, {src})
  <2>1. i \in 1 .. Len(frames) /\ j \in 1 .. Len(frames) /\ i > j
    BY <1>1 DEF IInv, TypeOK
  <2>2. frames[i].node \in Reach(graph.dependencies, graph.dependencies[src])
    BY <1>1, <2>1 DEF CInv, WalksSound, FramesSound
  <2>3. frames[j] \in Frame
    BY <1>1, <2>1 DEF IInv, TypeOK
  <2>4. src \in NodeId /\ graph.dependencies \in Edges
    BY <1>1, <2>3 DEF IInv, TypeOK, Graphs, Edges, Frame
  <2>5. R \in SUBSET NodeId /\ ClosedUnder(graph.dependencies, R) /\ {src} \subseteq R
    BY <2>4, ReachClosed, ReachHoldsRoots
  <2> HIDE DEF R
  <2>6. graph.dependencies[src] \subseteq R
    BY <2>5 DEF ClosedUnder
  <2>7. Reach(graph.dependencies, graph.dependencies[src]) \subseteq R
    BY <2>5, <2>6, ReachLeast
  <2> QED
    BY <2>2, <2>7 DEF HasPath, R
<1>2. ASSUME IInv, CInv, NEW i \in DOMAIN frames
      PROVE  frames[i].node \in dirty
  BY <1>2 DEF IInv, TypeOK, CInv, WalksSound, FramesSound
<1>3. IInv /\ CInv => WalkOnDirtyNodes
  BY <1>1, <1>2 DEF WalkOnDirtyNodes, CInv, WalksSound, StackSound
<1> QED
  BY CacheInvariance, <1>3, PTL

\* When evaluate() returns, no leaf it had listed is dirty and the list is empty.
THEOREM SweepsCleanLeaves == Spec => SweepCleansLeaves
<1>1. ASSUME IInv, CInv, Next, call = "evaluate", call' = "none"
      PROVE  Range(dirtyLeaves) \cap dirty' = {} /\ dirtyLeaves' = << >>
  <2>1. ~Call /\ ~Aborted
    <3>1. ~Aborted
      BY <1>1 DEF Aborted
    <3>2. ~Call
      BY <1>1, CallsReturn DEF GetNodeValue
    <3> QED
      BY <3>1, <3>2
  <2>2. ReturnEvaluate
    BY <1>1, <2>1
    DEF Next, ExecutorStep, PopVisited, VisitClean, VisitDirty, ComputeVisiting, CallDependency,
        ComputeReturning, ComputeAborts, ReturnNodeValue, EvaluateLeaf, EvaluateLeafAborts, Abort,
        callVars
  <2>3. /\ WalkDone /\ position = Len(dirtyLeaves) /\ dirtyLeaves' = << >> /\ dirty' = dirty
    BY <2>2 DEF ReturnEvaluate, nodeVars
  <2>4. ASSUME NEW i \in 1 .. Len(dirtyLeaves)
        PROVE  dirtyLeaves[i] \notin dirty
    <3>1. dirtyLeaves \in Seq(NodeId) /\ Len(dirtyLeaves) \in Nat
      BY <1>1 DEF IInv, TypeOK
    <3>2. CASE i = position
      BY <1>1, <2>3, <2>4, <3>1, <3>2 DEF CInv, WalksSound, RootsClean, Root
    <3>3. CASE i # position
      <4>1. i \in 1 .. position - 1
        BY <2>3, <3>1, <3>3
      <4> QED
        BY <1>1, <4>1 DEF CInv, WalksSound, RootsClean
    <3> QED
      BY <3>2, <3>3
  <2>5. \A n \in Range(dirtyLeaves) : n \notin dirty
    BY <1>1, <2>4 DEF Range, IInv, TypeOK
  <2> QED
    BY <2>3, <2>5
<1>2. IInv /\ CInv /\ [Next]_vars =>
        [call = "evaluate" /\ call' = "none" =>
            /\ Range(dirtyLeaves) \cap dirty' = {}
            /\ dirtyLeaves' = << >>]_vars
  BY <1>1
<1> QED
  BY CacheInvariance, <1>2, PTL DEF Spec, SweepCleansLeaves

\* A read computes only what the node it asks for depends on, and a sweep only
\* what its current leaf depends on.
THEOREM OnlyUpstreamIsComputed == Spec => OnlyUpstreamComputed
<1>1. ASSUME IInv, CInv, Next, dirty \ dirty' # {}, call # "none"
      PROVE  dirty \ dirty' \subseteq Reach(graph.dependencies, {Root})
  <2>1. ~Call
    BY <1>1, CallsReturn DEF GetNodeValue
  <2>2. ComputeVisiting \/ ComputeReturning
    BY <1>1, <2>1
    DEF Next, Aborted, vars, ExecutorStep, PopVisited, VisitClean, VisitDirty, CallDependency,
        ComputeAborts, ReturnNodeValue, EvaluateLeaf, EvaluateLeafAborts, ReturnEvaluate, Abort,
        nodeVars
  <2>3. CASE ComputeVisiting
    <3>1. stack # << >> /\ dirty' = dirty \ {Last(stack)}
      BY <2>3 DEF ComputeVisiting, ComputeValue
    <3>2. stack \in Seq(NodeId)
      BY <1>1 DEF IInv, TypeOK
    <3>3. Last(stack) = stack[Len(stack)] /\ Len(stack) \in 1 .. Len(stack)
      BY <3>1, <3>2 DEF Last
    <3> QED
      BY <1>1, <3>1, <3>3 DEF CInv, WalksSound, OneWalk
  <2>4. CASE ComputeReturning
    <3>1. frames # << >> /\ dirty' = dirty \ {Last(frames).node}
      BY <2>4 DEF ComputeReturning, ComputeValue
    <3>2. frames \in Seq(Frame)
      BY <1>1 DEF IInv, TypeOK
    <3>3. Last(frames) = frames[Len(frames)] /\ Len(frames) \in 1 .. Len(frames)
      BY <3>1, <3>2 DEF Last
    <3> QED
      BY <1>1, <3>1, <3>3 DEF CInv, WalksSound, OneWalk
  <2> QED
    BY <2>2, <2>3, <2>4
<1>2. IInv /\ CInv /\ [Next]_vars =>
        [dirty \ dirty' # {} /\ call # "none" =>
            LET root == IF call = "evaluate" THEN dirtyLeaves[position] ELSE requested
            IN  dirty \ dirty' \subseteq Reach(graph.dependencies, {root})]_vars
  BY <1>1 DEF Root
<1> QED
  BY CacheInvariance, <1>2, PTL DEF Spec, OnlyUpstreamComputed

\* A call turns only nodes dirty that read, directly or through others, the node
\* it is about, and a walk turns none dirty.
THEOREM OnlyDownstreamIsMarked == Spec => OnlyDownstreamMarked
<1>1. ASSUME IInv, CInv, Next, dirty' \ dirty # {}
      PROVE  \E n \in NodeId : dirty' \ dirty \subseteq Reach(graph.dependents, {n})
  <2>1. Call
    BY <1>1
    DEF Next, Aborted, vars, ExecutorStep, PopVisited, VisitClean, VisitDirty, CallDependency,
        ComputeVisiting, ComputeReturning, ComputeValue, ComputeAborts, ReturnNodeValue,
        EvaluateLeaf, EvaluateLeafAborts, ReturnEvaluate, Abort, nodeVars
  <2> QED
    BY <1>1, <2>1, CallKeepsFresh DEF CInv, KeepsFresh, MarkedBelow
<1>2. IInv /\ CInv /\ [Next]_vars =>
        [dirty' \ dirty # {} =>
            \E n \in NodeId : dirty' \ dirty \subseteq Reach(graph.dependents, {n})]_vars
  BY <1>1
<1> QED
  BY CacheInvariance, <1>2, PTL DEF Spec, OnlyDownstreamMarked

-----------------------------------------------------------------------------
(***************************************************************************)
(* How deep the walks go, and that they come to an end: the explicit stack *)
(* holds at most one entry for each edge, and the one it began with; the   *)
(* recursion at most one activation for each node.                         *)
(*                                                                         *)
(* An entry is pushed for an edge, by the node that reads it, and a node   *)
(* pushes only once, when it turns from Unvisited to Visiting.  So the     *)
(* entries have pushers, no two with the same pusher and the same node,    *)
(* and the pushers are not Unvisited any more.                             *)
(***************************************************************************)

EdgePairs(deps) == {e \in NodeId \X NodeId : e[2] \in deps[e[1]]}

\* by[i] read entry i and pushed it; two entries differ in one or the other.
PushedBy(deps, s, vs, by) ==
    /\ \A i \in 2 .. Len(s) : s[i] \in deps[by[i]] /\ vs[by[i]] # "Unvisited"
    /\ \A i, j \in 2 .. Len(s) : by[i] = by[j] /\ s[i] = s[j] => i = j

Pushed(deps, s, vs) == \E by \in [2 .. Len(s) -> NodeId] : PushedBy(deps, s, vs, by)

\* The inductive invariant, over those of the kernel and of the caches.
SInv == Pushed(graph.dependencies, stack, visitState)

\* One entry, or none, needs no pusher.
LEMMA ShortIsPushed ==
    ASSUME NEW deps \in Edges, NEW vs \in VisitStates, NEW s \in Seq(NodeId), Len(s) <= 1
    PROVE  Pushed(deps, s, vs)
<1>1. 2 .. Len(s) = {}
  OBVIOUS
<1> DEFINE by == [i \in {} |-> CHOOSE n \in NodeId : TRUE]
<1>2. by \in [2 .. Len(s) -> NodeId]
  BY <1>1
<1>3. PushedBy(deps, s, vs, by)
  BY <1>1 DEF PushedBy
<1> QED
  BY <1>2, <1>3 DEF Pushed

\* Popping, when the states of the visit only go forward.
LEMMA PopKeepsPushed ==
    ASSUME NEW deps \in Edges, NEW vs \in VisitStates, NEW ws \in VisitStates,
           NEW s \in Seq(NodeId), s # << >>, Pushed(deps, s, vs),
           \A n \in NodeId : vs[n] # "Unvisited" => ws[n] # "Unvisited"
    PROVE  Pushed(deps, Front(s), ws)
<1> DEFINE n == Len(s)
<1>1. /\ n \in Nat /\ n > 0 /\ Len(Front(s)) = n - 1
      /\ \A i \in 1 .. n - 1 : Front(s)[i] = s[i]
  BY FrontElements
<1>2. PICK by \in [2 .. n -> NodeId] : PushedBy(deps, s, vs, by)
  BY DEF Pushed
<1> DEFINE cut == [i \in 2 .. n - 1 |-> by[i]]
<1>3. \A i \in 2 .. n - 1 : i \in 2 .. n /\ i \in 1 .. n - 1 /\ cut[i] = by[i] /\ by[i] \in NodeId
  BY <1>1, <1>2
<1>4. cut \in [2 .. Len(Front(s)) -> NodeId]
  BY <1>1, <1>3
<1> HIDE DEF cut
<1>5. PushedBy(deps, Front(s), ws, cut)
  BY <1>1, <1>2, <1>3 DEF PushedBy
<1> QED
  BY <1>4, <1>5 DEF Pushed

\* A first visit pushes what the node reads, each once.
LEMMA OpenKeepsPushed ==
    ASSUME NEW deps \in Edges, NEW vs \in VisitStates, NEW s \in Seq(NodeId), s # << >>,
           NEW order \in Seq(NodeId), Pushed(deps, s, vs), vs[Last(s)] = "Unvisited",
           \A k \in 1 .. Len(order) : order[k] \in deps[Last(s)],
           \A k, l \in 1 .. Len(order) : order[k] = order[l] => k = l
    PROVE  Pushed(deps, s \o order, [vs EXCEPT ![Last(s)] = "Visiting"])
<1> DEFINE top == Last(s)
           n == Len(s)
           t == s \o order
           ws == [vs EXCEPT ![Last(s)] = "Visiting"]
<1>1. top \in NodeId /\ n \in Nat /\ n > 0 /\ Len(order) \in Nat
  BY FrontType, FrontElements
<1>2. /\ Len(t) = n + Len(order)
      /\ \A i \in 2 .. n : i \in 1 .. n /\ t[i] = s[i]
      /\ \A i \in 2 .. Len(t) : i \notin 2 .. n =>
            i - n \in 1 .. Len(order) /\ t[i] = order[i - n]
  BY <1>1
<1>3. ws[top] # "Unvisited" /\ \A m \in NodeId : vs[m] # "Unvisited" => ws[m] # "Unvisited"
  BY <1>1 DEF VisitStates
<1>4. PICK by \in [2 .. n -> NodeId] : PushedBy(deps, s, vs, by)
  BY DEF Pushed
<1> DEFINE more == [i \in 2 .. Len(t) |-> IF i \in 2 .. n THEN by[i] ELSE top]
<1>5. more \in [2 .. Len(t) -> NodeId]
  BY <1>1, <1>4
<1>6. /\ \A i \in 2 .. n : i \in 2 .. Len(t) /\ more[i] = by[i] /\ by[i] # top /\ by[i] \in NodeId
      /\ \A i \in 2 .. Len(t) : i \notin 2 .. n => more[i] = top
  <2>1. \A i \in 2 .. n : by[i] \in NodeId /\ by[i] # top
    BY <1>4 DEF PushedBy
  <2>2. \A i \in 2 .. n : i \in 2 .. Len(t)
    BY <1>1, <1>2
  <2> HIDE DEF t, n, top
  <2> QED
    BY <2>1, <2>2
<1> HIDE DEF more, t, ws, top
<1>7. ASSUME NEW i \in 2 .. Len(t)
      PROVE  t[i] \in deps[more[i]] /\ ws[more[i]] # "Unvisited"
  <2>1. CASE i \in 2 .. n
    BY <1>2, <1>3, <1>4, <1>6, <2>1 DEF PushedBy
  <2>2. CASE i \notin 2 .. n
    BY <1>2, <1>3, <1>6, <2>2 DEF top
  <2> QED
    BY <2>1, <2>2
<1>8. ASSUME NEW i \in 2 .. Len(t), NEW j \in 2 .. Len(t), more[i] = more[j], t[i] = t[j]
      PROVE  i = j
  <2>1. CASE i \in 2 .. n /\ j \in 2 .. n
    BY <1>2, <1>4, <1>6, <1>8, <2>1 DEF PushedBy
  <2>2. CASE i \notin 2 .. n /\ j \notin 2 .. n
    <3>1. i - n = j - n
      BY <1>2, <1>8, <2>2
    <3> QED
      BY <1>1, <3>1
  <2> QED
    BY <1>6, <1>8, <2>1, <2>2
<1>9. PushedBy(deps, t, ws, more)
  BY <1>7, <1>8 DEF PushedBy
<1> QED
  BY <1>5, <1>9 DEF Pushed, t, ws, top

-----------------------------------------------------------------------------
(***************************************************************************)
(* Every step.                                                             *)
(***************************************************************************)

LEMMA SameWalkSame ==
    ASSUME SInv, UNCHANGED <<graph, stack, visitState>>
    PROVE  SInv'
BY DEF SInv, Pushed, PushedBy

LEMMA ShortWalk ==
    ASSUME IInv', Len(stack') <= 1
    PROVE  SInv'
<1>1. graph'.dependencies \in Edges /\ stack' \in Seq(NodeId) /\ visitState' \in VisitStates
  BY DEF IInv, TypeOK, Graphs, Edges, VisitStates
<1> QED
  BY <1>1, ShortIsPushed DEF SInv

LEMMA PopKeepsSInv ==
    ASSUME IInv, IInv', SInv, stack # << >>, UNCHANGED graph,
           PopStack(visitState) \/ PopStack([visitState EXCEPT ![Last(stack)] = "Visited"])
    PROVE  SInv'
<1>1. /\ graph.dependencies \in Edges /\ stack \in Seq(NodeId) /\ visitState \in VisitStates
      /\ visitState' \in VisitStates
  BY DEF IInv, TypeOK, Graphs, Edges, VisitStates
<1>2. stack' = Front(stack) /\ Len(stack) \in Nat /\ Len(Front(stack)) = Len(stack) - 1
  BY <1>1, FrontElements DEF PopStack
<1>3. CASE Len(stack) = 1
  BY <1>2, <1>3, ShortWalk
<1>4. CASE Len(stack) # 1
  <2>1. \A n \in NodeId : visitState[n] # "Unvisited" => visitState'[n] # "Unvisited"
    BY <1>1, <1>4 DEF PopStack, VisitStates
  <2>2. Pushed(graph.dependencies, Front(stack), visitState')
    BY <1>1, <2>1, PopKeepsPushed DEF SInv
  <2> QED
    BY <1>2, <2>2 DEF SInv
<1> QED
  BY <1>3, <1>4

LEMMA VisitDirtyKeepsSInv ==
    ASSUME IInv, SInv, VisitDirty
    PROVE  SInv'
<1> DEFINE deps == graph.dependencies
           waiting == {d \in deps[Last(stack)] : visitState'[d] # "Visited"}
<1>1. /\ stack # << >> /\ visitState[Last(stack)] = "Unvisited" /\ UNCHANGED graph
      /\ visitState' = [visitState EXCEPT ![Last(stack)] = "Visiting"]
      /\ \E order \in Orders(waiting) : stack' = stack \o order
  BY DEF VisitDirty, nodeVars
<1>2. deps \in Edges /\ stack \in Seq(NodeId) /\ visitState \in VisitStates
  BY WalkTypes
<1>3. Last(stack) \in NodeId
  BY <1>1, <1>2, FrontType
<1>4. waiting \in SUBSET NodeId
  BY <1>2, <1>3 DEF Edges
<1>5. PICK order \in Orders(waiting) : stack' = stack \o order
  BY <1>1
<1>6. /\ order \in Seq(NodeId)
      /\ \A k \in 1 .. Len(order) : order[k] \in deps[Last(stack)]
      /\ \A k, l \in 1 .. Len(order) : order[k] = order[l] => k = l
  <2>1. waiting \subseteq deps[Last(stack)]
    OBVIOUS
  <2> HIDE DEF waiting
  <2>2. order \in Seq(NodeId) /\ Range(order) = waiting
    BY <1>4, <1>5, OrdersRange
  <2>3. \A k \in 1 .. Len(order) : order[k] \in deps[Last(stack)]
    BY <2>1, <2>2 DEF Range
  <2>4. Cardinality(waiting) \in Nat
    BY <1>4, FiniteNodeIds, FS_Subset, FS_CardinalityType
  <2>5. /\ order \in [1 .. Cardinality(waiting) -> waiting]
        /\ \A k, l \in 1 .. Cardinality(waiting) : k # l => order[k] # order[l]
    BY <1>5 DEF Orders, SetToSeqs
  <2>6. Len(order) = Cardinality(waiting)
    BY <2>2, <2>4, <2>5
  <2> QED
    BY <2>2, <2>3, <2>5, <2>6
<1> HIDE DEF deps, waiting
<1>7. Pushed(deps, stack, visitState)
  BY DEF SInv, deps
<1>8. Pushed(deps, stack \o order, visitState')
  BY <1>1, <1>2, <1>6, <1>7, OpenKeepsPushed
<1> QED
  BY <1>1, <1>5, <1>8 DEF SInv, deps

LEMMA ExecutorStepKeepsSInv ==
    ASSUME IInv, IInv', SInv, ExecutorStep
    PROVE  SInv'
<1>1. CASE PopVisited \/ VisitClean \/ ComputeVisiting
  BY <1>1, PopKeepsSInv DEF PopVisited, VisitClean, ComputeVisiting, nodeVars
<1>2. CASE VisitDirty
  BY <1>2, VisitDirtyKeepsSInv
<1>3. CASE (\E d \in NodeId : CallDependency(d)) \/ ComputeReturning \/ ReturnNodeValue
           \/ ReturnEvaluate
  BY <1>3, SameWalkSame DEF CallDependency, ComputeReturning, ReturnNodeValue, ReturnEvaluate,
                            nodeVars, walkVars
<1>4. CASE ComputeAborts \/ EvaluateLeafAborts
  BY <1>4, ShortWalk DEF ComputeAborts, EvaluateLeafAborts, Abort
<1>5. CASE EvaluateLeaf
  <2> DEFINE leaf == dirtyLeaves[position + 1]
  <2>1. CASE UNCHANGED <<graph, stack, visitState>>
    BY <2>1, SameWalkSame
  <2>2. CASE stack' = <<leaf>>
    <3>1. Len(stack') <= 1
      BY <2>2
    <3> QED
      BY <3>1, ShortWalk
  <2>3. UNCHANGED <<graph, stack, visitState>> \/ stack' = <<leaf>>
    BY <1>5 DEF EvaluateLeaf, StartWalk, walkVars, nodeVars
  <2> QED
    BY <2>1, <2>2, <2>3
<1> QED
  BY <1>1, <1>2, <1>3, <1>4, <1>5 DEF ExecutorStep

\* Between calls the stack is empty; only a read pushes, one entry.
LEMMA CallKeepsSInv ==
    ASSUME IInv, IInv', Call
    PROVE  SInv'
<1>1. CASE \E id \in NodeId : GetNodeValue(id)
  <2>1. PICK id \in NodeId : GetNodeValue(id)
    BY <1>1
  <2>2. stack = << >>
    BY <2>1 DEF GetNodeValue, IInv, IdleRests, WalkDone
  <2>3. stack' = << >> \/ stack' = <<id>>
    BY <2>1, <2>2 DEF GetNodeValue, StartWalk, walkVars
  <2>4. Len(<< >>) <= 1 /\ Len(<<id>>) <= 1
    OBVIOUS
  <2>5. Len(stack') <= 1
    BY <2>3, <2>4, Zenon
  <2> QED
    BY <2>5, ShortWalk
<1>2. CASE \A id \in NodeId : ~GetNodeValue(id)
  <2>1. Len(stack') <= 1
    BY <1>2, CallsReturn DEF IInv, IdleRests, WalkDone, walkVars
  <2> QED
    BY <2>1, ShortWalk
<1> QED
  BY <1>1, <1>2

-----------------------------------------------------------------------------
(***************************************************************************)
(* The bounds.                                                             *)
(***************************************************************************)

LEMMA EdgesFinite ==
    ASSUME NEW deps \in Edges
    PROVE  IsFiniteSet(EdgePairs(deps)) /\ Cardinality(EdgePairs(deps)) \in Nat
<1>1. IsFiniteSet(NodeId \X NodeId)
  BY FiniteNodeIds, FS_Product
<1>2. EdgePairs(deps) \in SUBSET (NodeId \X NodeId)
  BY DEF EdgePairs
<1> QED
  BY <1>1, <1>2, FS_Subset, FS_CardinalityType

\* Entries of the stack above the first are as many different edges.
LEMMA PushedBounds ==
    ASSUME NEW deps \in Edges, NEW vs \in VisitStates, NEW s \in Seq(NodeId),
           Pushed(deps, s, vs)
    PROVE  Len(s) <= 1 + Cardinality(EdgePairs(deps))
<1> DEFINE n == Len(s)
           places == 2 .. n
           pairs == EdgePairs(deps)
<1>1. n \in Nat /\ IsFiniteSet(pairs) /\ Cardinality(pairs) \in Nat
  BY EdgesFinite
<1>2. PICK by \in [2 .. n -> NodeId] : PushedBy(deps, s, vs, by)
  BY DEF Pushed
<1> DEFINE edge == [i \in places |-> <<by[i], s[i]>>]
<1>3. \A i \in places : i \in 1 .. n /\ by[i] \in NodeId /\ s[i] \in NodeId
  BY <1>1, <1>2
<1>4. \A i \in places : <<by[i], s[i]>> \in pairs
  BY <1>2, <1>3 DEF PushedBy, EdgePairs
<1>5. \A i, j \in places : <<by[i], s[i]>> = <<by[j], s[j]>> => i = j
  BY <1>2 DEF PushedBy
<1> HIDE DEF pairs, places
<1>6. edge \in Injection(places, pairs)
  BY <1>4, <1>5 DEF Injection, IsInjective
<1> HIDE DEF edge
<1>7. Cardinality(places) <= Cardinality(pairs)
  BY <1>1, <1>6, FS_Injection
<1>8. Cardinality(places) = IF 2 > n THEN 0 ELSE n - 2 + 1
  <2> HIDE DEF n
  <2> QED
    BY <1>1, FS_Interval DEF places
<1> QED
  BY <1>1, <1>7, <1>8 DEF pairs

\* The activations stand for as many different nodes.
LEMMA FramesBound ==
    ASSUME IInv, CInv
    PROVE  Len(frames) <= Cardinality(Nodes(graph))
<1> DEFINE n == Len(frames)
           places == 1 .. n
           nodes == Nodes(graph)
           deps == graph.dependencies
<1>1. /\ deps \in Edges /\ NoCycle(deps) /\ dirty \in SUBSET NodeId
      /\ frames \in Seq(Frame) /\ n \in Nat
  BY WalkTypes
<1>2. FramesSound(deps, dirty, frames)
  BY DEF CInv, WalksSound
<1>3. \A i \in places : frames[i].node \in dirty /\ frames[i].node \in NodeId
  BY <1>1, <1>2 DEF FramesSound
<1>4. dirty \subseteq nodes
  BY <1>1, DirtyIsComputed DEF Computed, Nodes, Absent
<1>5. \A i, j \in places : j > i => frames[i].node # frames[j].node
  BY <1>2, <1>1, <1>3 DEF FramesSound, NoCycle
<1>6. \A i, j \in places : frames[i].node = frames[j].node => i = j
  BY <1>1, <1>5
<1>7. IsFiniteSet(nodes) /\ Cardinality(nodes) \in Nat
  <2>1. nodes \in SUBSET NodeId
    BY DEF Nodes
  <2> QED
    BY <2>1, FiniteNodeIds, FS_Subset, FS_CardinalityType
<1> DEFINE of == [i \in places |-> frames[i].node]
<1>8. of \in Injection(places, nodes)
  BY <1>3, <1>4, <1>6 DEF Injection, IsInjective
<1> HIDE DEF of, places, nodes
<1>9. Cardinality(places) <= Cardinality(nodes)
  BY <1>7, <1>8, FS_Injection
<1>10. Cardinality(places) = IF 1 > n THEN 0 ELSE n - 1 + 1
  BY <1>1, FS_Interval DEF places
<1> QED
  BY <1>1, <1>7, <1>9, <1>10 DEF nodes

LEMMA StackInvariance == Spec => [](IInv /\ CInv /\ SInv)
<1>1. Init => IInv /\ CInv
  BY InitEstablishes, InitSound
<1>2. Init => SInv
  <2> SUFFICES ASSUME Init PROVE SInv
    OBVIOUS
  <2>1. graph.dependencies \in Edges /\ visitState \in VisitStates /\ stack = << >>
    BY InitEstablishes DEF Init, ExecutorInit, IInv, TypeOK, Graphs, Edges, VisitStates
  <2>2. stack \in Seq(NodeId) /\ Len(stack) <= 1
    BY <2>1
  <2> QED
    BY <2>1, <2>2, ShortIsPushed DEF SInv
<1>3. IInv /\ CInv /\ [Next]_vars => IInv' /\ CInv'
  BY CallPreserves, ExecutorStepPreserves, StutterPreserves, CallSound, ExecutorStepSound,
     StutterSound DEF Next, Aborted
<1>4. ASSUME UNCHANGED vars, SInv PROVE SInv'
  BY <1>4, SameWalkSame DEF vars, nodeVars, walkVars
<1>5. IInv /\ IInv' /\ SInv /\ [Next]_vars => SInv'
  BY <1>4, CallKeepsSInv, ExecutorStepKeepsSInv DEF Next, Aborted
<1> QED
  BY <1>1, <1>2, <1>3, <1>5, PTL DEF Spec

\* The explicit stack never holds more entries than the graph has edges, and
\* the first; the recursion is never deeper than the graph has nodes.
THEOREM StacksAreBounded == Spec => []StackBounded
<1>1. ASSUME IInv, CInv, SInv PROVE StackBounded
  <2>1. /\ graph.dependencies \in Edges /\ stack \in Seq(NodeId) /\ visitState \in VisitStates
    BY <1>1, WalkTypes
  <2>2. Len(stack) <= 1 + Cardinality(EdgePairs(graph.dependencies))
    BY <1>1, <2>1, PushedBounds DEF SInv
  <2>3. Len(frames) <= Cardinality(Nodes(graph))
    BY <1>1, FramesBound
  <2> QED
    BY <2>2, <2>3 DEF StackBounded, EdgePairs
<1>2. IInv /\ CInv /\ SInv => StackBounded
  BY <1>1
<1> QED
  BY StackInvariance, <1>2, PTL

-----------------------------------------------------------------------------
(***************************************************************************)
(* Every step of a running call leaves less to do.                         *)
(***************************************************************************)

\* What is counted can be counted.
Counted ==
    /\ CallsLeft \in Nat /\ LeavesLeft \in Nat /\ WalksLeft \in Nat
    /\ DirtyLeft \in Nat /\ VisitsLeft \in Nat /\ EntriesLeft \in Nat

LEMMA CountedInState ==
    ASSUME IInv, CInv
    PROVE  Counted
<1>1. /\ dirty \in SUBSET NodeId /\ stack \in Seq(NodeId) /\ frames \in Seq(Frame)
      /\ Len(stack) \in Nat /\ Len(frames) \in Nat
  BY WalkTypes
<1>2. \A S \in SUBSET NodeId : Cardinality(S) \in Nat /\ Cardinality(S) <= Cardinality(NodeId)
  BY FiniteNodeIds, FS_Subset, FS_CardinalityType
<1>3. CallsLeft \in Nat /\ WalksLeft \in Nat /\ DirtyLeft \in Nat
  BY <1>1, <1>2 DEF CallsLeft, WalksLeft, DirtyLeft
<1>4. LeavesLeft \in Nat
  <2>1. Len(dirtyLeaves) \in Nat /\ position \in 0 .. Len(dirtyLeaves)
    BY DEF IInv, TypeOK
  <2> QED
    BY <2>1 DEF LeavesLeft
<1>5. VisitsLeft \in Nat
  <2> DEFINE new == {n \in NodeId : visitState[n] = "Unvisited"}
             open == {n \in NodeId : visitState[n] # "Visited"}
  <2>1. /\ Cardinality(new) \in Nat /\ Cardinality(open) \in Nat
        /\ Cardinality(Nodes(graph)) \in Nat
        /\ Cardinality(Nodes(graph)) <= Cardinality(NodeId) /\ Cardinality(NodeId) \in Nat
    BY <1>2 DEF Nodes
  <2>2. Len(frames) <= Cardinality(Nodes(graph))
    BY FramesBound
  <2> HIDE DEF new, open
  <2>3. Cardinality(new) + Cardinality(open) + (Cardinality(NodeId) - Len(frames)) \in Nat
    BY <1>1, <2>1, <2>2
  <2> QED
    BY <2>3 DEF VisitsLeft, new, open
<1>6. EntriesLeft \in Nat
  <2>1. CASE frames = << >>
    BY <1>1, <2>1 DEF EntriesLeft
  <2>2. CASE frames # << >>
    <3>1. Last(frames) \in Frame
      BY <1>1, <2>2, FrontType
    <3>2. Last(frames).rest \in SUBSET NodeId
      BY <3>1 DEF Frame
    <3> QED
      BY <1>1, <1>2, <2>2, <3>2 DEF EntriesLeft
  <2> QED
    BY <2>1, <2>2
<1> QED
  BY <1>3, <1>4, <1>5, <1>6 DEF Counted

\* The counts that a step lowers, and those before them that it leaves alone.
Descends ==
    \/ CallsLeft' < CallsLeft
    \/ CallsLeft' = CallsLeft
       /\ \/ LeavesLeft' < LeavesLeft
          \/ LeavesLeft' = LeavesLeft
             /\ \/ WalksLeft' < WalksLeft
                \/ WalksLeft' = WalksLeft
                   /\ \/ DirtyLeft' < DirtyLeft
                      \/ DirtyLeft' = DirtyLeft
                         /\ \/ VisitsLeft' < VisitsLeft
                            \/ VisitsLeft' = VisitsLeft /\ EntriesLeft' < EntriesLeft

LEMMA DescendsBelow ==
    ASSUME Counted, Counted', Descends
    PROVE  Remaining' \in [1 .. 6 -> Nat] /\ Below(Remaining', Remaining)
<1>1. Remaining' \in [1 .. 6 -> Nat] /\ DOMAIN Remaining = 1 .. 6
  BY DEF Counted, Remaining
<1>2. /\ Remaining[1] = CallsLeft /\ Remaining'[1] = CallsLeft'
      /\ Remaining[2] = LeavesLeft /\ Remaining'[2] = LeavesLeft'
      /\ Remaining[3] = WalksLeft /\ Remaining'[3] = WalksLeft'
      /\ Remaining[4] = DirtyLeft /\ Remaining'[4] = DirtyLeft'
      /\ Remaining[5] = VisitsLeft /\ Remaining'[5] = VisitsLeft'
      /\ Remaining[6] = EntriesLeft /\ Remaining'[6] = EntriesLeft'
  BY DEF Remaining
<1>3. /\ \A j \in 1 .. 1 - 1 : FALSE
      /\ \A j \in 1 .. 2 - 1 : j = 1
      /\ \A j \in 1 .. 3 - 1 : j = 1 \/ j = 2
      /\ \A j \in 1 .. 4 - 1 : j = 1 \/ j = 2 \/ j = 3
      /\ \A j \in 1 .. 5 - 1 : j = 1 \/ j = 2 \/ j = 3 \/ j = 4
      /\ \A j \in 1 .. 6 - 1 : j = 1 \/ j = 2 \/ j = 3 \/ j = 4 \/ j = 5
  OBVIOUS
<1>4. ASSUME NEW i \in 1 .. 6, Remaining'[i] < Remaining[i],
             \A j \in 1 .. i - 1 : Remaining'[j] = Remaining[j]
      PROVE  Below(Remaining', Remaining)
  BY <1>1, <1>4 DEF Below
<1>5. CASE CallsLeft' < CallsLeft
  <2>1. \A j \in 1 .. 1 - 1 : Remaining'[j] = Remaining[j]
    BY <1>2, <1>3, <1>5
  <2>2. Remaining'[1] < Remaining[1] /\ 1 \in 1 .. 6
    BY <1>2, <1>5
  <2> QED
    BY <1>1, <1>4, <2>1, <2>2
<1>6. CASE CallsLeft' = CallsLeft /\ LeavesLeft' < LeavesLeft
  <2>1. \A j \in 1 .. 2 - 1 : Remaining'[j] = Remaining[j]
    BY <1>2, <1>3, <1>6
  <2>2. Remaining'[2] < Remaining[2] /\ 2 \in 1 .. 6
    BY <1>2, <1>6
  <2> QED
    BY <1>1, <1>4, <2>1, <2>2
<1>7. CASE CallsLeft' = CallsLeft /\ LeavesLeft' = LeavesLeft /\ WalksLeft' < WalksLeft
  <2>1. \A j \in 1 .. 3 - 1 : Remaining'[j] = Remaining[j]
    BY <1>2, <1>3, <1>7
  <2>2. Remaining'[3] < Remaining[3] /\ 3 \in 1 .. 6
    BY <1>2, <1>7
  <2> QED
    BY <1>1, <1>4, <2>1, <2>2
<1>8. CASE CallsLeft' = CallsLeft /\ LeavesLeft' = LeavesLeft /\ WalksLeft' = WalksLeft
           /\ DirtyLeft' < DirtyLeft
  <2>1. \A j \in 1 .. 4 - 1 : Remaining'[j] = Remaining[j]
    BY <1>2, <1>3, <1>8
  <2>2. Remaining'[4] < Remaining[4] /\ 4 \in 1 .. 6
    BY <1>2, <1>8
  <2> QED
    BY <1>1, <1>4, <2>1, <2>2
<1>9. CASE CallsLeft' = CallsLeft /\ LeavesLeft' = LeavesLeft /\ WalksLeft' = WalksLeft
           /\ DirtyLeft' = DirtyLeft /\ VisitsLeft' < VisitsLeft
  <2>1. \A j \in 1 .. 5 - 1 : Remaining'[j] = Remaining[j]
    BY <1>2, <1>3, <1>9
  <2>2. Remaining'[5] < Remaining[5] /\ 5 \in 1 .. 6
    BY <1>2, <1>9
  <2> QED
    BY <1>1, <1>4, <2>1, <2>2
<1>10. CASE CallsLeft' = CallsLeft /\ LeavesLeft' = LeavesLeft /\ WalksLeft' = WalksLeft
           /\ DirtyLeft' = DirtyLeft /\ VisitsLeft' = VisitsLeft /\ EntriesLeft' < EntriesLeft
  <2>1. \A j \in 1 .. 6 - 1 : Remaining'[j] = Remaining[j]
    BY <1>2, <1>3, <1>10
  <2>2. Remaining'[6] < Remaining[6] /\ 6 \in 1 .. 6
    BY <1>2, <1>10
  <2> QED
    BY <1>1, <1>4, <2>1, <2>2
<1> QED
  BY <1>1, <1>5, <1>6, <1>7, <1>8, <1>9, <1>10 DEF Descends

\* A step of a walk leaves the call and the list of leaves alone.
LEMMA SameCall ==
    ASSUME UNCHANGED <<dirtyLeaves, callVars>>
    PROVE  CallsLeft' = CallsLeft /\ LeavesLeft' = LeavesLeft
BY DEF callVars, CallsLeft, LeavesLeft

\* The nodes in some of the states of a visit.
LEMMA FewerVisits ==
    ASSUME IInv, IInv', NEW n \in NodeId, visitState[n] = "Unvisited",
           NEW state \in {"Visiting", "Visited"},
           visitState' = [visitState EXCEPT ![n] = state], UNCHANGED frames
    PROVE  VisitsLeft' < VisitsLeft
<1> DEFINE new == {m \in NodeId : visitState[m] = "Unvisited"}
           open == {m \in NodeId : visitState[m] # "Visited"}
<1>1. visitState \in VisitStates /\ frames \in Seq(Frame) /\ Len(frames) \in Nat
  BY WalkTypes
<1>2. new' \subseteq new /\ n \in new /\ n \notin new' /\ open' \subseteq open
  BY <1>1 DEF VisitStates
<1>3. new \in SUBSET NodeId /\ open \in SUBSET NodeId
  OBVIOUS
<1> HIDE DEF new, open
<1>4. /\ IsFiniteSet(new) /\ IsFiniteSet(open) /\ Cardinality(new) \in Nat /\ Cardinality(open) \in Nat
      /\ Cardinality(NodeId) \in Nat
  BY <1>3, FiniteNodeIds, FS_Subset, FS_CardinalityType
<1>5. /\ Cardinality(new') <= Cardinality(new) /\ Cardinality(new') # Cardinality(new)
      /\ Cardinality(new') \in Nat
      /\ Cardinality(open') <= Cardinality(open) /\ Cardinality(open') \in Nat
  BY <1>2, <1>4, FS_Subset, FS_CardinalityType
<1>6. Cardinality(new') + Cardinality(open') + (Cardinality(NodeId) - Len(frames))
        < Cardinality(new) + Cardinality(open) + (Cardinality(NodeId) - Len(frames))
  BY <1>1, <1>4, <1>5
<1> QED
  BY <1>6 DEF VisitsLeft, new, open

\* Computing a dirty node leaves fewer dirty nodes.
LEMMA FewerDirty ==
    ASSUME IInv, NEW n \in dirty, dirty' = dirty \ {n}
    PROVE  DirtyLeft' < DirtyLeft
<1>1. IsFiniteSet(dirty)
  BY WalkTypes, FiniteNodeIds, FS_Subset
<1>2. Cardinality(dirty) \in Nat
  BY <1>1, FS_CardinalityType
<1>3. Cardinality(dirty \ {n}) = Cardinality(dirty) - 1
  BY <1>1, FS_RemoveElement
<1> QED
  BY <1>2, <1>3 DEF DirtyLeft

\* When the last entry is popped the walk is over; otherwise what comes with
\* the pop decides.
LEMMA PopDescends ==
    ASSUME IInv, CInv, stack # << >>, stack' = Front(stack), UNCHANGED <<frames, dirtyLeaves, callVars>>,
           Len(stack) # 1 => \/ DirtyLeft' < DirtyLeft
                             \/ DirtyLeft' = DirtyLeft /\ VisitsLeft' < VisitsLeft
                             \/ DirtyLeft' = DirtyLeft /\ VisitsLeft' = VisitsLeft
    PROVE  Descends
<1>1. /\ stack \in Seq(NodeId) /\ frames = << >>
      /\ Len(stack) \in Nat /\ Len(stack) > 0
      /\ Front(stack) \in Seq(NodeId) /\ Len(Front(stack)) = Len(stack) - 1
  BY WalkTypes, FrontElements, FrontType DEF CInv, WalksSound, OneWalk
<1>2. CallsLeft' = CallsLeft /\ LeavesLeft' = LeavesLeft
  BY SameCall
<1>3. WalksLeft = 1
  BY DEF WalksLeft, WalkDone
<1>4. CASE Len(stack) = 1
  <2>1. stack' = << >>
    BY <1>1, <1>4, EmptySeq
  <2>2. WalksLeft' = 0
    BY <1>1, <2>1 DEF WalksLeft, WalkDone
  <2> QED
    BY <1>2, <1>3, <2>2 DEF Descends
<1>5. CASE Len(stack) # 1
  <2>1. stack' # << >>
    BY <1>1, <1>5
  <2>2. WalksLeft' = 1
    BY <2>1 DEF WalksLeft, WalkDone
  <2>3. EntriesLeft' < EntriesLeft
    BY <1>1 DEF EntriesLeft
  <2> QED
    BY <1>2, <1>3, <1>5, <2>2, <2>3 DEF Descends
<1> QED
  BY <1>4, <1>5

LEMMA PopVisitedDescends ==
    ASSUME IInv, CInv, PopVisited
    PROVE  Descends
<1>1. /\ stack # << >> /\ stack' = Front(stack) /\ UNCHANGED <<frames, dirtyLeaves, callVars, dirty>>
      /\ Len(stack) # 1 => visitState' = visitState
  BY DEF PopVisited, PopStack, nodeVars
<1>2. Len(stack) # 1 => DirtyLeft' = DirtyLeft /\ VisitsLeft' = VisitsLeft
  BY <1>1 DEF DirtyLeft, VisitsLeft
<1> QED
  BY <1>1, <1>2, PopDescends

LEMMA VisitCleanDescends ==
    ASSUME IInv, IInv', CInv, VisitClean
    PROVE  Descends
<1>1. /\ stack # << >> /\ stack' = Front(stack) /\ UNCHANGED <<frames, dirtyLeaves, callVars, dirty>>
      /\ visitState[Last(stack)] = "Unvisited"
      /\ Len(stack) # 1 => visitState' = [visitState EXCEPT ![Last(stack)] = "Visited"]
  BY DEF VisitClean, PopStack, nodeVars
<1>2. Last(stack) \in NodeId
  BY <1>1, WalkTypes, FrontType
<1>3. DirtyLeft' = DirtyLeft
  BY <1>1 DEF DirtyLeft
<1>4. Len(stack) # 1 => VisitsLeft' < VisitsLeft
  BY <1>1, <1>2, FewerVisits
<1> QED
  BY <1>1, <1>3, <1>4, PopDescends

LEMMA ComputeVisitingDescends ==
    ASSUME IInv, CInv, ComputeVisiting
    PROVE  Descends
<1>1. /\ stack # << >> /\ stack' = Front(stack) /\ UNCHANGED <<frames, dirtyLeaves, callVars>>
      /\ visitState[Last(stack)] = "Visiting"
      /\ dirty' = dirty \ {Last(stack)}
  BY DEF ComputeVisiting, ComputeValue, PopStack
<1>2. Last(stack) \in dirty
  BY <1>1, WalkTypes, FrontType DEF CInv, WalksSound, StackSound
<1>3. DirtyLeft' < DirtyLeft
  BY <1>1, <1>2, FewerDirty
<1> QED
  BY <1>1, <1>3, PopDescends

LEMMA VisitDirtyDescends ==
    ASSUME IInv, IInv', CInv, VisitDirty
    PROVE  Descends
<1>1. /\ stack # << >> /\ visitState[Last(stack)] = "Unvisited"
      /\ UNCHANGED <<frames, dirtyLeaves, callVars, dirty>>
      /\ visitState' = [visitState EXCEPT ![Last(stack)] = "Visiting"]
      /\ visitState'[Last(stack)] = "Visiting"
  BY WalkTypes, FrontType DEF VisitDirty, nodeVars, VisitStates
<1>2. Last(stack) \in NodeId
  BY <1>1, WalkTypes, FrontType
<1>3. CallsLeft' = CallsLeft /\ LeavesLeft' = LeavesLeft
  BY <1>1, SameCall
<1>4. DirtyLeft' = DirtyLeft
  BY <1>1 DEF DirtyLeft
<1>5. VisitsLeft' < VisitsLeft
  BY <1>1, <1>2, FewerVisits
<1>6. WalksLeft' = WalksLeft
  <2>1. CInv' /\ visitState' # Unvisited
    BY <1>1, <1>2, VisitDirtySound DEF Unvisited
  <2>2. stack' # << >>
    BY <2>1 DEF CInv, WalksSound, OneWalk, Unvisited
  <2> QED
    BY <1>1, <2>2 DEF WalksLeft, WalkDone
<1> QED
  BY <1>3, <1>4, <1>5, <1>6 DEF Descends

\* A dirty dependency makes the recursion deeper, a clean one the rest smaller.
LEMMA CallDependencyDescends ==
    ASSUME IInv, IInv', CInv, NEW d \in NodeId, CallDependency(d)
    PROVE  Descends
<1> DEFINE top == Len(frames)
           caller == [node |-> Last(frames).node, rest |-> Last(frames).rest \ {d}]
           callee == [node |-> d, rest |-> graph.dependencies[d]]
<1>1. /\ graph.dependencies \in Edges /\ dirty \in SUBSET NodeId /\ frames \in Seq(Frame)
      /\ frames' \in Seq(Frame)
  BY WalkTypes DEF IInv, TypeOK
<1>2. frames # << >> /\ d \in Last(frames).rest
  BY DEF CallDependency
<1>3. Last(frames) \in Frame /\ top \in Nat /\ top > 0
  BY <1>1, <1>2, FrontType, FrontElements
<1>4. Last(frames).node \in NodeId /\ Last(frames).rest \in SUBSET NodeId
  BY <1>3 DEF Frame
<1>5. [Last(frames) EXCEPT !.rest = @ \ {d}] = caller
  <2>1. Last(frames) \in Frame
    BY <1>3
  <2> QED
    BY <2>1 DEF Frame
<1>6. caller \in Frame /\ callee \in Frame
  BY <1>1, <1>4 DEF Frame, Edges
<1>7. frames' = AfterCall(frames, dirty, d, caller, callee)
  <2>1. frames' = AfterCall(frames, dirty, d, [Last(frames) EXCEPT !.rest = @ \ {d}], callee)
    BY DEF CallDependency, AfterCall
  <2> QED
    BY <1>5, <2>1
<1>8. UNCHANGED <<dirtyLeaves, callVars, stack, visitState, dirty>>
  BY DEF CallDependency, nodeVars
<1> HIDE DEF caller, callee
<1>9. /\ Len(frames') = IF d \in dirty THEN top + 1 ELSE top
      /\ frames'[top] = caller
  BY <1>1, <1>2, <1>6, <1>7, CalledFrames
<1>10. CallsLeft' = CallsLeft /\ LeavesLeft' = LeavesLeft
  BY <1>8, SameCall
<1>11. DirtyLeft' = DirtyLeft
  BY <1>8 DEF DirtyLeft
<1>12. frames' # << >>
  BY <1>1, <1>3, <1>9
<1>13. WalksLeft' = WalksLeft
  BY <1>2, <1>12 DEF WalksLeft, WalkDone
<1> DEFINE visits == Cardinality({n \in NodeId : visitState[n] = "Unvisited"})
                       + Cardinality({n \in NodeId : visitState[n] # "Visited"})
<1>14. visits \in Nat /\ Cardinality(NodeId) \in Nat
  <2> DEFINE new == {n \in NodeId : visitState[n] = "Unvisited"}
             open == {n \in NodeId : visitState[n] # "Visited"}
  <2>1. new \in SUBSET NodeId /\ open \in SUBSET NodeId
    OBVIOUS
  <2> HIDE DEF new, open
  <2>2. Cardinality(new) \in Nat /\ Cardinality(open) \in Nat /\ Cardinality(NodeId) \in Nat
    BY <2>1, FiniteNodeIds, FS_Subset, FS_CardinalityType
  <2>3. Cardinality(new) + Cardinality(open) \in Nat
    BY <2>2
  <2> QED
    BY <2>2, <2>3 DEF new, open
<1>15. VisitsLeft = visits + (Cardinality(NodeId) - Len(frames)) /\ visits' = visits
       /\ VisitsLeft' = visits + (Cardinality(NodeId) - Len(frames'))
  BY <1>8 DEF VisitsLeft
<1> HIDE DEF visits
<1>16. CASE d \in dirty
  <2>1. VisitsLeft' < VisitsLeft
    BY <1>3, <1>9, <1>14, <1>15, <1>16
  <2> QED
    BY <1>10, <1>11, <1>13, <2>1 DEF Descends
<1>17. CASE d \notin dirty
  <2>1. VisitsLeft' = VisitsLeft
    BY <1>9, <1>15, <1>17
  <2>2. Last(frames') = caller
    BY <1>9, <1>17 DEF Last
  <2>3. Last(frames').rest = Last(frames).rest \ {d}
    BY <2>2 DEF caller
  <2>4. IsFiniteSet(Last(frames).rest)
    BY <1>4, FiniteNodeIds, FS_Subset
  <2>5. /\ Cardinality(Last(frames).rest) \in Nat
        /\ Cardinality(Last(frames').rest) = Cardinality(Last(frames).rest) - 1
    BY <1>2, <2>3, <2>4, FS_RemoveElement, FS_CardinalityType
  <2>6. stack \in Seq(NodeId) /\ Len(stack) \in Nat
    BY WalkTypes
  <2>7. EntriesLeft' < EntriesLeft
    BY <1>2, <1>8, <1>12, <2>5, <2>6 DEF EntriesLeft
  <2> QED
    BY <1>10, <1>11, <1>13, <2>1, <2>7 DEF Descends
<1> QED
  BY <1>16, <1>17

\* The last activation to return ends the walk; the others leave a clean node.
LEMMA ComputeReturningDescends ==
    ASSUME IInv, CInv, ComputeReturning
    PROVE  Descends
<1>1. /\ frames # << >> /\ frames' = Front(frames) /\ UNCHANGED <<stack, dirtyLeaves, callVars>>
      /\ dirty' = dirty \ {Last(frames).node}
  BY DEF ComputeReturning, ComputeValue
<1>2. /\ frames \in Seq(Frame) /\ stack = << >>
      /\ Len(frames) \in Nat /\ Len(frames) > 0 /\ Last(frames) = frames[Len(frames)]
      /\ Front(frames) \in Seq(Frame) /\ Len(Front(frames)) = Len(frames) - 1
  BY <1>1, WalkTypes, FrontElements, FrontType DEF CInv, WalksSound, OneWalk
<1>3. Last(frames).node \in dirty
  BY <1>2 DEF CInv, WalksSound, FramesSound
<1>4. DirtyLeft' < DirtyLeft
  BY <1>1, <1>3, FewerDirty
<1>5. CallsLeft' = CallsLeft /\ LeavesLeft' = LeavesLeft
  BY <1>1, SameCall
<1>6. WalksLeft = 1
  BY <1>1 DEF WalksLeft, WalkDone
<1>7. WalksLeft' = 0 \/ WalksLeft' = 1
  BY DEF WalksLeft
<1> QED
  BY <1>4, <1>5, <1>6, <1>7 DEF Descends

\* The next leaf of a sweep.
LEMMA EvaluateLeafDescends ==
    ASSUME IInv, EvaluateLeaf
    PROVE  Descends
<1>1. call' = call /\ dirtyLeaves' = dirtyLeaves /\ position' = position + 1
  BY DEF EvaluateLeaf
<1>2. Len(dirtyLeaves) \in Nat /\ position \in Nat
  BY DEF IInv, TypeOK
<1>3. CallsLeft' = CallsLeft
  BY <1>1 DEF CallsLeft
<1>4. LeavesLeft' < LeavesLeft
  BY <1>1, <1>2 DEF LeavesLeft
<1> QED
  BY <1>3, <1>4 DEF Descends

\* A call that returns or ends the process is over.
LEMMA CallEnds ==
    ASSUME IInv, ReturnNodeValue \/ ReturnEvaluate \/ ComputeAborts \/ EvaluateLeafAborts
    PROVE  Descends
<1>1. call' \in {"none", "aborted"}
  BY DEF ReturnNodeValue, ReturnEvaluate, ComputeAborts, EvaluateLeafAborts, Abort
<1>2. call \in {"getNodeValue", "evaluate"}
  <2>1. CASE ComputeAborts
    <3>1. ~WalkDone
      BY <2>1 DEF ComputeAborts, WalkDone
    <3> QED
      BY <3>1 DEF IInv, TypeOK, IdleRests
  <2> QED
    BY <2>1 DEF ReturnNodeValue, ReturnEvaluate, EvaluateLeafAborts
<1>3. CallsLeft = 1 /\ CallsLeft' = 0
  BY <1>1, <1>2 DEF CallsLeft
<1> QED
  BY <1>3 DEF Descends

\* Each step of a running call, in whichever walk, leaves less to do than it
\* found, in an order in which nothing can get smaller for ever: with the
\* fairness of FairSpec, every read and every sweep ends.
THEOREM StepsAlwaysDescend == Spec => StepsDescend
<1>1. IInv /\ CInv => Counted
  BY CountedInState
<1>2. ASSUME IInv, CInv, Counted, IInv', Counted', ExecutorStep
      PROVE  Remaining' \in [1 .. 6 -> Nat] /\ Below(Remaining', Remaining)
  <2>1. Descends
    BY <1>2, PopVisitedDescends, VisitCleanDescends, VisitDirtyDescends, ComputeVisitingDescends,
       CallDependencyDescends, ComputeReturningDescends, EvaluateLeafDescends, CallEnds
       DEF ExecutorStep
  <2> QED
    BY <1>2, <2>1, DescendsBelow
<1>3. IInv /\ CInv /\ Counted /\ IInv' /\ Counted' =>
         [ExecutorStep => Remaining' \in [1 .. 6 -> Nat] /\ Below(Remaining', Remaining)]_vars
  BY <1>2
<1> QED
  BY CacheInvariance, <1>1, <1>3, PTL DEF StepsDescend
=============================================================================
