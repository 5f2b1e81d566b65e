------------------------ MODULE GraphExecutionProofs ------------------------
(***************************************************************************)
(* For every loadable graph and every backend.  The release plan is safe:  *)
(* what a pass frees after a node, nobody reads later.  The execution of a *)
(* pass leaves no operator behind that it deferred to a later one.  And    *)
(* over all passes of a context the program builds (CasesServed) every     *)
(* buffer has one owner and every value survives for who still needs it.   *)
(***************************************************************************)
EXTENDS GraphExecution, WellFoundedInduction, NaturalsInduction, SequenceTheorems, TLAPS

-----------------------------------------------------------------------------
(* The inductive invariant: what each of the four loops has established for *)
(* the nodes behind its cursor.                                            *)

Counted(j) == \A x \in UsesOf(j) : lastUse[x] >= j
OutlivesView(v) == Borrows(v) => lastUse[Source(v)] >= lastUse[v]
KeptWithView(v) == Borrows(v) /\ v \in keep => Source(v) \in keep
HeldByState == \A j \in Nodes : Stateful(j) => HeldInputs(j) \union HeldOutput(j) \subseteq keep

Past(s) == s \in {"lifetimes", "protect", "retention"} \/ (s = "ready" /\ reclaims)
UsesCounted ==
    /\ stage = "uses" => \A j \in 1 .. (cursor - 1) : Counted(j)
    /\ Past(stage) => \A j \in Nodes : Counted(j)
LifetimesLengthened ==
    /\ stage = "lifetimes" => \A v \in (cursor + 1) .. Len(graph.ops) : OutlivesView(v)
    /\ stage \in {"protect", "retention"} \/ (stage = "ready" /\ reclaims) =>
           \A v \in Nodes : OutlivesView(v)
SourcesRetained ==
    /\ stage = "retention" =>
           HeldByState /\ \A v \in (cursor + 1) .. Len(graph.ops) : KeptWithView(v)
    /\ stage = "ready" /\ reclaims => HeldByState /\ \A v \in Nodes : KeptWithView(v)
PlanInv ==
    /\ PlanTypeOK
    /\ graph.outs \subseteq keep
    /\ UsesCounted /\ LifetimesLengthened /\ SourcesRetained
    /\ stage = "inspect" => cursor = 1
    /\ stage = "protect" => cursor = Len(graph.ops)

-----------------------------------------------------------------------------
(* What graph_load guarantees. *)

LEMMA Loaded ==
    ASSUME PlanTypeOK
    PROVE  /\ Len(graph.ops) \in Nat /\ Len(graph.ops) >= 1
           /\ Nodes = 1 .. Len(graph.ops)
           /\ graph.outs \subseteq Nodes
           /\ \A i \in Nodes : \A x \in Reads(i) : x \in 1 .. (i - 1)
           /\ \A i \in Nodes : Borrows(i) => Source(i) \in Reads(i)
<1>1. WellFormed(graph)
  BY CasesAssumption DEF PlanTypeOK
<1>2. Nodes = 1 .. Len(graph.ops) /\ Len(graph.ops) \in Nat
  BY <1>1 DEF WellFormed, Nodes
<1>3. Len(graph.ops) >= 1
  BY <1>1, <1>2 DEF WellFormed
<1>4. ASSUME NEW i \in Nodes, Borrows(i) PROVE Source(i) \in Reads(i)
  <2>1. graph.ins[i] \in Seq(Nat) /\ graph.ins[i] # <<>>
    BY <1>1, <1>4 DEF WellFormed, Nodes, Borrows
  <2>2. 1 \in DOMAIN graph.ins[i]
    BY <2>1
  <2> QED
    BY <2>2 DEF Source, Reads
<1>5. \A i \in Nodes : \A x \in Reads(i) : x \in 1 .. (i - 1)
  BY <1>1 DEF WellFormed, Nodes, Reads
<1>6. graph.outs \subseteq Nodes
  BY <1>1 DEF WellFormed, Nodes
<1> QED
  BY <1>2, <1>3, <1>4, <1>5, <1>6

LEMMA SourceBelow ==
    ASSUME PlanTypeOK, NEW i \in Nodes, Borrows(i)
    PROVE  Source(i) \in Nodes /\ Source(i) < i
<1>1. Source(i) \in 1 .. (i - 1) /\ i \in 1 .. Len(graph.ops) /\ Nodes = 1 .. Len(graph.ops)
  BY Loaded
<1> QED
  BY <1>1, Loaded

LEMMA HeldAreNodes ==
    ASSUME PlanTypeOK, NEW i \in Nodes
    PROVE  HeldOutput(i) \union HeldInputs(i) \subseteq Nodes
<1>1. \A x \in Reads(i) : x \in Nodes
  BY Loaded
<1> QED
  BY <1>1 DEF HeldOutput, HeldInputs

-----------------------------------------------------------------------------
(* Every step of a loop. *)

LEMMA PlanInitInv == PlanInit => PlanInv
<1> SUFFICES ASSUME PlanInit PROVE PlanInv
  OBVIOUS
<1>1. PICK c \in Cases : graph = c.graph /\ setup = c.setup /\ stage = "inspect" /\ cursor = 1
        /\ lastUse = [i \in DOMAIN c.graph.ops |-> 0] /\ keep = c.graph.outs /\ reclaims = FALSE
  BY DEF PlanInit
<1>2. WellFormed(graph)
  BY <1>1, CasesAssumption
<1>3. Len(graph.ops) \in Nat /\ Len(graph.ops) >= 1 /\ Nodes = 1 .. Len(graph.ops)
  BY <1>2 DEF WellFormed, Nodes
<1>4. PlanTypeOK
  <2>1. lastUse = [i \in Nodes |-> 0] /\ keep \subseteq Nodes
    BY <1>1, <1>2 DEF WellFormed, Nodes
  <2>2. lastUse \in [Nodes -> 0 .. Len(graph.ops)] /\ cursor \in Nodes
    BY <1>1, <1>3, <2>1
  <2> QED
    BY <1>1, <2>1, <2>2 DEF PlanTypeOK
<1> QED
  BY <1>1, <1>4 DEF PlanInv, UsesCounted, LifetimesLengthened, SourcesRetained, Past

LEMMA InspectInv ==
    ASSUME PlanInv, Inspect
    PROVE  PlanInv'
<1>1. PlanTypeOK'
  BY DEF PlanInv, PlanTypeOK, Inspect, Nodes
<1>2. stage' = "uses" \/ (stage' = "ready" /\ ~reclaims')
  BY DEF Inspect
<1>3. cursor' = 1 /\ UNCHANGED <<graph, lastUse, keep>>
  BY DEF PlanInv, Inspect
<1>4. \A j \in 1 .. (cursor' - 1) : FALSE
  BY <1>3
<1> QED
  BY <1>1, <1>2, <1>3, <1>4 DEF PlanInv, UsesCounted, LifetimesLengthened, SourcesRetained, Past

LEMMA CountUsesInv ==
    ASSUME PlanInv, CountUses
    PROVE  PlanInv'
<1>1. /\ PlanTypeOK /\ stage = "uses" /\ UNCHANGED <<graph, setup, keep, reclaims>>
      /\ cursor \in Nodes /\ lastUse \in [Nodes -> 0 .. Len(graph.ops)]
  BY DEF PlanInv, PlanTypeOK, CountUses
<1>2. Nodes = 1 .. Len(graph.ops) /\ Nodes' = Nodes /\ Len(graph.ops) \in Nat
  BY <1>1, Loaded DEF Nodes
<1>3. lastUse' = [x \in Nodes |->
           IF x \in UsesOf(cursor) THEN Larger(lastUse[x], cursor) ELSE lastUse[x]]
  BY DEF CountUses
<1>4. lastUse' \in [Nodes -> 0 .. Len(graph.ops)]
  <2>1. ASSUME NEW x \in Nodes PROVE lastUse'[x] \in 0 .. Len(graph.ops)
    BY <1>1, <1>2, <1>3 DEF Larger
  <2> QED
    BY <1>3, <2>1
<1>5. \A x \in Nodes : lastUse'[x] >= lastUse[x]
  BY <1>1, <1>2, <1>3 DEF Larger
<1>6. \A x \in UsesOf(cursor) : x \in Nodes /\ lastUse'[x] >= cursor
  <2>1. \A x \in UsesOf(cursor) : x \in Nodes
    BY <1>1, <1>2, Loaded DEF UsesOf
  <2> QED
    BY <1>1, <1>2, <1>3, <2>1 DEF Larger
<1>7. \A j \in 1 .. cursor : Counted(j)'
  <2> SUFFICES ASSUME NEW j \in 1 .. cursor PROVE Counted(j)'
    OBVIOUS
  <2>1. UsesOf(j)' = UsesOf(j)
    BY <1>1 DEF UsesOf, Reads
  <2>2. CASE j = cursor
    BY <1>6, <2>1, <2>2 DEF Counted
  <2>3. CASE j # cursor
    <3>1. j \in 1 .. (cursor - 1) /\ j \in Nodes
      BY <1>1, <1>2, <2>3
    <3>2. Counted(j)
      BY <1>1, <3>1 DEF PlanInv, UsesCounted
    <3>3. \A x \in UsesOf(j) : x \in Nodes
      BY <1>1, <1>2, <3>1, Loaded DEF UsesOf
    <3> QED
      BY <1>1, <1>2, <1>4, <1>5, <2>1, <3>1, <3>2, <3>3 DEF Counted
  <2> QED
    BY <2>2, <2>3
<1>8. CASE cursor = Len(graph.ops)
  <2>1. stage' = "lifetimes" /\ cursor' = cursor
    BY <1>8 DEF CountUses
  <2>2. PlanTypeOK'
    BY <1>1, <1>2, <1>4, <2>1 DEF PlanTypeOK
  <2>3. \A v \in (cursor' + 1) .. Len(graph.ops)' : FALSE
    BY <1>1, <1>2, <1>8, <2>1
  <2> QED
    BY <1>1, <1>2, <1>7, <1>8, <2>1, <2>2, <2>3
    DEF PlanInv, UsesCounted, LifetimesLengthened, SourcesRetained, Past
<1>9. CASE cursor # Len(graph.ops)
  <2>1. stage' = stage /\ cursor' = cursor + 1
    BY <1>9 DEF CountUses
  <2>2. PlanTypeOK'
    BY <1>1, <1>2, <1>4, <1>9, <2>1 DEF PlanTypeOK
  <2>3. 1 .. (cursor' - 1) = 1 .. cursor
    BY <1>1, <1>2, <2>1
  <2> QED
    BY <1>1, <1>2, <1>7, <2>1, <2>2, <2>3
    DEF PlanInv, UsesCounted, LifetimesLengthened, SourcesRetained, Past
<1> QED
  BY <1>8, <1>9

LEMMA LengthenInv ==
    ASSUME PlanInv, Lengthen
    PROVE  PlanInv'
<1>1. /\ PlanTypeOK /\ stage = "lifetimes" /\ UNCHANGED <<graph, setup, keep, reclaims>>
      /\ cursor \in Nodes /\ lastUse \in [Nodes -> 0 .. Len(graph.ops)]
  BY DEF PlanInv, PlanTypeOK, Lengthen
<1>2. Nodes = 1 .. Len(graph.ops) /\ Nodes' = Nodes /\ Len(graph.ops) \in Nat
  BY <1>1, Loaded DEF Nodes
<1>3. lastUse' = Lengthened(cursor)
  BY DEF Lengthen
<1>4. Borrows(cursor) => Source(cursor) \in Nodes /\ Source(cursor) < cursor
  BY <1>1, SourceBelow
<1>5. lastUse' \in [Nodes -> 0 .. Len(graph.ops)]
  BY <1>1, <1>2, <1>3, <1>4 DEF Lengthened, Larger
<1>6. \A x \in Nodes : lastUse'[x] >= lastUse[x]
  BY <1>1, <1>2, <1>3, <1>4 DEF Lengthened, Larger
<1>7. \A x \in Nodes : x >= cursor => lastUse'[x] = lastUse[x]
  BY <1>1, <1>2, <1>3, <1>4 DEF Lengthened, Larger
<1>8. \A j \in Nodes : Counted(j)'
  <2> SUFFICES ASSUME NEW j \in Nodes PROVE Counted(j)'
    BY <1>2
  <2>1. UsesOf(j)' = UsesOf(j) /\ Counted(j)
    BY <1>1 DEF UsesOf, Reads, PlanInv, UsesCounted, Past
  <2>2. \A x \in UsesOf(j) : x \in Nodes
    BY <1>1, <1>2, Loaded DEF UsesOf
  <2> QED
    BY <1>1, <1>2, <1>5, <1>6, <2>1, <2>2 DEF Counted
<1>9. \A v \in cursor .. Len(graph.ops) : OutlivesView(v)'
  <2> SUFFICES ASSUME NEW v \in cursor .. Len(graph.ops), Borrows(v)
               PROVE  lastUse'[Source(v)] >= lastUse'[v]
    BY <1>1 DEF OutlivesView, Borrows, ViewLike, Op, OnDevice, Source
  <2>1. v \in Nodes /\ v >= cursor
    BY <1>1, <1>2
  <2>2. Source(v) \in Nodes
    BY <1>1, <2>1, SourceBelow
  <2>3. lastUse'[v] = lastUse[v]
    BY <1>7, <2>1
  <2>4. CASE v = cursor
    BY <1>1, <1>2, <1>3, <2>2, <2>3, <2>4 DEF Lengthened, Larger
  <2>5. CASE v # cursor
    <3>1. v \in (cursor + 1) .. Len(graph.ops)
      BY <1>1, <1>2, <2>5
    <3>2. lastUse[Source(v)] >= lastUse[v]
      BY <1>1, <3>1 DEF PlanInv, LifetimesLengthened, OutlivesView
    <3> QED
      BY <1>1, <1>2, <1>5, <1>6, <2>1, <2>2, <2>3, <3>2
  <2> QED
    BY <2>4, <2>5
<1>10. CASE cursor = 1
  <2>1. stage' = "protect" /\ cursor' = Len(graph.ops)
    BY <1>10 DEF Lengthen
  <2>2. PlanTypeOK'
    BY <1>1, <1>2, <1>5, <1>10, <2>1 DEF PlanTypeOK
  <2>3. cursor .. Len(graph.ops) = Nodes
    BY <1>2, <1>10
  <2> QED
    BY <1>1, <1>2, <1>8, <1>9, <2>1, <2>2, <2>3
    DEF PlanInv, UsesCounted, LifetimesLengthened, SourcesRetained, Past
<1>11. CASE cursor # 1
  <2>1. stage' = stage /\ cursor' = cursor - 1
    BY <1>11 DEF Lengthen
  <2>2. PlanTypeOK'
    BY <1>1, <1>2, <1>5, <1>11, <2>1 DEF PlanTypeOK
  <2>3. (cursor' + 1) .. Len(graph.ops)' = cursor .. Len(graph.ops)
    BY <1>1, <1>2, <2>1
  <2> QED
    BY <1>1, <1>2, <1>8, <1>9, <2>1, <2>2, <2>3
    DEF PlanInv, UsesCounted, LifetimesLengthened, SourcesRetained, Past
<1> QED
  BY <1>10, <1>11

LEMMA ProtectInv ==
    ASSUME PlanInv, Protect
    PROVE  PlanInv'
<1>1. /\ PlanTypeOK /\ stage = "protect" /\ stage' = "retention"
      /\ cursor = Len(graph.ops) /\ UNCHANGED <<graph, setup, cursor, lastUse, reclaims>>
  BY DEF PlanInv, Protect
<1>2. keep' = keep \union
          UNION {HeldOutput(i) \union HeldInputs(i) : i \in {n \in Nodes : Stateful(n)}}
  BY DEF Protect
<1>3. Nodes = 1 .. Len(graph.ops) /\ Nodes' = Nodes /\ Len(graph.ops) \in Nat
  BY <1>1, Loaded DEF Nodes
<1>4. \A i \in Nodes : HeldOutput(i) \union HeldInputs(i) \subseteq Nodes
  BY <1>1, HeldAreNodes
<1>5. keep' \subseteq Nodes
  BY <1>1, <1>2, <1>4 DEF PlanTypeOK
<1>6. PlanTypeOK'
  BY <1>1, <1>3, <1>5 DEF PlanTypeOK
<1>7. \A i \in Nodes : Stateful(i) => HeldInputs(i) \union HeldOutput(i) \subseteq keep'
  BY <1>2
<1>8. HeldByState'
  BY <1>1, <1>3, <1>7 DEF HeldByState, Stateful, HeldInputs, HeldOutput, Reads, Op
<1>9. \A j \in Nodes : Counted(j)' /\ OutlivesView(j)'
  <2> SUFFICES ASSUME NEW j \in Nodes PROVE Counted(j)' /\ OutlivesView(j)'
    OBVIOUS
  <2>1. Counted(j) /\ OutlivesView(j)
    BY <1>1 DEF PlanInv, UsesCounted, LifetimesLengthened, Past
  <2> QED
    BY <1>1, <2>1 DEF Counted, OutlivesView, UsesOf, Reads, Borrows, ViewLike, Op, OnDevice, Source
<1>10. \A v \in (cursor' + 1) .. Len(graph.ops)' : FALSE
  BY <1>1, <1>3
<1>11. graph.outs \subseteq keep'
  BY <1>2 DEF PlanInv
<1> QED
  BY <1>1, <1>3, <1>6, <1>8, <1>9, <1>10, <1>11
  DEF PlanInv, UsesCounted, LifetimesLengthened, SourcesRetained, Past

LEMMA RetainInv ==
    ASSUME PlanInv, Retain
    PROVE  PlanInv'
<1>1. /\ PlanTypeOK /\ stage = "retention" /\ UNCHANGED <<graph, setup, lastUse, reclaims>>
      /\ cursor \in Nodes /\ keep' = Retained(cursor)
  BY DEF PlanInv, PlanTypeOK, Retain
<1>2. Nodes = 1 .. Len(graph.ops) /\ Nodes' = Nodes /\ Len(graph.ops) \in Nat
  BY <1>1, Loaded DEF Nodes
<1>3. Borrows(cursor) => Source(cursor) \in Nodes /\ Source(cursor) < cursor
  BY <1>1, SourceBelow
<1>4. keep \subseteq keep' /\ keep' \subseteq Nodes
  BY <1>1, <1>3 DEF Retained, PlanTypeOK
<1>5. \A x \in Nodes : x >= cursor /\ x \in keep' => x \in keep
  BY <1>1, <1>2, <1>3 DEF Retained
<1>6. HeldByState'
  <2>1. HeldByState
    BY <1>1 DEF PlanInv, SourcesRetained
  <2>2. \A i \in Nodes : Stateful(i) => HeldInputs(i) \union HeldOutput(i) \subseteq keep'
    BY <1>4, <2>1 DEF HeldByState
  <2> QED
    BY <1>1, <1>2, <2>2 DEF HeldByState, Stateful, HeldInputs, HeldOutput, Reads, Op
<1>7. \A j \in Nodes : Counted(j)' /\ OutlivesView(j)'
  <2> SUFFICES ASSUME NEW j \in Nodes PROVE Counted(j)' /\ OutlivesView(j)'
    OBVIOUS
  <2>1. Counted(j) /\ OutlivesView(j)
    BY <1>1 DEF PlanInv, UsesCounted, LifetimesLengthened, Past
  <2> QED
    BY <1>1, <2>1 DEF Counted, OutlivesView, UsesOf, Reads, Borrows, ViewLike, Op, OnDevice, Source
<1>8. \A v \in cursor .. Len(graph.ops) : KeptWithView(v)'
  <2> SUFFICES ASSUME NEW v \in cursor .. Len(graph.ops), Borrows(v), v \in keep'
               PROVE  Source(v) \in keep'
    BY <1>1 DEF KeptWithView, Borrows, ViewLike, Op, OnDevice, Source
  <2>1. v \in Nodes /\ v >= cursor /\ v \in keep
    BY <1>1, <1>2, <1>5
  <2>2. CASE v = cursor
    BY <1>1, <2>1, <2>2 DEF Retained
  <2>3. CASE v # cursor
    <3>1. v \in (cursor + 1) .. Len(graph.ops)
      BY <1>1, <1>2, <2>3
    <3> QED
      BY <1>1, <1>4, <2>1, <3>1 DEF PlanInv, SourcesRetained, KeptWithView
  <2> QED
    BY <2>2, <2>3
<1>9. graph.outs \subseteq keep'
  BY <1>4 DEF PlanInv
<1>10. CASE cursor = 1
  <2>1. stage' = "ready" /\ cursor' = cursor
    BY <1>10 DEF Retain
  <2>2. PlanTypeOK'
    BY <1>1, <1>2, <1>4, <2>1 DEF PlanTypeOK
  <2>3. cursor .. Len(graph.ops) = Nodes
    BY <1>2, <1>10
  <2> QED
    BY <1>1, <1>2, <1>6, <1>7, <1>8, <1>9, <2>1, <2>2, <2>3
    DEF PlanInv, UsesCounted, LifetimesLengthened, SourcesRetained, Past
<1>11. CASE cursor # 1
  <2>1. stage' = stage /\ cursor' = cursor - 1
    BY <1>11 DEF Retain
  <2>2. PlanTypeOK'
    BY <1>1, <1>2, <1>4, <1>11, <2>1 DEF PlanTypeOK
  <2>3. (cursor' + 1) .. Len(graph.ops)' = cursor .. Len(graph.ops)
    BY <1>1, <1>2, <2>1
  <2> QED
    BY <1>1, <1>2, <1>6, <1>7, <1>8, <1>9, <2>1, <2>2, <2>3
    DEF PlanInv, UsesCounted, LifetimesLengthened, SourcesRetained, Past
<1> QED
  BY <1>10, <1>11

LEMMA PlanStutterInv ==
    ASSUME PlanInv, UNCHANGED planVars
    PROVE  PlanInv'
  BY DEF planVars, PlanInv, PlanTypeOK, UsesCounted, LifetimesLengthened, SourcesRetained,
         HeldByState, Counted, OutlivesView, KeptWithView, UsesOf, HeldInputs, HeldOutput,
         Stateful, Borrows, ViewLike, Source, Reads, Op, OnDevice, Nodes, Past

-----------------------------------------------------------------------------
(* The results. *)

LEMMA StepsOfThePlan == Next => PlanNext \/ UNCHANGED planVars
  BY DEF Next, Prepare, BindInputs, BeginWhole, BeginStopped, BeginSegment, Begin, PassInput,
         DeferNode, RunNode, FailNode, EndPass, Resume, Abandon, Finish, ReleaseBuffers

LEMMA InvariantSpares == PlanInv => PlanSparesReaders
<1> SUFFICES ASSUME PlanInv, stage = "ready", NEW i \in Nodes, Released(i)
             PROVE  /\ i \notin graph.outs
                    /\ lastUse[i] >= i
                    /\ \A j \in Nodes :
                           /\ i \in Reads(j) => lastUse[i] >= j
                           /\ Borrows(j) /\ Source(j) = i =>
                                  Released(j) /\ lastUse[i] >= lastUse[j]
                           /\ Stateful(j) => i \notin HeldInputs(j) \union HeldOutput(j)
  BY DEF PlanSparesReaders
<1>1. reclaims /\ i \notin keep
  BY DEF Released
<1>2. HeldByState /\ \A v \in Nodes : Counted(v) /\ OutlivesView(v) /\ KeptWithView(v)
  BY <1>1 DEF PlanInv, UsesCounted, LifetimesLengthened, SourcesRetained, Past
<1>3. i \notin graph.outs
  BY <1>1 DEF PlanInv
<1>4. lastUse[i] >= i
  BY <1>2 DEF Counted, UsesOf
<1>5. ASSUME NEW j \in Nodes, i \in Reads(j) PROVE lastUse[i] >= j
  BY <1>2, <1>5 DEF Counted, UsesOf
<1>6. ASSUME NEW j \in Nodes, Borrows(j), Source(j) = i
      PROVE  Released(j) /\ lastUse[i] >= lastUse[j]
  <2>1. j \notin keep /\ lastUse[i] >= lastUse[j]
    BY <1>1, <1>2, <1>6 DEF KeptWithView, OutlivesView
  <2>2. Op(j) \notin BoundOps
    BY <1>6 DEF Borrows, ViewLike, ViewOps, BoundOps
  <2> QED
    BY <1>1, <2>1, <2>2 DEF Released
<1>7. ASSUME NEW j \in Nodes, Stateful(j)
      PROVE  i \notin HeldInputs(j) \union HeldOutput(j)
  BY <1>1, <1>2, <1>7 DEF HeldByState
<1> QED
  BY <1>3, <1>4, <1>5, <1>6, <1>7

LEMMA PlanInvariant == Spec => []PlanInv
<1>1. Init => PlanInv
  BY PlanInitInv DEF Init
<1>2. PlanInv /\ [Next]_vars => PlanInv'
  <2> SUFFICES ASSUME PlanInv, [Next]_vars PROVE PlanInv'
    OBVIOUS
  <2>1. PlanNext \/ UNCHANGED planVars
    BY StepsOfThePlan DEF vars
  <2>2. CASE PlanNext
    BY <2>2, InspectInv, CountUsesInv, LengthenInv, ProtectInv, RetainInv DEF PlanNext
  <2>3. CASE UNCHANGED planVars
    BY <2>3, PlanStutterInv
  <2> QED
    BY <2>1, <2>2, <2>3
<1> QED
  BY <1>1, <1>2, PTL DEF Spec

(***************************************************************************)
(* For every graph that loads, on every backend and whatever passes run,   *)
(* prepare_execution's queue never frees what a later node, a view or a    *)
(* stateful operator still needs.                                          *)
(***************************************************************************)
THEOREM PlanIsSafe == Spec => []PlanSparesReaders
  BY PlanInvariant, InvariantSpares, PTL

(***************************************************************************)
(* The plan stays what a plan is: last uses and retained nodes are nodes   *)
(* of the graph that was loaded.                                           *)
(***************************************************************************)
THEOREM PlanTypeCorrect == Spec => []PlanTypeOK
<1>1. PlanInv => PlanTypeOK
  BY DEF PlanInv
<1> QED
  BY <1>1, PlanInvariant, PTL

(***************************************************************************)
(* A pass never changes the plan: execution implements the planning loops. *)
(***************************************************************************)
THEOREM ExecutionFollowsPlan == Spec => PlanSpec
<1>1. Init => PlanInit
  BY DEF Init
<1>2. [Next]_vars => [PlanNext]_planVars
  BY StepsOfThePlan DEF vars
<1> QED
  BY <1>1, <1>2, PTL DEF Spec, PlanSpec

-----------------------------------------------------------------------------
(***************************************************************************)
(* Deferred producers.  At most one chain waits at a time, it is as long   *)
(* as the steps since its first node, and its consumer lies within the     *)
(* call; every other node behind the cursor has been computed.             *)
(***************************************************************************)
DoneBut(S) == \A i \in 1 .. (pos - 1) : i \in computed \union S

NothingAwaited == waiting = NoneWaiting /\ DoneBut({})
UpAwaited(u) ==
    /\ UpPlanned(u + 2) /\ u + 2 <= last
    /\ \/ /\ waiting = [gate |-> 0, up |-> u, inject |-> 0, moe |-> 0]
          /\ pos = u + 1 /\ DoneBut({u})
       \/ /\ waiting = [gate |-> u + 1, up |-> u, inject |-> 0, moe |-> 0]
          /\ pos = u + 2 /\ DoneBut({u, u + 1})
GateAwaited(g) ==
    /\ GatePlanned(g + 1) /\ g + 1 <= last
    /\ waiting = [gate |-> g, up |-> 0, inject |-> 0, moe |-> 0]
    /\ pos = g + 1 /\ DoneBut({g})
MoeAwaited(m, c) ==
    /\ MoePlanned(m, c) /\ c <= last
    /\ waiting = [gate |-> 0, up |-> 0, inject |-> 0, moe |-> m]
    /\ mode = "whole" /\ FusionOn /\ rows > 1
    /\ pos = m + 1 /\ DoneBut({m})
InjectAwaited(p, m, c) ==
    /\ InjectPlanned(p, c) /\ c <= last
    /\ m = 0 \/ m = p - 1
    /\ waiting = [gate |-> 0, up |-> 0, inject |-> p, moe |-> m]
    /\ pos \in (p + 1) .. c /\ DoneBut({p, m})

RunInv ==
    /\ pos \in Nat \ {0} /\ last \in Nat /\ last <= Len(graph.ops)
    /\ mode \in {"whole", "stop", "segment"}
    /\ mode = "whole" => last = Len(graph.ops)
    /\ \/ NothingAwaited
       \/ \E u \in Nodes : UpAwaited(u)
       \/ \E g \in Nodes : GateAwaited(g)
       \/ \E m, c \in Nodes : MoeAwaited(m, c)
       \/ \E p, c \in Nodes, m \in Nodes \union {0} : InjectAwaited(p, m, c)

DeferInv ==
    /\ rows \in Nat
    /\ phase \in {"bound", "run", "suspended"} => \A i \in Nodes : Bound(i) => i \in computed
    /\ phase = "run" => RunInv
    /\ phase = "suspended" => mode = "segment" /\ pos \in Nat \ {0} /\ DoneBut({})
    /\ phase = "over" /\ ~failed => DoneBut({})

LEMMA LeastExists ==
    ASSUME NEW S, S \subseteq Nat, S # {}
    PROVE  Least(S) \in S /\ \A n \in S : Least(S) <= n
<1>1. PICK R : R = OpToRel(<, Nat)
  OBVIOUS
<1>2. IsWellFoundedOn(R, Nat)
  BY <1>1, NatLessThanWellFounded
<1>3. \A x, y \in Nat : x < y => <<x, y>> \in R
  BY <1>1 DEF OpToRel
<1>4. PICK n \in S : \A m \in S : ~(<<m, n>> \in R)
  BY <1>2, WFMin
<1>5. \A m \in S : n <= m
  <2> SUFFICES ASSUME NEW m \in S PROVE n <= m
    OBVIOUS
  <2>1. ~(m < n) /\ m \in Nat /\ n \in Nat
    BY <1>3, <1>4
  <2> QED
    BY <2>1
<1> QED
  BY <1>4, <1>5 DEF Least

(* What each plan says of the operators in the chain. *)
LEMMA GateShape ==
    ASSUME PlanTypeOK, NEW c, GatePlanned(c)
    PROVE  c \in Nodes /\ c > 1 /\ Op(c) = "reduce" /\ Op(c - 1) = "sigmoid"
  BY DEF GatePlanned

LEMMA UpShape ==
    ASSUME PlanTypeOK, NEW c, UpPlanned(c)
    PROVE  c \in Nodes /\ c > 2 /\ Op(c) = "reduce" /\ Op(c - 1) = "sigmoid" /\ Op(c - 2) = "matmul"
  BY DEF UpPlanned, GatePlanned

LEMMA InjectShape ==
    ASSUME PlanTypeOK, NEW p, NEW c, InjectPlanned(p, c)
    PROVE  /\ p \in Nodes /\ c \in Nodes /\ p < c
           /\ Op(p) = "inject" /\ Op(c) = "rms" /\ ~Bound(c)
           /\ \A d \in Nodes : p < d /\ d < c => Bound(d)
<1> DEFINE later == {d \in Nodes : d > p /\ ~Bound(d)}
<1>1. p \in Nodes /\ Op(p) = "inject" /\ c = NextComputed(p) /\ c # 0 /\ Op(c) = "rms"
  BY DEF InjectPlanned
<1>2. Nodes = 1 .. Len(graph.ops) /\ Len(graph.ops) \in Nat
  BY Loaded
<1>3. later # {} /\ c = Least(later)
  BY <1>1 DEF NextComputed
<1>4. later \subseteq Nat
  BY <1>2
<1> HIDE DEF later
<1>5. c \in later /\ \A d \in later : c <= d
  BY <1>3, <1>4, LeastExists
<1> USE DEF later
<1>6. ASSUME NEW d \in Nodes, p < d, d < c
      PROVE  Bound(d)
  <2>1. d \in Nat /\ c \in Nat /\ ~(c <= d)
    BY <1>2, <1>5, <1>6
  <2>2. p \in Nat
    BY <1>1, <1>2
  <2> QED
    BY <1>5, <1>6, <2>1, <2>2
<1>7. c \in Nodes /\ p < c /\ ~Bound(c)
  BY <1>1, <1>2, <1>5
<1> QED
  BY <1>1, <1>6, <1>7

LEMMA MoeShape ==
    ASSUME PlanTypeOK, NEW m, NEW c, MoePlanned(m, c)
    PROVE  m \in Nodes /\ Op(m) = "moe" /\ InjectPlanned(m + 1, c)
  BY DEF MoePlanned

(* Nodes of different operators are not deferred for each other's reason. *)
LEMMA DeferralsApart ==
    ASSUME PlanTypeOK, NEW i \in Nodes
    PROVE  /\ DefersUp(i) => Op(i) = "matmul"
           /\ GatePlanned(i + 1) => Op(i) = "sigmoid"
           /\ DefersInject(i) => Op(i) = "inject"
           /\ DefersMoe(i) => Op(i) = "moe"
<1>1. i \in Nat
  BY Loaded
<1>2. ASSUME GatePlanned(i + 1) PROVE Op(i) = "sigmoid"
  <2>1. (i + 1) - 1 = i
    BY <1>1
  <2> QED
    BY <1>2, <2>1 DEF GatePlanned
<1>3. ASSUME DefersUp(i) PROVE Op(i) = "matmul"
  <2>1. (i + 2) - 2 = i
    BY <1>1
  <2> QED
    BY <1>3, <2>1 DEF DefersUp, UpPlanned
<1> QED
  BY <1>2, <1>3 DEF DefersInject, DefersMoe, InjectPlanned, MoePlanned

LEMMA ThreeJoined ==
    ASSUME NEW a \in Nat, NEW b \in Nat, NEW d \in Nat, NEW s, s = <<a>> \o <<b, d>>
    PROVE  Len(s) = 3 /\ {s[n] : n \in 1 .. Len(s)} = {a, b, d}
<1>1. <<a>> \in Seq(Nat) /\ <<b, d>> \in Seq(Nat) /\ Len(<<a>>) = 1 /\ Len(<<b, d>>) = 2
  OBVIOUS
<1>2. PICK x, y \in Seq(Nat) : x = <<a>> /\ y = <<b, d>>
  BY <1>1
<1>3. /\ Len(s) = Len(x) + Len(y)
      /\ \A n \in 1 .. (Len(x) + Len(y)) :
            s[n] = IF n <= Len(x) THEN x[n] ELSE y[n - Len(x)]
  BY <1>2
<1>4. Len(x) = 1 /\ Len(y) = 2 /\ x[1] = a /\ y[1] = b /\ y[2] = d
  BY <1>2
<1>5. Len(s) = 3 /\ s[1] = a /\ s[2] = b /\ s[3] = d
  BY <1>3, <1>4
<1> QED
  BY <1>5

(* A node that is not deferred completes the chain that waits for it. *)
LEMMA ChainCompletes ==
    ASSUME PlanTypeOK, RunInv, AtNode, ~Defers(pos)
    PROVE  \/ NothingAwaited /\ Chain(pos) = <<pos>>
           \/ /\ Len(Chain(pos)) # 1
              /\ \A i \in 1 .. (pos - 1) : i \in computed \union Together(Chain(pos), 1)
              /\ pos \in Together(Chain(pos), 1)
<1>1. pos \in Nodes /\ pos \in Nat /\ ~Bound(pos)
  BY Loaded DEF AtNode, RunInv
<1>2. CASE NothingAwaited
  BY <1>2 DEF NothingAwaited, NoneWaiting, Chain
<1>3. ASSUME NEW u \in Nodes, UpAwaited(u)
      PROVE  /\ Len(Chain(pos)) # 1
             /\ \A i \in 1 .. (pos - 1) : i \in computed \union Together(Chain(pos), 1)
             /\ pos \in Together(Chain(pos), 1)
  <2>1. u \in Nat \ {0}
    BY Loaded
  <2>2. CASE pos = u + 1 /\ waiting = [gate |-> 0, up |-> u, inject |-> 0, moe |-> 0]
    BY <2>1, <2>2 DEF Defers, DefersGate
  <2>3. CASE pos = u + 2 /\ DoneBut({u, u + 1})
               /\ waiting = [gate |-> u + 1, up |-> u, inject |-> 0, moe |-> 0]
    <3>1. Chain(pos) = <<u, u + 1, pos>>
      BY <2>1, <2>3 DEF Chain
    <3>2. Together(Chain(pos), 1) = {u, u + 1, pos} /\ Len(Chain(pos)) = 3
      BY <3>1 DEF Together
    <3> QED
      BY <2>3, <3>2 DEF DoneBut
  <2> QED
    BY <1>3, <2>2, <2>3 DEF UpAwaited
<1>4. ASSUME NEW g \in Nodes, GateAwaited(g)
      PROVE  /\ Len(Chain(pos)) # 1
             /\ \A i \in 1 .. (pos - 1) : i \in computed \union Together(Chain(pos), 1)
             /\ pos \in Together(Chain(pos), 1)
  <2>1. g \in Nat \ {0} /\ pos = g + 1 /\ DoneBut({g})
        /\ waiting = [gate |-> g, up |-> 0, inject |-> 0, moe |-> 0]
    BY <1>4, Loaded DEF GateAwaited
  <2>2. Chain(pos) = <<g, pos>>
    BY <2>1 DEF Chain
  <2>3. Together(Chain(pos), 1) = {g, pos} /\ Len(Chain(pos)) = 2
    BY <2>2 DEF Together
  <2> QED
    BY <2>1, <2>3 DEF DoneBut
<1>5. ASSUME NEW m \in Nodes, NEW c \in Nodes, MoeAwaited(m, c)
      PROVE  FALSE
  <2>1. pos = m + 1 /\ InjectPlanned(pos, c) /\ FusionOn /\ rows > 1 /\ mode = "whole"
    BY <1>5, MoeShape DEF MoeAwaited
  <2>2. DefersInject(pos)
    BY <2>1 DEF DefersInject, Within
  <2> QED
    BY <2>2 DEF Defers
<1>6. ASSUME NEW p \in Nodes, NEW c \in Nodes, NEW m \in Nodes \union {0},
             InjectAwaited(p, m, c)
      PROVE  /\ Len(Chain(pos)) # 1
             /\ \A i \in 1 .. (pos - 1) : i \in computed \union Together(Chain(pos), 1)
             /\ pos \in Together(Chain(pos), 1)
  <2>1. p \in Nat \ {0} /\ m \in Nat /\ c \in Nat
    BY Loaded
  <2>2. InjectPlanned(p, c) /\ pos \in (p + 1) .. c /\ DoneBut({p, m})
        /\ waiting = [gate |-> 0, up |-> 0, inject |-> p, moe |-> m]
    BY <1>6 DEF InjectAwaited
  <2>3. \A d \in Nodes : p < d /\ d < c => Bound(d)
    BY <2>2, InjectShape
  <2>4. pos = c
    BY <1>1, <2>1, <2>2, <2>3
  <2>5. Chain(pos) = (IF m # 0 THEN <<m>> ELSE <<>>) \o <<p, pos>>
    BY <2>1, <2>2, <2>4 DEF Chain
  <2>6. CASE m # 0
    <3>1. Chain(pos) = <<m>> \o <<p, pos>>
      BY <2>5, <2>6
    <3>2. Together(Chain(pos), 1) = {m, p, pos} /\ Len(Chain(pos)) = 3
      BY ONLY <2>1, <1>1, <3>1, ThreeJoined DEF Together
    <3> QED
      BY <2>2, <3>2 DEF DoneBut
  <2>7. CASE m = 0
    <3>1. Chain(pos) = <<p, pos>>
      BY <2>5, <2>7
    <3>2. Together(Chain(pos), 1) = {p, pos} /\ Len(Chain(pos)) = 2
      BY <3>1 DEF Together
    <3>3. \A i \in 1 .. (pos - 1) : i # m
      BY <2>7
    <3> QED
      BY <2>2, <3>2, <3>3 DEF DoneBut
  <2> QED
    BY <2>6, <2>7
<1> QED
  BY <1>2, <1>3, <1>4, <1>5, <1>6 DEF RunInv

(* The node and what waited for it are computed; nothing waits any more. *)
LEMMA RunNodeKeeps ==
    ASSUME PlanTypeOK, DeferInv, RunNode
    PROVE  DeferInv'
<1>1. phase = "run" /\ AtNode /\ ~Defers(pos) /\ RunInv
  BY DEF RunNode, AtNode, DeferInv
<1>2. /\ computed' = computed \union Together(Chain(pos), 1)
      /\ waiting' = (IF Len(Chain(pos)) = 1 THEN waiting ELSE NoneWaiting)
      /\ pos' = pos + 1
      /\ UNCHANGED <<planVars, phase, last, rows, failed, mode>>
  BY DEF RunNode
<1>3. UNCHANGED <<graph, setup>>
  BY <1>2 DEF planVars
<1>4. pos \in Nat \ {0} /\ pos \in Nodes
  BY <1>1, Loaded DEF RunInv, AtNode
<1>5. waiting' = NoneWaiting /\ \A i \in 1 .. (pos' - 1) : i \in computed'
  <2>1. CASE NothingAwaited /\ Chain(pos) = <<pos>>
    <3>1. Together(Chain(pos), 1) = {pos} /\ Len(Chain(pos)) = 1
      BY <2>1 DEF Together
    <3> QED
      BY <1>2, <1>4, <2>1, <3>1 DEF NothingAwaited, DoneBut
  <2>2. CASE /\ Len(Chain(pos)) # 1
             /\ \A i \in 1 .. (pos - 1) : i \in computed \union Together(Chain(pos), 1)
             /\ pos \in Together(Chain(pos), 1)
    BY <1>2, <1>4, <2>2
  <2> QED
    BY <1>1, <2>1, <2>2, ChainCompletes
<1>6. NothingAwaited'
  BY <1>5 DEF NothingAwaited, DoneBut, NoneWaiting
<1>7. RunInv'
  BY <1>1, <1>2, <1>3, <1>4, <1>6 DEF RunInv
<1>8. \A i \in Nodes' : Bound(i)' => i \in computed'
  BY <1>1, <1>2, <1>3 DEF DeferInv, Nodes, Bound, Op
<1> QED
  BY <1>1, <1>2, <1>7, <1>8 DEF DeferInv

(* A node that is deferred starts the chain, or follows its first node. *)
LEMMA DeferNodeKeeps ==
    ASSUME PlanTypeOK, DeferInv, DeferNode
    PROVE  DeferInv'
<1>1. phase = "run" /\ AtNode /\ Defers(pos) /\ RunInv
  BY DEF DeferNode, AtNode, DeferInv
<1>2. /\ waiting' = [gate   |-> IF DefersGate(pos) THEN pos ELSE waiting.gate,
                     up     |-> IF DefersUp(pos) THEN pos ELSE waiting.up,
                     inject |-> IF DefersInject(pos) THEN pos ELSE waiting.inject,
                     moe    |-> IF DefersMoe(pos) THEN pos ELSE waiting.moe]
      /\ pos' = pos + 1
      /\ UNCHANGED <<planVars, phase, computed, last, rows, failed, mode>>
  BY DEF DeferNode
<1>3. UNCHANGED <<graph, setup>>
  BY <1>2 DEF planVars
<1>4. /\ pos \in Nat \ {0} /\ pos \in Nodes /\ ~Bound(pos) /\ pos <= last
      /\ last \in Nat /\ last <= Len(graph.ops) /\ Nodes = 1 .. Len(graph.ops)
      /\ Len(graph.ops) \in Nat /\ rows \in Nat
  BY <1>1, Loaded DEF RunInv, AtNode, DeferInv
<1>5. Nodes' = Nodes
  BY <1>3 DEF Nodes
<1>6. /\ \A c : UpPlanned(c)' <=> UpPlanned(c)
      /\ \A c : GatePlanned(c)' <=> GatePlanned(c)
      /\ \A p, c : InjectPlanned(p, c)' <=> InjectPlanned(p, c)
      /\ \A m, c : MoePlanned(m, c)' <=> MoePlanned(m, c)
      /\ FusionOn' <=> FusionOn
  BY <1>2, <1>3 DEF UpPlanned, GatePlanned, InjectPlanned, MoePlanned, FusionOn,
     NextComputed, OnlyUse, Uses, Exposed, Nodes, Op, Bound
<1>7. PICK x : x = pos
  OBVIOUS
<1>8. /\ DefersUp(x) => Op(x) = "matmul"
      /\ GatePlanned(x + 1) => Op(x) = "sigmoid"
      /\ DefersInject(x) => Op(x) = "inject"
      /\ DefersMoe(x) => Op(x) = "moe"
  BY <1>4, <1>7, DeferralsApart
<1>9. /\ waiting' = [gate   |-> IF DefersGate(x) THEN x ELSE waiting.gate,
                     up     |-> IF DefersUp(x) THEN x ELSE waiting.up,
                     inject |-> IF DefersInject(x) THEN x ELSE waiting.inject,
                     moe    |-> IF DefersMoe(x) THEN x ELSE waiting.moe]
      /\ x \in Nat \ {0} /\ x \in Nodes /\ pos = x /\ pos' = x + 1
  BY <1>2, <1>4, <1>7
<1>10. FusionOn => mode # "stop"
  BY DEF FusionOn
<1>11. \A c \in Nodes : FusionOn /\ Within(c) => c <= last
  BY <1>1, <1>4, <1>10 DEF Within, RunInv
<1>12. ASSUME NothingAwaited
       PROVE  \/ \E u \in Nodes : UpAwaited(u)'
              \/ \E g \in Nodes : GateAwaited(g)'
              \/ \E m, c \in Nodes : MoeAwaited(m, c)'
              \/ \E p, c \in Nodes, m \in Nodes \union {0} : InjectAwaited(p, m, c)'
  <2>1. /\ waiting = [gate |-> 0, up |-> 0, inject |-> 0, moe |-> 0]
        /\ \A i \in 1 .. (x - 1) : i \in computed
    BY <1>9, <1>12 DEF NothingAwaited, NoneWaiting, DoneBut
  <2>2. DefersGate(x) => FusionOn /\ rows > 1 /\ GatePlanned(x + 1) /\ Within(x + 1)
    BY <2>1 DEF DefersGate
  <2>3. \A i \in 1 .. (pos' - 1) : i \in computed' \union {x}
    BY <1>2, <1>9, <2>1
  <2>4. CASE DefersUp(x)
    <3>1. ~DefersGate(x) /\ ~DefersInject(x) /\ ~DefersMoe(x)
      BY <1>8, <2>2, <2>4
    <3>2. waiting' = [gate |-> 0, up |-> x, inject |-> 0, moe |-> 0]
      BY <1>9, <2>1, <2>4, <3>1
    <3>3. UpPlanned(x + 2) /\ FusionOn /\ Within(x + 2)
      BY <2>4 DEF DefersUp
    <3>4. x + 2 <= last'
      BY <1>2, <1>11, <3>3, UpShape
    <3>5. UpAwaited(x)'
      BY <1>6, <1>9, <2>3, <3>2, <3>3, <3>4 DEF UpAwaited, DoneBut
    <3> QED
      BY <1>9, <3>5
  <2>5. CASE DefersGate(x)
    <3>1. ~DefersUp(x) /\ ~DefersInject(x) /\ ~DefersMoe(x)
      BY <1>8, <2>2, <2>5
    <3>2. waiting' = [gate |-> x, up |-> 0, inject |-> 0, moe |-> 0]
      BY <1>9, <2>1, <2>5, <3>1
    <3>3. x + 1 <= last'
      BY <1>2, <1>11, <2>2, <2>5, GateShape
    <3>4. GateAwaited(x)'
      BY <1>6, <1>9, <2>2, <2>3, <2>5, <3>2, <3>3 DEF GateAwaited, DoneBut
    <3> QED
      BY <1>9, <3>4
  <2>6. CASE DefersInject(x)
    <3>1. ~DefersUp(x) /\ ~DefersGate(x) /\ ~DefersMoe(x)
      BY <1>8, <2>2, <2>6
    <3>2. waiting' = [gate |-> 0, up |-> 0, inject |-> x, moe |-> 0]
      BY <1>9, <2>1, <2>6, <3>1
    <3>3. PICK c \in Nodes : InjectPlanned(x, c) /\ FusionOn /\ Within(c)
      BY <2>6 DEF DefersInject
    <3>4. c <= last' /\ x < c /\ c \in Nat
      BY <1>2, <1>4, <1>11, <3>3, InjectShape
    <3>5. InjectAwaited(x, 0, c)'
      BY <1>6, <1>9, <2>3, <3>2, <3>3, <3>4 DEF InjectAwaited, DoneBut
    <3> QED
      BY <1>9, <3>3, <3>5
  <2>7. CASE DefersMoe(x)
    <3>1. ~DefersUp(x) /\ ~DefersGate(x) /\ ~DefersInject(x)
      BY <1>8, <2>2, <2>7
    <3>2. waiting' = [gate |-> 0, up |-> 0, inject |-> 0, moe |-> x]
      BY <1>9, <2>1, <2>7, <3>1
    <3>3. PICK c \in Nodes : MoePlanned(x, c) /\ FusionOn /\ mode = "whole" /\ rows >= HcMinRows
      BY <2>7 DEF DefersMoe
    <3>4. rows > 1
      BY <1>4, <3>3, ExecutionAssumption
    <3>5. c <= last'
      BY <1>2, <1>11, <3>3 DEF Within
    <3>6. MoeAwaited(x, c)'
      BY <1>2, <1>6, <1>9, <2>3, <3>2, <3>3, <3>4, <3>5 DEF MoeAwaited, DoneBut
    <3> QED
      BY <1>9, <3>3, <3>6
  <2> QED
    BY <1>1, <1>7, <2>4, <2>5, <2>6, <2>7 DEF Defers
<1>13. ASSUME NEW u \in Nodes, UpAwaited(u)
       PROVE  UpAwaited(u)'
  <2>1. u \in Nat \ {0}
    BY Loaded
  <2>2. UpPlanned(u + 2) /\ u + 2 <= last /\ Op(u + 1) = "sigmoid" /\ Op(u + 2) = "reduce"
    <3>1. UpPlanned(u + 2) /\ u + 2 <= last
      BY <1>13 DEF UpAwaited
    <3>2. (u + 2) - 1 = u + 1
      BY <2>1
    <3> QED
      BY <3>1, <3>2, UpShape
  <2>3. CASE pos = u + 1 /\ DoneBut({u}) /\ waiting = [gate |-> 0, up |-> u, inject |-> 0, moe |-> 0]
    <3>1. Op(x) = "sigmoid" /\ x = u + 1
      BY <1>9, <2>2, <2>3
    <3>2. DefersGate(x) /\ ~DefersUp(x) /\ ~DefersInject(x) /\ ~DefersMoe(x)
      BY <1>8, <2>1, <2>3, <3>1 DEF DefersGate
    <3>3. waiting' = [gate |-> u + 1, up |-> u, inject |-> 0, moe |-> 0]
      BY <1>9, <2>3, <3>1, <3>2
    <3>4. \A i \in 1 .. (pos' - 1) : i \in computed' \union {u, u + 1}
      BY <1>2, <1>9, <2>3, <3>1 DEF DoneBut
    <3>5. pos' = u + 2 /\ last' = last
      BY <1>2, <1>9, <2>1, <3>1
    <3> QED
      BY <1>6, <2>2, <3>3, <3>4, <3>5 DEF UpAwaited, DoneBut
  <2>4. CASE pos = u + 2 /\ waiting = [gate |-> u + 1, up |-> u, inject |-> 0, moe |-> 0]
    <3>1. Op(x) = "reduce" /\ x = u + 2
      BY <1>9, <2>2, <2>4
    <3>2. ~DefersGate(x)
      BY <1>8, <2>1, <2>4, <3>1 DEF DefersGate
    <3> QED
      BY <1>1, <1>7, <1>8, <3>1, <3>2 DEF Defers
  <2> QED
    BY <1>13, <2>3, <2>4 DEF UpAwaited
<1>14. ASSUME NEW g \in Nodes, GateAwaited(g)
       PROVE  FALSE
  <2>1. GatePlanned(g + 1) /\ pos = g + 1 /\ waiting.up = 0
    BY <1>14 DEF GateAwaited
  <2>2. Op(x) = "reduce"
    BY <1>9, <2>1, GateShape
  <2>3. ~DefersGate(x)
    BY <1>8, <2>1, <2>2 DEF DefersGate
  <2> QED
    BY <1>1, <1>7, <1>8, <2>2, <2>3 DEF Defers
<1>15. ASSUME NEW m \in Nodes, NEW c \in Nodes, MoeAwaited(m, c)
       PROVE  InjectAwaited(m + 1, m, c)'
  <2>1. /\ MoePlanned(m, c) /\ c <= last /\ pos = m + 1 /\ DoneBut({m})
        /\ waiting = [gate |-> 0, up |-> 0, inject |-> 0, moe |-> m]
        /\ mode = "whole" /\ FusionOn /\ rows > 1
    BY <1>15 DEF MoeAwaited
  <2>2. InjectPlanned(x, c) /\ x = m + 1 /\ m \in Nat
    BY <1>9, <2>1, MoeShape, Loaded
  <2>3. Op(x) = "inject" /\ x < c /\ c \in Nat
    BY <1>4, <2>2, InjectShape
  <2>4. DefersInject(x) /\ ~DefersUp(x) /\ ~DefersGate(x) /\ ~DefersMoe(x)
    BY <1>8, <2>1, <2>2, <2>3 DEF DefersInject, DefersGate, Within
  <2>5. waiting' = [gate |-> 0, up |-> 0, inject |-> m + 1, moe |-> m]
    BY <1>9, <2>1, <2>2, <2>4
  <2>6. \A i \in 1 .. (pos' - 1) : i \in computed' \union {m + 1, m}
    BY <1>2, <1>9, <2>1, <2>2 DEF DoneBut
  <2>7. pos' \in ((m + 1) + 1) .. c /\ last' = last /\ m = (m + 1) - 1
    BY <1>2, <1>9, <2>2, <2>3
  <2> QED
    BY <1>6, <2>1, <2>2, <2>5, <2>6, <2>7 DEF InjectAwaited, DoneBut
<1>16. ASSUME NEW p \in Nodes, NEW c \in Nodes, NEW m \in Nodes \union {0},
              InjectAwaited(p, m, c)
       PROVE  FALSE
  <2>1. InjectPlanned(p, c) /\ pos \in (p + 1) .. c /\ waiting.up = 0
    BY <1>16 DEF InjectAwaited
  <2>2. Op(c) = "rms" /\ \A d \in Nodes : p < d /\ d < c => Bound(d)
    BY <2>1, InjectShape
  <2>3. pos = c
    BY <1>4, <2>1, <2>2
  <2>4. ~DefersGate(x)
    BY <1>7, <1>8, <2>1, <2>2, <2>3 DEF DefersGate
  <2> QED
    BY <1>1, <1>7, <1>8, <2>2, <2>3, <2>4 DEF Defers
<1>17. \/ \E u \in Nodes : UpAwaited(u)'
       \/ \E g \in Nodes : GateAwaited(g)'
       \/ \E m, c \in Nodes : MoeAwaited(m, c)'
       \/ \E p, c \in Nodes, m \in Nodes \union {0} : InjectAwaited(p, m, c)'
  <2>1. CASE \E m, c \in Nodes : MoeAwaited(m, c)
    <3>1. PICK m, c \in Nodes : MoeAwaited(m, c)
      BY <2>1
    <3>2. PICK p : p = m + 1
      OBVIOUS
    <3>3. InjectAwaited(p, m, c)'
      BY <1>15, <3>1, <3>2
    <3>4. p \in Nodes
      BY <1>9, <3>1, <3>2 DEF MoeAwaited
    <3> QED
      BY <3>3, <3>4
  <2> QED
    BY <1>1, <1>12, <1>13, <1>14, <1>16, <2>1 DEF RunInv
<1>18. RunInv'
  BY <1>1, <1>2, <1>3, <1>4, <1>5, <1>17 DEF RunInv
<1>19. \A i \in Nodes' : Bound(i)' => i \in computed'
  BY <1>1, <1>2, <1>3 DEF DeferInv, Nodes, Bound, Op
<1> QED
  BY <1>1, <1>2, <1>4, <1>18, <1>19 DEF DeferInv

(* Passing a bound node moves the cursor over a node that has its value. *)
LEMMA PassInputKeeps ==
    ASSUME PlanTypeOK, DeferInv, PassInput
    PROVE  DeferInv'
<1>1. /\ phase = "run" /\ RunInv /\ pos <= last /\ Bound(pos) /\ pos' = pos + 1
      /\ UNCHANGED <<planVars, phase, computed, last, waiting, rows, failed, mode>>
  BY DEF PassInput, DeferInv
<1>2. UNCHANGED <<graph, setup>>
  BY <1>1 DEF planVars
<1>3. /\ \A c : UpPlanned(c)' <=> UpPlanned(c)
      /\ \A c : GatePlanned(c)' <=> GatePlanned(c)
      /\ \A p, c : InjectPlanned(p, c)' <=> InjectPlanned(p, c)
  BY <1>2 DEF UpPlanned, GatePlanned, InjectPlanned,
     NextComputed, OnlyUse, Uses, Exposed, Nodes, Op, Bound
<1>4. /\ pos \in Nat \ {0} /\ pos \in Nodes /\ Nodes' = Nodes
      /\ last \in Nat /\ last <= Len(graph.ops) /\ Len(graph.ops) \in Nat
  BY <1>1, <1>2, Loaded DEF RunInv, Nodes
<1>5. pos \in computed
  BY <1>1, <1>4 DEF DeferInv
<1>6. \A S : DoneBut(S) => DoneBut(S)'
  BY <1>1, <1>4, <1>5 DEF DoneBut
<1>7. Op(pos) \in {"input", "constant", "cache"}
  BY <1>1 DEF Bound, BoundOps
<1>8. NothingAwaited => NothingAwaited'
  BY <1>1, <1>6 DEF NothingAwaited, NoneWaiting
<1>9. ASSUME NEW u \in Nodes, UpAwaited(u)
      PROVE  FALSE
  <2>1. UpPlanned(u + 2) /\ (pos = u + 1 \/ pos = u + 2) /\ u \in Nat
    BY <1>9, Loaded DEF UpAwaited
  <2>2. (u + 2) - 1 = u + 1
    BY <2>1
  <2>3. Op(u + 1) = "sigmoid" /\ Op(u + 2) = "reduce"
    BY <2>1, <2>2, UpShape
  <2> QED
    BY <1>7, <2>1, <2>3
<1>10. ASSUME NEW g \in Nodes, GateAwaited(g)
       PROVE  FALSE
  BY <1>7, <1>10, GateShape DEF GateAwaited
<1>11. ASSUME NEW m \in Nodes, NEW c \in Nodes, MoeAwaited(m, c)
       PROVE  FALSE
  <2>1. InjectPlanned(pos, c)
    BY <1>11, MoeShape DEF MoeAwaited
  <2> QED
    BY <1>7, <2>1, InjectShape
<1>12. ASSUME NEW p \in Nodes, NEW c \in Nodes, NEW m \in Nodes \union {0},
              InjectAwaited(p, m, c)
       PROVE  InjectAwaited(p, m, c)'
  <2>1. InjectPlanned(p, c) /\ pos \in (p + 1) .. c
    BY <1>12 DEF InjectAwaited
  <2>2. p \in Nat /\ c \in Nat /\ pos # c
    BY <1>1, <2>1, InjectShape, Loaded
  <2>3. pos' \in (p + 1) .. c
    BY <1>1, <2>1, <2>2
  <2>4. DoneBut({p, m})'
    BY <1>6, <1>12 DEF InjectAwaited
  <2> QED
    BY <1>1, <1>3, <1>12, <2>3, <2>4 DEF InjectAwaited, DoneBut
<1>13. RunInv'
  BY <1>1, <1>2, <1>4, <1>8, <1>9, <1>10, <1>11, <1>12 DEF RunInv
<1>14. \A i \in Nodes' : Bound(i)' => i \in computed'
  BY <1>1, <1>2 DEF DeferInv, Nodes, Bound, Op
<1> QED
  BY <1>1, <1>13, <1>14 DEF DeferInv

(* A call ends with nothing deferred: every chain's consumer was within it. *)
LEMMA EndPassKeeps ==
    ASSUME PlanTypeOK, DeferInv, EndPass
    PROVE  DeferInv'
<1>1. /\ phase = "run" /\ RunInv /\ pos > last
      /\ phase' = (IF mode = "segment" /\ last < Len(graph.ops) THEN "suspended" ELSE "over")
      /\ UNCHANGED <<planVars, computed, pos, last, waiting, rows, failed, mode>>
  BY DEF EndPass, DeferInv
<1>2. UNCHANGED graph
  BY <1>1 DEF planVars
<1>3. pos \in Nat \ {0} /\ last \in Nat
  BY <1>1 DEF RunInv
<1>4. Nodes \subseteq Nat
  BY Loaded
<1>5. DoneBut({})
  <2>1. ASSUME NEW u \in Nodes, UpAwaited(u) PROVE FALSE
    BY <1>1, <1>3, <1>4, <2>1 DEF UpAwaited
  <2>2. ASSUME NEW g \in Nodes, GateAwaited(g) PROVE FALSE
    BY <1>1, <1>3, <1>4, <2>2 DEF GateAwaited
  <2>3. ASSUME NEW m \in Nodes, NEW c \in Nodes, MoeAwaited(m, c) PROVE FALSE
    <3>1. InjectPlanned(m + 1, c) /\ pos = m + 1 /\ c <= last
      BY <2>3, MoeShape DEF MoeAwaited
    <3>2. m + 1 < c
      BY <3>1, InjectShape
    <3> QED
      BY <1>1, <1>3, <1>4, <3>1, <3>2
  <2>4. ASSUME NEW p \in Nodes, NEW c \in Nodes, NEW m \in Nodes \union {0},
               InjectAwaited(p, m, c)
        PROVE  FALSE
    BY <1>1, <1>3, <1>4, <2>4 DEF InjectAwaited
  <2> QED
    BY <1>1, <2>1, <2>2, <2>3, <2>4 DEF RunInv, NothingAwaited
<1>6. DoneBut({})'
  BY <1>1, <1>5 DEF DoneBut
<1>7. \A i \in Nodes' : Bound(i)' => i \in computed'
  BY <1>1, <1>2 DEF DeferInv, Nodes, Bound, Op
<1> QED
  BY <1>1, <1>3, <1>6, <1>7 DEF DeferInv

(* A pass, or its next segment, starts with nothing deferred. *)
LEMMA StartKeeps ==
    ASSUME PlanTypeOK, DeferInv,
           (\E r \in setup.rows : BindInputs(r)) \/ BeginWhole \/ BeginStopped
             \/ BeginSegment \/ Resume
    PROVE  DeferInv'
<1>1. Len(graph.ops) \in Nat /\ Nodes = 1 .. Len(graph.ops)
  BY Loaded
<1>2. ASSUME NEW r \in setup.rows, BindInputs(r)
      PROVE  DeferInv'
  <2>1. /\ phase' = "bound" /\ rows' = r
        /\ computed' = {i \in Nodes : Bound(i)} /\ UNCHANGED graph
    BY <1>2 DEF BindInputs, planVars
  <2>2. r \in Nat
    BY ExecutionAssumption, PoolAssumption DEF PlanTypeOK
  <2>3. \A i \in Nodes' : Bound(i)' => i \in computed'
    BY <2>1 DEF Nodes, Bound, Op
  <2> QED
    BY <2>1, <2>2, <2>3 DEF DeferInv
<1>3. ASSUME NEW m \in {"whole", "stop", "segment"}, NEW l \in Nodes, Begin(m, l),
             m = "whole" => l = Len(graph.ops)
      PROVE  DeferInv'
  <2>1. /\ phase = "bound" /\ phase' = "run" /\ mode' = m /\ last' = l /\ pos' = 1
        /\ waiting' = NoneWaiting /\ UNCHANGED <<planVars, computed, rows>>
    BY <1>3 DEF Begin
  <2>2. UNCHANGED graph
    BY <2>1 DEF planVars
  <2>3. NothingAwaited'
    <3>1. \A i \in 1 .. (pos' - 1) : FALSE
      BY <2>1
    <3> QED
      BY <2>1, <3>1 DEF NothingAwaited, DoneBut, NoneWaiting
  <2>4. RunInv'
    BY <1>1, <1>3, <2>1, <2>2, <2>3 DEF RunInv
  <2>5. \A i \in Nodes' : Bound(i)' => i \in computed'
    BY <2>1, <2>2 DEF DeferInv, Nodes, Bound, Op
  <2> QED
    BY <2>1, <2>4, <2>5 DEF DeferInv
<1>4. CASE BeginWhole
  <2>1. Len(graph.ops) \in Nodes
    BY <1>1, Loaded
  <2> QED
    BY <1>3, <1>4, <2>1 DEF BeginWhole
<1>5. CASE BeginStopped
  BY <1>3, <1>5 DEF BeginStopped, FirstStateful
<1>6. CASE BeginSegment
  BY <1>3, <1>6 DEF BeginSegment
<1>7. CASE Resume
  <2>1. /\ phase = "suspended" /\ phase' = "run" /\ last' \in pos .. Len(graph.ops)
        /\ waiting' = NoneWaiting /\ UNCHANGED <<planVars, computed, pos, rows, mode>>
    BY <1>7 DEF Resume
  <2>2. UNCHANGED graph
    BY <2>1 DEF planVars
  <2>3. mode = "segment" /\ pos \in Nat \ {0} /\ DoneBut({})
    BY <2>1 DEF DeferInv
  <2>4. NothingAwaited'
    BY <2>1, <2>3 DEF NothingAwaited, DoneBut, NoneWaiting
  <2>5. RunInv'
    BY <1>1, <2>1, <2>2, <2>3, <2>4 DEF RunInv
  <2>6. \A i \in Nodes' : Bound(i)' => i \in computed'
    BY <2>1, <2>2 DEF DeferInv, Nodes, Bound, Op
  <2> QED
    BY <2>1, <2>5, <2>6 DEF DeferInv
<1> QED
  BY <1>2, <1>4, <1>5, <1>6, <1>7

(* The steps between passes, and those that give a pass up. *)
LEMMA PausedKeeps ==
    ASSUME PlanTypeOK, DeferInv,
           Prepare \/ FailNode \/ Abandon \/ Finish \/ ReleaseBuffers \/ UNCHANGED vars
    PROVE  DeferInv'
<1>1. CASE FailNode \/ Abandon
  BY <1>1 DEF FailNode, Abandon, DeferInv
<1>2. CASE Finish \/ ReleaseBuffers
  BY <1>2 DEF Finish, ReleaseBuffers, DeferInv
<1>3. CASE Prepare \/ UNCHANGED vars
  <2>1. UNCHANGED <<graph, setup, phase, computed, pos, last, waiting, rows, failed, mode>>
    BY <1>3 DEF Prepare, passVars, vars, planVars, PlanNext, Inspect, CountUses, Lengthen,
       Protect, Retain
  <2>2. /\ \A c : UpPlanned(c)' <=> UpPlanned(c)
        /\ \A c : GatePlanned(c)' <=> GatePlanned(c)
        /\ \A p, c : InjectPlanned(p, c)' <=> InjectPlanned(p, c)
        /\ \A m, c : MoePlanned(m, c)' <=> MoePlanned(m, c)
        /\ FusionOn' <=> FusionOn
        /\ Nodes' = Nodes
    BY <2>1 DEF UpPlanned, GatePlanned, InjectPlanned, MoePlanned, FusionOn,
       NextComputed, OnlyUse, Uses, Exposed, Nodes, Op, Bound
  <2>3. /\ NothingAwaited' <=> NothingAwaited
        /\ \A u : UpAwaited(u)' <=> UpAwaited(u)
        /\ \A g : GateAwaited(g)' <=> GateAwaited(g)
        /\ \A m, c : MoeAwaited(m, c)' <=> MoeAwaited(m, c)
        /\ \A p, m, c : InjectAwaited(p, m, c)' <=> InjectAwaited(p, m, c)
    BY <2>1, <2>2 DEF NothingAwaited, NoneWaiting, UpAwaited, GateAwaited, MoeAwaited,
       InjectAwaited, DoneBut
  <2>4. RunInv => RunInv'
    BY <2>1, <2>2, <2>3 DEF RunInv
  <2>5. \A i : Bound(i)' <=> Bound(i)
    BY <2>1 DEF Bound, Op
  <2>6. DoneBut({}) => DoneBut({})'
    BY <2>1 DEF DoneBut
  <2> QED
    BY <2>1, <2>2, <2>4, <2>5, <2>6 DEF DeferInv
<1> QED
  BY <1>1, <1>2, <1>3

(***************************************************************************)
(* For every graph that loads, on every backend: a call that ends without  *)
(* failure, or is suspended between segments, has computed every node it   *)
(* passed; no fusion leaves a producer waiting for a consumer that this    *)
(* call does not reach.                                                    *)
(***************************************************************************)
THEOREM NothingWaitsForever == Spec => []NothingLeftDeferred
<1>1. Init => DeferInv
  BY DEF Init, DeferInv
<1>2. PlanTypeOK /\ DeferInv /\ [Next]_vars => DeferInv'
  BY StartKeeps, PassInputKeeps, DeferNodeKeeps, RunNodeKeeps, EndPassKeeps, PausedKeeps
     DEF Next
<1>3. DeferInv => NothingLeftDeferred
  BY DEF DeferInv, NothingLeftDeferred, DoneBut
<1> QED
  BY <1>1, <1>2, <1>3, PlanTypeCorrect, PTL DEF Spec
-----------------------------------------------------------------------------
\* The pool's own books.
PoolBooks(p) ==
    /\ p \in [size : [Buffers -> Sizes], free : Seq(Buffers), active : SUBSET Buffers,
              pending : Seq(Buffers), misuse : BOOLEAN]
    /\ ~p.misuse
    /\ \A b \in p.active : p.size[b] > 0
    /\ \A n \in DOMAIN p.free : p.free[n] \notin p.active /\ p.size[p.free[n]] > 0
    /\ \A m, n \in DOMAIN p.free : p.free[m] = p.free[n] => m = n
    /\ \A n \in DOMAIN p.pending : p.pending[n] \in p.active
    /\ \A m, n \in DOMAIN p.pending : p.pending[m] = p.pending[n] => m = n

\* Buffers out with a tensor: active, and not already returned.
Out(p) == p.active \ {p.pending[n] : n \in DOMAIN p.pending}
\* A buffer that may be returned for a request of that many bytes.
Holds(kind, size, bytes) == size >= bytes /\ (kind = "host" => size = RoundUp(bytes))

-----------------------------------------------------------------------------
(* Loops: a function from the number of rounds done to the state after them. *)

LEMMA GreatestExists ==
    ASSUME NEW N \in Nat, NEW S, S \subseteq 0 .. N, S # {}
    PROVE  Greatest(S) \in S /\ \A n \in S : n <= Greatest(S)
<1> DEFINE T == {N - x : x \in S}
<1>1. T \subseteq Nat /\ T # {}
  <2>1. \A x \in S : N - x \in Nat
    OBVIOUS
  <2> QED
    BY <2>1
<1>2. PICK t \in T : \A u \in T : t <= u
  <2> HIDE DEF T
  <2> QED
    BY <1>1, LeastExists
<1>3. PICK x \in S : t = N - x
  BY <1>2
<1>4. \A y \in S : y <= x
  <2> SUFFICES ASSUME NEW y \in S PROVE y <= x
    OBVIOUS
  <2>1. N - y \in T /\ x \in Nat /\ y \in Nat
    OBVIOUS
  <2> QED
    BY <1>2, <1>3, <2>1
<1> QED
  BY <1>4 DEF Greatest

(* What holds of 0 and of i with i - 1 holds up to n. *)
LEMMA UpTo ==
    ASSUME NEW n \in Nat, NEW T, 0 \in T, \A i \in 1 .. n : i - 1 \in T => i \in T
    PROVE  \A i \in 0 .. n : i \in T
<1> DEFINE bad == {i \in 0 .. n : i \notin T}
<1> SUFFICES ASSUME bad # {} PROVE FALSE
  OBVIOUS
<1>1. bad \subseteq Nat
  OBVIOUS
<1>2. PICK m \in bad : \A k \in bad : m <= k
  <2> HIDE DEF bad
  <2> QED
    BY <1>1, LeastExists
<1>3. m # 0 /\ m \in 1 .. n
  BY <1>2
<1>4. m - 1 \in 0 .. n /\ ~(m <= m - 1)
  BY <1>3
<1>5. m - 1 \in T
  BY <1>2, <1>4
<1> QED
  BY <1>2, <1>3, <1>5

Loop(f, S, n, start, step) ==
    /\ f \in [0 .. n -> S]
    /\ f = [i \in 0 .. n |-> IF i = 0 THEN start ELSE step[i][f[i - 1]]]

LEMMA LoopExists ==
    ASSUME NEW n \in Nat, NEW S, NEW start \in S, NEW step \in [1 .. n -> [S -> S]]
    PROVE  \E f : Loop(f, S, n, start, step)
<1> DEFINE T == {m \in 0 .. n : \E f : Loop(f, S, m, start, step)}
<1>1. 0 \in T
  <2>1. PICK f : f = [i \in 0 .. 0 |-> start]
    OBVIOUS
  <2>2. Loop(f, S, 0, start, step)
    BY <2>1 DEF Loop
  <2> QED
    BY <2>2
<1>2. ASSUME NEW m \in 1 .. n, m - 1 \in T
      PROVE  m \in T
  <2>1. PICK f : Loop(f, S, m - 1, start, step)
    BY <1>2
  <2>2. f \in [0 .. (m - 1) -> S]
        /\ \A i \in 0 .. (m - 1) : f[i] = IF i = 0 THEN start ELSE step[i][f[i - 1]]
    BY <2>1 DEF Loop
  <2>3. step[m] \in [S -> S] /\ f[m - 1] \in S
    BY <2>2
  <2>4. PICK g : g = [i \in 0 .. m |-> IF i = m THEN step[m][f[m - 1]] ELSE f[i]]
    OBVIOUS
  <2>5. g \in [0 .. m -> S]
    BY <2>2, <2>3, <2>4
  <2>6. ASSUME NEW i \in 0 .. m
        PROVE  g[i] = IF i = 0 THEN start ELSE step[i][g[i - 1]]
    <3>1. CASE i = m
      <4>1. g[m - 1] = f[m - 1] /\ m # 0
        BY <2>4
      <4> QED
        BY <2>4, <3>1, <4>1
    <3>2. CASE i # m /\ i # 0
      <4>1. i \in 0 .. (m - 1) /\ g[i] = f[i] /\ g[i - 1] = f[i - 1]
        BY <2>4, <3>2
      <4> QED
        BY <2>2, <3>2, <4>1
    <3>3. CASE i # m /\ i = 0
      BY <2>2, <2>4, <3>3
    <3> QED
      BY <3>1, <3>2, <3>3
  <2>7. g = [i \in 0 .. m |-> IF i = 0 THEN start ELSE step[i][g[i - 1]]]
    BY <2>4, <2>6
  <2>8. Loop(g, S, m, start, step)
    BY <2>5, <2>7 DEF Loop
  <2> QED
    BY <2>8
<1>3. n \in T
  <2> HIDE DEF T
  <2>1. \A i \in 0 .. n : i \in T
    BY <1>1, <1>2, UpTo
  <2> QED
    BY <2>1
<1> QED
  BY <1>3

-----------------------------------------------------------------------------
(* Buckets: a request that is no larger than a buffer may be has one. *)

LEMMA Powers ==
    /\ TwoTo \in [0 .. MaxBytes -> Nat]
    /\ TwoTo[0] = 1
    /\ \A e \in 1 .. MaxBytes : TwoTo[e] = 2 * TwoTo[e - 1]
<1> DEFINE Eqn(g) == g = [e \in 0 .. MaxBytes |-> IF e = 0 THEN 1 ELSE 2 * g[e - 1]]
           c == CHOOSE g : Eqn(g)
<1>1. MaxBytes \in Nat
  BY PoolAssumption
<1>2. PICK step : step = [e \in 1 .. MaxBytes |-> [x \in Nat |-> 2 * x]]
  OBVIOUS
<1>3. step \in [1 .. MaxBytes -> [Nat -> Nat]] /\ 1 \in Nat
  BY <1>2
<1>4. PICK f : Loop(f, Nat, MaxBytes, 1, step)
  BY <1>1, <1>3, LoopExists
<1>5. f \in [0 .. MaxBytes -> Nat]
      /\ \A e \in 0 .. MaxBytes : f[e] = IF e = 0 THEN 1 ELSE step[e][f[e - 1]]
  BY <1>4 DEF Loop
<1>6. ASSUME NEW e \in 0 .. MaxBytes
      PROVE  f[e] = IF e = 0 THEN 1 ELSE 2 * f[e - 1]
  <2>1. CASE e = 0
    BY <1>5, <2>1
  <2>2. CASE e # 0
    <3>1. e \in 1 .. MaxBytes /\ e - 1 \in 0 .. MaxBytes
      BY <1>1, <2>2
    <3>2. f[e - 1] \in Nat
      BY <1>5, <3>1
    <3>3. step[e][f[e - 1]] = 2 * f[e - 1]
      BY <1>2, <3>1, <3>2
    <3> QED
      BY <1>5, <2>2, <3>3
  <2> QED
    BY <2>1, <2>2
<1>7. Eqn(f)
  BY <1>5, <1>6
<1>8. Eqn(c)
  <2> HIDE DEF Eqn
  <2> QED
    BY <1>7
<1>9. TwoTo = c
  BY DEF TwoTo
<1>10. \A e \in 0 .. MaxBytes : c[e] = IF e = 0 THEN 1 ELSE 2 * c[e - 1]
  <2> HIDE DEF c
  <2> QED
    BY <1>8
<1> HIDE DEF c, Eqn
<1> DEFINE T == {e \in 0 .. MaxBytes : c[e] \in Nat}
<1>11. \A e \in 0 .. MaxBytes : e \in T
  <2>1. 0 \in T
    BY <1>1, <1>10
  <2>2. ASSUME NEW e \in 1 .. MaxBytes, e - 1 \in T PROVE e \in T
    <3>1. e \in 0 .. MaxBytes /\ e # 0
      BY <1>1
    <3>2. c[e] = 2 * c[e - 1] /\ c[e - 1] \in Nat
      BY <1>10, <2>2, <3>1
    <3> QED
      BY <3>1, <3>2
  <2> HIDE DEF T
  <2> QED
    BY <1>1, <2>1, <2>2, UpTo
<1>12. DOMAIN c = 0 .. MaxBytes /\ c = [e \in 0 .. MaxBytes |-> c[e]]
  <2>1. c = [e \in 0 .. MaxBytes |-> IF e = 0 THEN 1 ELSE 2 * c[e - 1]]
    BY <1>8 DEF Eqn
  <2> QED
    BY <2>1
<1>13. c \in [0 .. MaxBytes -> Nat]
  BY <1>11, <1>12
<1>14. c[0] = 1 /\ \A e \in 1 .. MaxBytes : c[e] = 2 * c[e - 1]
  BY <1>1, <1>10
<1> QED
  BY <1>9, <1>13, <1>14

LEMMA RoundUpFits ==
    ASSUME NEW bytes \in 1 .. MaxBytes
    PROVE  RoundUp(bytes) \in Sizes /\ RoundUp(bytes) >= bytes
<1>1. MaxBytes \in Nat /\ MaxBytes >= 1
  BY PoolAssumption
<1> DEFINE T == {e \in 0 .. MaxBytes : TwoTo[e] >= e + 1}
           big == {e \in 0 .. MaxBytes : TwoTo[e] >= bytes}
<1>2. \A e \in 0 .. MaxBytes : e \in T
  <2>1. 0 \in T
    BY <1>1, Powers
  <2>2. ASSUME NEW e \in 1 .. MaxBytes, e - 1 \in T PROVE e \in T
    <3>1. TwoTo[e] = 2 * TwoTo[e - 1] /\ TwoTo[e - 1] \in Nat /\ TwoTo[e - 1] >= e
      BY <1>1, <2>2, Powers
    <3> QED
      BY <1>1, <3>1
  <2> HIDE DEF T
  <2> QED
    BY <1>1, <2>1, <2>2, UpTo
<1>3. MaxBytes \in big
  <2>1. TwoTo[MaxBytes] \in Nat /\ TwoTo[MaxBytes] >= MaxBytes + 1
    BY <1>1, <1>2, Powers
  <2> QED
    BY <1>1, <2>1
<1>4. big \subseteq Nat /\ big # {}
  BY <1>1, <1>3
<1>5. PICK e \in big : \A d \in big : e <= d
  <2> HIDE DEF big
  <2> QED
    BY <1>4, LeastExists
<1>6. TwoTo[e] <= 2 * MaxBytes
  <2>1. CASE e = 0
    BY <1>1, <2>1, Powers
  <2>2. CASE e # 0
    <3>1. e \in 1 .. MaxBytes /\ e - 1 \in 0 .. MaxBytes /\ ~(e <= e - 1)
      BY <1>1, <2>2
    <3>2. TwoTo[e] = 2 * TwoTo[e - 1] /\ TwoTo[e - 1] \in Nat
      BY <3>1, Powers
    <3>3. ~(TwoTo[e - 1] >= bytes)
      BY <1>5, <3>1
    <3> QED
      BY <1>1, <3>2, <3>3
  <2> QED
    BY <2>1, <2>2
<1>7. TwoTo[e] \in Buckets /\ TwoTo[e] >= bytes
  BY <1>1, <1>6, Powers DEF Buckets, Sizes
<1> DEFINE enough == {b \in Buckets : b >= bytes}
<1>8. enough \subseteq Nat /\ enough # {}
  BY <1>1, <1>7 DEF Buckets, Sizes
<1>9. PICK b \in enough : \A d \in enough : b <= d
  <2> HIDE DEF enough
  <2> QED
    BY <1>8, LeastExists
<1>10. b \in Buckets /\ b >= bytes /\ \A d \in Buckets : d >= bytes => b <= d
  BY <1>9
<1>11. RoundUp(bytes) \in Buckets /\ RoundUp(bytes) >= bytes
  BY <1>10 DEF RoundUp
<1> QED
  BY <1>11 DEF Buckets

-----------------------------------------------------------------------------
(* What the pool's operations do to the books, and to the buffers out. *)

LEMMA RemovedPlace ==
    ASSUME NEW S, NEW s \in Seq(S), NEW n \in DOMAIN s
    PROVE  /\ RemovePlace(s, n) \in Seq(S)
           /\ DOMAIN RemovePlace(s, n) = 1 .. (Len(s) - 1)
           /\ \A k \in 1 .. (Len(s) - 1) : RemovePlace(s, n)[k] = IF k < n THEN s[k] ELSE s[k + 1]
<1>1. n \in 1 .. Len(s) /\ Len(s) \in Nat /\ n \in Nat
  OBVIOUS
<1>2. PICK a : a = SubSeq(s, 1, n - 1)
  OBVIOUS
<1>3. PICK z : z = SubSeq(s, n + 1, Len(s))
  OBVIOUS
<1>4. a \in Seq(S) /\ Len(a) = n - 1 /\ \A k \in 1 .. (n - 1) : a[k] = s[k]
  BY <1>1, <1>2
<1>5. z \in Seq(S) /\ Len(z) = Len(s) - n /\ \A k \in 1 .. (Len(s) - n) : z[k] = s[n + k]
  BY <1>1, <1>3
<1>6. RemovePlace(s, n) = a \o z
  BY <1>2, <1>3 DEF RemovePlace
<1>7. a \o z \in Seq(S) /\ Len(a \o z) = Len(s) - 1
  BY <1>1, <1>4, <1>5
<1>8. ASSUME NEW k \in 1 .. (Len(s) - 1)
      PROVE  (a \o z)[k] = IF k < n THEN s[k] ELSE s[k + 1]
  <2>1. CASE k < n
    BY <1>1, <1>4, <1>5, <2>1
  <2>2. CASE ~(k < n)
    <3>1. k \in Nat /\ k - (n - 1) \in 1 .. (Len(s) - n) /\ n + (k - (n - 1)) = k + 1
      BY <1>1, <2>2
    <3>2. (a \o z)[k] = z[k - Len(a)]
      <4>0. Len(a) = n - 1 /\ Len(z) = Len(s) - n
        BY <1>4, <1>5
      <4>1. k \in 1 .. (Len(a) + Len(z)) /\ ~(k <= Len(a))
        BY <1>1, <2>2, <4>0
      <4>2. a \in Seq(S) /\ z \in Seq(S)
        BY <1>4, <1>5
      <4>3. \A i \in 1 .. (Len(a) + Len(z)) :
                (a \o z)[i] = IF i <= Len(a) THEN a[i] ELSE z[i - Len(a)]
        BY ConcatProperties, <4>2, SMTT(30)
      <4> QED
        BY <4>1, <4>3
    <3>3. z[k - Len(a)] = s[k + 1]
      BY <1>4, <1>5, <3>1
    <3> QED
      BY <2>2, <3>2, <3>3
  <2> QED
    BY <2>1, <2>2
<1> QED
  BY <1>6, <1>7, <1>8

LEMMA ReusedHolds ==
    ASSUME NEW kind \in Backends, NEW p, PoolBooks(p), NEW bytes \in 1 .. MaxBytes,
           ReusedPlace(p, kind, bytes) # 0
    PROVE  /\ ReusedPlace(p, kind, bytes) \in DOMAIN p.free
           /\ Holds(kind, p.size[p.free[ReusedPlace(p, kind, bytes)]], bytes)
<1> DEFINE enough == {p.size[b] : b \in {p.free[n] : n \in DOMAIN p.free}} \ (0 .. (bytes - 1))
           bucket == FreePlaces(p, RoundUp(bytes))
<1>1. MaxBytes \in Nat /\ p.free \in Seq(Buffers) /\ p.size \in [Buffers -> Sizes]
  BY PoolAssumption DEF PoolBooks
<1>2. \A z : FreePlaces(p, z) \subseteq DOMAIN p.free /\ DOMAIN p.free = 1 .. Len(p.free)
             /\ Len(p.free) \in Nat
  BY <1>1 DEF FreePlaces
<1>3. CASE kind = "cuda"
  <2>1. enough # {} /\ ReusedPlace(p, kind, bytes) = Least(FreePlaces(p, Least(enough)))
    BY <1>3 DEF ReusedPlace
  <2>2. \A n \in DOMAIN p.free : p.size[p.free[n]] \in Sizes
    BY <1>1
  <2>3. enough \subseteq Nat /\ \A z \in enough : z >= bytes
    BY <1>1, <2>2 DEF Sizes
  <2>4. Least(enough) \in enough
    <3> HIDE DEF enough
    <3> QED
      BY <2>1, <2>3, LeastExists
  <2>5. PICK z : z = Least(enough)
    OBVIOUS
  <2>6. PICK n \in DOMAIN p.free : p.size[p.free[n]] = z
    BY <2>4, <2>5
  <2>7. n \in FreePlaces(p, z)
    BY <2>6 DEF FreePlaces
  <2>8. FreePlaces(p, z) \subseteq Nat
    BY <1>2
  <2>9. PICK m : m = Least(FreePlaces(p, z))
    OBVIOUS
  <2>10. m \in FreePlaces(p, z)
    BY <2>7, <2>8, <2>9, LeastExists
  <2>11. m \in DOMAIN p.free /\ p.size[p.free[m]] = z /\ z >= bytes
    BY <2>3, <2>4, <2>5, <2>10 DEF FreePlaces
  <2> QED
    BY <1>3, <2>1, <2>5, <2>9, <2>11 DEF Holds
<1>4. CASE kind # "cuda"
  <2>1. bucket # {} /\ ReusedPlace(p, kind, bytes) = Greatest(bucket)
    BY <1>4 DEF ReusedPlace
  <2>2. bucket \subseteq 0 .. Len(p.free)
    BY <1>2
  <2>3. Greatest(bucket) \in bucket
    <3> HIDE DEF bucket
    <3> QED
      BY <1>2, <2>1, <2>2, GreatestExists
  <2>4. PICK n : n = Greatest(bucket)
    OBVIOUS
  <2>5. n \in DOMAIN p.free /\ p.size[p.free[n]] = RoundUp(bytes)
    BY <2>3, <2>4 DEF FreePlaces
  <2> QED
    BY <2>1, <2>4, <2>5, RoundUpFits DEF Holds
<1> QED
  BY <1>3, <1>4

(* A buffer granted was not out, is out from now on, and is large enough. *)
Granting(kind, p, bytes, q, b) ==
    /\ b \in Buffers /\ b \notin p.active
    /\ PoolBooks(q) /\ Out(q) = Out(p) \union {b}
    /\ \A c \in Buffers \ {b} : q.size[c] = p.size[c]
    /\ Holds(kind, q.size[b], bytes)

LEMMA BuffersAreNat ==
    /\ NBuffers \in Nat /\ MaxBytes \in Nat
    /\ Buffers \subseteq Nat /\ 0 \notin Buffers
    /\ Sizes \subseteq Nat
  BY PoolAssumption DEF Buffers, Sizes

LEMMA AcquireGrants ==
    ASSUME NEW kind \in Backends, NEW p, PoolBooks(p), NEW bytes \in 1 .. MaxBytes
    PROVE  \/ Acquired(p, kind, bytes) = 0 /\ AfterAcquire(p, kind, bytes) = p
           \/ Granting(kind, p, bytes, AfterAcquire(p, kind, bytes), Acquired(p, kind, bytes))
<1>1. PICK n : n = ReusedPlace(p, kind, bytes)
  OBVIOUS
<1>2. PICK b : b = Acquired(p, kind, bytes)
  OBVIOUS
<1>3. PICK q : q = AfterAcquire(p, kind, bytes)
  OBVIOUS
<1>4. /\ p \in [size : [Buffers -> Sizes], free : Seq(Buffers), active : SUBSET Buffers,
               pending : Seq(Buffers), misuse : BOOLEAN]
      /\ ~p.misuse
  BY DEF PoolBooks
<1>5. CASE b = 0
  BY <1>2, <1>5 DEF AfterAcquire
<1>6. CASE b # 0 /\ n # 0
  <2>1. b = p.free[n] /\ n \in DOMAIN p.free /\ Holds(kind, p.size[b], bytes)
    BY <1>1, <1>2, <1>6, ReusedHolds DEF Acquired
  <2>2. PICK f : f = RemovePlace(p.free, n)
    OBVIOUS
  <2>3. q = [p EXCEPT !.free = f, !.active = p.active \union {b}]
    BY <1>1, <1>2, <1>3, <1>6, <2>2 DEF AfterAcquire
  <2>4. /\ f \in Seq(Buffers) /\ DOMAIN f = 1 .. (Len(p.free) - 1)
        /\ \A k \in 1 .. (Len(p.free) - 1) : f[k] = IF k < n THEN p.free[k] ELSE p.free[k + 1]
    BY <1>4, <2>1, <2>2, RemovedPlace
  <2>5. b \in Buffers /\ b \notin p.active /\ p.size[b] > 0
    BY <1>4, <2>1 DEF PoolBooks
  <2>6. q.size = p.size /\ q.free = f /\ q.active = p.active \union {b} /\ q.pending = p.pending
        /\ ~q.misuse
        /\ q \in [size : [Buffers -> Sizes], free : Seq(Buffers), active : SUBSET Buffers,
                  pending : Seq(Buffers), misuse : BOOLEAN]
    BY <1>4, <2>3, <2>4, <2>5
  <2>7. ASSUME NEW k \in DOMAIN f
        PROVE  \E m \in DOMAIN p.free : /\ m # n /\ f[k] = p.free[m]
                                        /\ m = IF k < n THEN k ELSE k + 1
    <3>1. Len(p.free) \in Nat /\ DOMAIN p.free = 1 .. Len(p.free) /\ n \in Nat /\ k \in Nat
      BY <1>4, <2>1, <2>4
    <3>2. CASE k < n
      <4>1. k \in DOMAIN p.free /\ k # n
        BY <2>4, <3>1, <3>2
      <4> QED
        BY <2>4, <3>2, <4>1
    <3>3. CASE ~(k < n)
      <4>1. k + 1 \in DOMAIN p.free /\ k + 1 # n
        BY <2>4, <3>1, <3>3
      <4> QED
        BY <2>4, <3>3, <4>1
    <3> QED
      BY <3>2, <3>3
  <2>8. \A k \in DOMAIN f : f[k] \notin q.active /\ q.size[f[k]] > 0
    <3> SUFFICES ASSUME NEW k \in DOMAIN f PROVE f[k] \notin q.active /\ q.size[f[k]] > 0
      OBVIOUS
    <3>1. PICK m \in DOMAIN p.free : m # n /\ f[k] = p.free[m]
      BY <2>7
    <3>2. p.free[m] # b /\ p.free[m] \notin p.active /\ p.size[p.free[m]] > 0
      BY <2>1, <3>1 DEF PoolBooks
    <3> QED
      BY <2>6, <3>1, <3>2
  <2>9. \A j, k \in DOMAIN f : f[j] = f[k] => j = k
    <3> SUFFICES ASSUME NEW j \in DOMAIN f, NEW k \in DOMAIN f, f[j] = f[k] PROVE j = k
      OBVIOUS
    <3>1. PICK m \in DOMAIN p.free : m # n /\ f[j] = p.free[m] /\ m = IF j < n THEN j ELSE j + 1
      BY <2>7
    <3>2. PICK l \in DOMAIN p.free : l # n /\ f[k] = p.free[l] /\ l = IF k < n THEN k ELSE k + 1
      BY <2>7
    <3>3. m = l
      BY <3>1, <3>2 DEF PoolBooks
    <3>4. j \in Nat /\ k \in Nat /\ n \in Nat
      BY <1>4, <2>1, <2>4
    <3> QED
      BY <3>1, <3>2, <3>3, <3>4
  <2>10. \A c \in q.active : q.size[c] > 0
    BY <2>5, <2>6 DEF PoolBooks
  <2>11. PoolBooks(q)
    BY <2>6, <2>8, <2>9, <2>10 DEF PoolBooks
  <2>12. Out(q) = Out(p) \union {b}
    <3>1. \A m \in DOMAIN p.pending : p.pending[m] # b
      BY <2>5 DEF PoolBooks
    <3> QED
      BY <2>6, <3>1 DEF Out
  <2> QED
    BY <1>2, <1>3, <2>1, <2>5, <2>6, <2>11, <2>12 DEF Granting
<1>7. CASE b # 0 /\ n = 0
  <2>1. Unallocated(p) # {} /\ b = Least(Unallocated(p))
    BY <1>1, <1>2, <1>7 DEF Acquired
  <2>2. Unallocated(p) \subseteq Nat
    BY BuffersAreNat DEF Unallocated
  <2>3. b \in Buffers /\ p.size[b] = 0
    BY <2>1, <2>2, LeastExists DEF Unallocated
  <2>4. PICK z : z = Granted(kind, bytes)
    OBVIOUS
  <2>5. z \in Sizes /\ z > 0 /\ Holds(kind, z, bytes)
    <3>1. bytes \in Sizes /\ bytes > 0
      BY BuffersAreNat DEF Sizes
    <3>2. RoundUp(bytes) \in Sizes /\ RoundUp(bytes) >= bytes
      BY RoundUpFits
    <3>3. RoundUp(bytes) > 0
      <4>1. RoundUp(bytes) \in Nat /\ bytes \in Nat
        BY <3>1, <3>2, BuffersAreNat
      <4> QED
        BY <3>1, <3>2, <4>1
    <3>4. bytes >= bytes
      BY <3>1, BuffersAreNat
    <3> QED
      BY <2>4, <3>1, <3>2, <3>3, <3>4 DEF Granted, Holds
  <2>6. q = [p EXCEPT !.size[b] = z, !.active = p.active \union {b}]
    BY <1>1, <1>2, <1>3, <1>7, <2>4 DEF AfterAcquire
  <2>7. b \notin p.active /\ \A m \in DOMAIN p.free : p.free[m] # b
    BY <2>3, BuffersAreNat DEF PoolBooks
  <2>8. q.free = p.free /\ q.active = p.active \union {b} /\ q.pending = p.pending /\ ~q.misuse
        /\ q.size = [p.size EXCEPT ![b] = z]
        /\ q \in [size : [Buffers -> Sizes], free : Seq(Buffers), active : SUBSET Buffers,
                  pending : Seq(Buffers), misuse : BOOLEAN]
    BY <1>4, <2>3, <2>5, <2>6
  <2>9. /\ \A c \in q.active : q.size[c] > 0
        /\ \A m \in DOMAIN q.free : q.free[m] \notin q.active /\ q.size[q.free[m]] > 0
    BY <1>4, <2>3, <2>5, <2>7, <2>8 DEF PoolBooks
  <2>10. PoolBooks(q)
    BY <2>8, <2>9 DEF PoolBooks
  <2>11. Out(q) = Out(p) \union {b}
    <3>1. \A m \in DOMAIN p.pending : p.pending[m] # b
      BY <2>7 DEF PoolBooks
    <3> QED
      BY <2>8, <3>1 DEF Out
  <2> QED
    BY <1>2, <1>3, <1>4, <2>3, <2>5, <2>7, <2>8, <2>10, <2>11 DEF Granting
<1> QED
  BY <1>5, <1>6, <1>7

(* What is returned was out, of the right size, and is no longer. *)
LEMMA ReleaseReturns ==
    ASSUME NEW kind \in Backends, NEW p, PoolBooks(p), NEW b \in Out(p), NEW bytes,
           kind = "host" => p.size[b] = RoundUp(bytes), NEW encoding \in BOOLEAN,
           NEW q, q = AfterRelease(p, kind, b, bytes, encoding)
    PROVE  PoolBooks(q) /\ Out(q) = Out(p) \ {b} /\ q.size = p.size
<1>1. /\ p \in [size : [Buffers -> Sizes], free : Seq(Buffers), active : SUBSET Buffers,
               pending : Seq(Buffers), misuse : BOOLEAN]
      /\ ~p.misuse
      /\ b \in p.active /\ b \in Buffers /\ \A n \in DOMAIN p.pending : p.pending[n] # b
  BY DEF PoolBooks, Out
<1>2. CASE q = GiveBack(p, b)
  <2>1. PICK f : f = Append(p.free, b)
    OBVIOUS
  <2>2. /\ f \in Seq(Buffers) /\ DOMAIN f = 1 .. (Len(p.free) + 1) /\ Len(p.free) \in Nat
        /\ DOMAIN p.free = 1 .. Len(p.free)
        /\ \A n \in 1 .. Len(p.free) : f[n] = p.free[n]
        /\ f[Len(p.free) + 1] = b
    BY <1>1, <2>1
  <2>3. /\ q.free = f /\ q.active = p.active \ {b} /\ q.pending = p.pending /\ ~q.misuse
        /\ q.size = p.size
        /\ q \in [size : [Buffers -> Sizes], free : Seq(Buffers), active : SUBSET Buffers,
                  pending : Seq(Buffers), misuse : BOOLEAN]
    BY <1>1, <1>2, <2>1, <2>2 DEF GiveBack
  <2>4. \A n \in DOMAIN f : (f[n] = b /\ n = Len(p.free) + 1)
                            \/ (n \in DOMAIN p.free /\ f[n] = p.free[n])
    <3> SUFFICES ASSUME NEW n \in DOMAIN f
                 PROVE  (f[n] = b /\ n = Len(p.free) + 1)
                        \/ (n \in DOMAIN p.free /\ f[n] = p.free[n])
      OBVIOUS
    <3>1. n \in 1 .. (Len(p.free) + 1)
      BY <2>2
    <3>2. n = Len(p.free) + 1 \/ n \in 1 .. Len(p.free)
      BY <2>2, <3>1
    <3>3. CASE n = Len(p.free) + 1
      <4>1. f[Len(p.free) + 1] = b
        BY <2>2
      <4> QED
        BY ONLY <3>3, <4>1
    <3>4. CASE n \in 1 .. Len(p.free)
      BY <2>2, <3>4
    <3> QED
      BY <3>2, <3>3, <3>4
  <2>5. \A n \in DOMAIN f : f[n] \notin q.active /\ q.size[f[n]] > 0
    BY <1>1, <2>3, <2>4 DEF PoolBooks
  <2>6. \A m, n \in DOMAIN f : f[m] = f[n] => m = n
    BY <1>1, <2>2, <2>4 DEF PoolBooks
  <2>7. PoolBooks(q)
    BY <1>1, <2>3, <2>5, <2>6 DEF PoolBooks
  <2>8. Out(q) = Out(p) \ {b}
    BY <2>3 DEF Out
  <2> QED
    BY <2>3, <2>7, <2>8
<1>3. CASE kind = "host"
  BY <1>1, <1>2, <1>3 DEF AfterRelease, HostRelease
<1>4. CASE kind = "cuda"
  <2>1. PICK g : g = GiveBack(p, b)
    OBVIOUS
  <2>2. g.misuse = p.misuse /\ g = [p EXCEPT !.free = Append(p.free, b), !.active = p.active \ {b}]
    BY <1>1, <2>1 DEF GiveBack
  <2>3. q = [g EXCEPT !.misuse = FALSE]
    BY <1>1, <1>4, <2>1, <2>2 DEF AfterRelease, CudaRelease
  <2>4. q = g
    BY <1>1, <2>2, <2>3
  <2> QED
    BY <1>2, <2>1, <2>4
<1>5. CASE kind = "metal" /\ ~encoding
  BY <1>1, <1>2, <1>5 DEF AfterRelease, MetalRelease
<1>6. CASE kind = "metal" /\ encoding
  <2>1. PICK f : f = Append(p.pending, b)
    OBVIOUS
  <2>2. q = [p EXCEPT !.pending = f]
    BY <1>1, <1>6, <2>1 DEF AfterRelease, MetalRelease
  <2>3. /\ f \in Seq(Buffers) /\ DOMAIN f = 1 .. (Len(p.pending) + 1) /\ Len(p.pending) \in Nat
        /\ DOMAIN p.pending = 1 .. Len(p.pending)
        /\ \A n \in 1 .. Len(p.pending) : f[n] = p.pending[n]
        /\ f[Len(p.pending) + 1] = b
    BY <1>1, <2>1
  <2>4. /\ q.free = p.free /\ q.active = p.active /\ q.pending = f /\ ~q.misuse
        /\ q.size = p.size
        /\ q \in [size : [Buffers -> Sizes], free : Seq(Buffers), active : SUBSET Buffers,
                  pending : Seq(Buffers), misuse : BOOLEAN]
    BY <1>1, <2>2, <2>3
  <2>5. \A n \in DOMAIN f : \/ f[n] = b /\ n = Len(p.pending) + 1
                            \/ n \in DOMAIN p.pending /\ f[n] = p.pending[n]
    <3> SUFFICES ASSUME NEW n \in DOMAIN f
                 PROVE  (f[n] = b /\ n = Len(p.pending) + 1)
                        \/ (n \in DOMAIN p.pending /\ f[n] = p.pending[n])
      OBVIOUS
    <3>1. n \in 1 .. (Len(p.pending) + 1)
      BY <2>3
    <3>2. n = Len(p.pending) + 1 \/ n \in 1 .. Len(p.pending)
      BY <2>3, <3>1
    <3>3. CASE n = Len(p.pending) + 1
      <4>1. f[Len(p.pending) + 1] = b
        BY <2>3
      <4> QED
        BY ONLY <3>3, <4>1
    <3>4. CASE n \in 1 .. Len(p.pending)
      BY <2>3, <3>4
    <3> QED
      BY <3>2, <3>3, <3>4
  <2>6. \A n \in DOMAIN f : f[n] \in q.active
    BY <1>1, <2>4, <2>5 DEF PoolBooks
  <2>7. \A m, n \in DOMAIN f : f[m] = f[n] => m = n
    BY <1>1, <2>3, <2>5 DEF PoolBooks
  <2>8. PoolBooks(q)
    BY <1>1, <2>4, <2>6, <2>7 DEF PoolBooks
  <2>9. {f[n] : n \in DOMAIN f} = {p.pending[n] : n \in DOMAIN p.pending} \union {b}
    <3>1. \A n \in DOMAIN p.pending : n \in DOMAIN f /\ f[n] = p.pending[n]
      BY <2>3
    <3>2. Len(p.pending) + 1 \in DOMAIN f
      BY <2>3
    <3> QED
      BY <2>3, <2>5, <3>1, <3>2
  <2>10. Out(q) = Out(p) \ {b}
    <3>1. Out(q) = p.active \ {f[n] : n \in DOMAIN f}
      BY <2>4 DEF Out
    <3> HIDE DEF Out
    <3>2. PICK P : P = {p.pending[n] : n \in DOMAIN p.pending}
      OBVIOUS
    <3>3. Out(q) = p.active \ (P \union {b})
      BY <2>9, <3>1, <3>2
    <3>4. Out(p) = p.active \ P
      BY <3>2 DEF Out
    <3> QED
      BY <3>3, <3>4
  <2> QED
    BY <2>4, <2>8, <2>10
<1> QED
  BY <1>3, <1>4, <1>5, <1>6 DEF Backends

(* The end of a graph: what was due to return has returned. *)
LEMMA FlushSettles ==
    ASSUME NEW p, PoolBooks(p), NEW q, q = Flushed(p)
    PROVE  PoolBooks(q) /\ Out(q) = Out(p) /\ q.size = p.size
<1>1. /\ p \in [size : [Buffers -> Sizes], free : Seq(Buffers), active : SUBSET Buffers,
               pending : Seq(Buffers), misuse : BOOLEAN]
      /\ ~p.misuse
  BY DEF PoolBooks
<1>2. PICK f : f = p.free \o p.pending
  OBVIOUS
<1>3. PICK l \in Nat, k \in Nat : l = Len(p.free) /\ k = Len(p.pending)
  BY <1>1
<1>4. /\ f \in Seq(Buffers) /\ DOMAIN f = 1 .. (l + k)
      /\ DOMAIN p.free = 1 .. l /\ DOMAIN p.pending = 1 .. k
      /\ \A n \in 1 .. (l + k) : f[n] = IF n <= l THEN p.free[n] ELSE p.pending[n - l]
  BY <1>1, <1>2, <1>3
<1>5. /\ q.free = f /\ q.active = Out(p) /\ q.pending = <<>> /\ ~q.misuse /\ q.size = p.size
      /\ q \in [size : [Buffers -> Sizes], free : Seq(Buffers), active : SUBSET Buffers,
                pending : Seq(Buffers), misuse : BOOLEAN]
  <2>1. PICK A : A = p.active \ {p.pending[n] : n \in DOMAIN p.pending}
    OBVIOUS
  <2>2. q = [p EXCEPT !.free = f, !.active = A, !.pending = <<>>] /\ A \subseteq Buffers
    BY <1>1, <1>2, <2>1 DEF Flushed
  <2>3. <<>> \in Seq(Buffers) /\ A = Out(p)
    BY <2>1 DEF Out
  <2> HIDE DEF Out
  <2> QED
    BY <1>1, <1>4, <2>2, <2>3
<1>6. ASSUME NEW n \in DOMAIN f
      PROVE  \/ n <= l /\ n \in DOMAIN p.free /\ f[n] = p.free[n]
             \/ n > l /\ n - l \in DOMAIN p.pending /\ f[n] = p.pending[n - l]
  <2>1. n \in 1 .. (l + k)
    BY <1>4
  <2>2. CASE n <= l
    BY <1>4, <2>1, <2>2
  <2>3. CASE ~(n <= l)
    <3>1. n - l \in 1 .. k /\ n > l
      BY <2>1, <2>3
    <3> QED
      BY <1>4, <2>1, <2>3, <3>1
  <2> QED
    BY <2>2, <2>3
<1>7. \A n \in DOMAIN f : f[n] \notin q.active /\ q.size[f[n]] > 0
  <2> SUFFICES ASSUME NEW n \in DOMAIN f PROVE f[n] \notin Out(p) /\ p.size[f[n]] > 0
    BY <1>5
  <2>1. CASE n <= l /\ n \in DOMAIN p.free /\ f[n] = p.free[n]
    BY <2>1 DEF PoolBooks, Out
  <2>2. CASE n > l /\ n - l \in DOMAIN p.pending /\ f[n] = p.pending[n - l]
    <3>1. PICK j \in DOMAIN p.pending : j = n - l
      BY <2>2
    <3>2. f[n] = p.pending[j] /\ f[n] \in p.active
      BY <2>2, <3>1 DEF PoolBooks
    <3> QED
      BY <3>1, <3>2 DEF PoolBooks, Out
  <2> QED
    BY <1>6, <2>1, <2>2
<1>8. ASSUME NEW m \in DOMAIN f, NEW n \in DOMAIN f, f[m] = f[n]
      PROVE  m = n
  <2>1. m \in Nat /\ n \in Nat
    BY <1>4
  <2>2. CASE m <= l /\ n <= l
    BY <1>6, <1>8, <2>1, <2>2 DEF PoolBooks
  <2>3. CASE m > l /\ n > l
    <3>1. m - l = n - l
      BY <1>3, <1>6, <1>8, <2>1, <2>3 DEF PoolBooks
    <3> QED
      BY <1>3, <2>1, <3>1
  <2>4. ~(m <= l /\ n > l) /\ ~(m > l /\ n <= l)
    BY <1>3, <1>6, <1>8, <2>1 DEF PoolBooks
  <2> QED
    BY <1>3, <2>1, <2>2, <2>3, <2>4
<1>9. DOMAIN q.pending = {}
  BY <1>5
<1>10. PoolBooks(q)
  BY <1>5, <1>7, <1>8, <1>9 DEF PoolBooks, Out
<1> QED
  BY <1>5, <1>9, <1>10 DEF Out

LEMMA EmptyPoolBooks ==
    PoolBooks(EmptyPool) /\ Out(EmptyPool) = {}
<1>1. 0 \in Sizes /\ <<>> \in Seq(Buffers) /\ DOMAIN <<>> = {}
  BY BuffersAreNat DEF Sizes
<1> QED
  BY <1>1 DEF PoolBooks, Out, EmptyPool

-----------------------------------------------------------------------------
(* The loops over the nodes of a graph: releases, and the inputs of a pass. *)

LEMMA KindIsBackend ==
    ASSUME PlanTypeOK
    PROVE  Kind \in Backends
  BY CasesAssumption DEF PlanTypeOK, Kind

Tensor == [st : 0 .. (NBuffers + Len(graph.ops)), pooled : BOOLEAN,
           rows : 0 .. MaxBytes, dense : BOOLEAN]
PoolRecords == [size : [Buffers -> Sizes], free : Seq(Buffers), active : SUBSET Buffers,
                pending : Seq(Buffers), misuse : BOOLEAN]

LEMMA ReleaseTyped ==
    ASSUME NEW kind \in Backends, NEW p \in PoolRecords, NEW b \in Buffers, NEW bytes,
           NEW encoding \in BOOLEAN
    PROVE  AfterRelease(p, kind, b, bytes, encoding) \in PoolRecords
<1>1. GiveBack(p, b) \in PoolRecords
  <2>1. Append(p.free, b) \in Seq(Buffers) /\ p.active \ {b} \in SUBSET Buffers
    BY DEF PoolRecords
  <2> QED
    BY <2>1 DEF PoolRecords, GiveBack
<1>2. [p EXCEPT !.misuse = TRUE] \in PoolRecords
  BY DEF PoolRecords
<1>3. CudaRelease(p, b) \in PoolRecords
  <2>1. PICK m \in BOOLEAN : CudaRelease(p, b) = [GiveBack(p, b) EXCEPT !.misuse = m]
    <3>1. PICK g \in PoolRecords : g = GiveBack(p, b)
      BY <1>1
    <3>2. (g.misuse \/ b \notin p.active) \in BOOLEAN
      OBVIOUS
    <3> QED
      BY <3>1, <3>2 DEF CudaRelease
  <2> QED
    BY <1>1, <2>1 DEF PoolRecords
<1>4. [p EXCEPT !.pending = Append(@, b)] \in PoolRecords
  <2>1. Append(p.pending, b) \in Seq(Buffers)
    BY DEF PoolRecords
  <2> QED
    BY <2>1 DEF PoolRecords
<1>5. HostRelease(p, b, bytes) \in PoolRecords
  BY <1>1, <1>2 DEF HostRelease
<1>6. MetalRelease(p, b, encoding) \in PoolRecords
  BY <1>1, <1>2, <1>4 DEF MetalRelease
<1> HIDE DEF PoolRecords
<1>7. CASE kind = "host"
  BY <1>5, <1>7 DEF AfterRelease
<1>8. CASE kind = "cuda"
  BY <1>3, <1>8 DEF AfterRelease
<1>9. CASE kind = "metal"
  BY <1>6, <1>9 DEF AfterRelease
<1> QED
  BY <1>7, <1>8, <1>9 DEF Backends

(* Releasing tensors that own distinct buffers returns exactly these. *)
LEMMA FreedReturns ==
    ASSUME PlanTypeOK, NEW p, PoolBooks(p), NEW ts \in [Nodes -> Tensor], NEW S \in SUBSET Nodes,
           NEW encoding \in BOOLEAN, NEW q, q = Freed(p, ts, S, encoding),
           \A i \in Materialized(ts, S) :
               ts[i].st \in Out(p) /\ Holds(Kind, p.size[ts[i].st], ts[i].rows),
           \A i, j \in Materialized(ts, S) : ts[i].st = ts[j].st => i = j
    PROVE  /\ PoolBooks(q) /\ q.size = p.size
           /\ Out(q) = Out(p) \ {ts[i].st : i \in Materialized(ts, S)}
<1>1. PICK N \in Nat : N = Len(graph.ops) /\ Nodes = 1 .. N
  BY Loaded
<1>2. PICK M : M = Materialized(ts, S) /\ M \subseteq Nodes
  BY DEF Materialized
<1>3. PICK kind \in Backends : kind = Kind
  BY KindIsBackend
<1> DEFINE Eqn(g) == g = [i \in 0 .. N |->
                IF i = 0 THEN p
                ELSE IF i \in M THEN AfterRelease(g[i - 1], kind, ts[i].st, ts[i].rows, encoding)
                ELSE g[i - 1]]
           c == CHOOSE g : Eqn(g)
<1>4. q = c[N]
  BY <1>1, <1>2, <1>3 DEF Freed
<1>5. \A i \in M : i \in 1 .. N /\ ts[i].st \in Buffers
  BY <1>1, <1>2 DEF Out, PoolBooks
<1>6. PICK step : step = [i \in 1 .. N |-> [x \in PoolRecords |->
              IF i \in M THEN AfterRelease(x, kind, ts[i].st, ts[i].rows, encoding) ELSE x]]
  OBVIOUS
<1>7. step \in [1 .. N -> [PoolRecords -> PoolRecords]]
  <2>1. ASSUME NEW i \in 1 .. N, NEW x \in PoolRecords
        PROVE  (IF i \in M THEN AfterRelease(x, kind, ts[i].st, ts[i].rows, encoding) ELSE x)
                   \in PoolRecords
    BY <1>5, ReleaseTyped
  <2> QED
    BY <1>6, <2>1
<1>8. p \in PoolRecords
  BY DEF PoolBooks, PoolRecords
<1>9. PICK f : Loop(f, PoolRecords, N, p, step)
  BY <1>7, <1>8, LoopExists
<1>10. /\ f \in [0 .. N -> PoolRecords]
       /\ \A i \in 0 .. N : f[i] = IF i = 0 THEN p ELSE step[i][f[i - 1]]
  BY <1>9 DEF Loop
<1>11. ASSUME NEW i \in 0 .. N
       PROVE  f[i] = IF i = 0 THEN p
                     ELSE IF i \in M THEN AfterRelease(f[i - 1], kind, ts[i].st, ts[i].rows,
                       encoding)
                     ELSE f[i - 1]
  <2>1. CASE i = 0
    BY <1>10, <2>1
  <2>2. CASE i # 0
    <3>1. i \in 1 .. N /\ i - 1 \in 0 .. N
      BY <2>2
    <3>2. f[i - 1] \in PoolRecords /\ f[i] = step[i][f[i - 1]]
      BY <1>10, <2>2, <3>1
    <3> HIDE DEF PoolRecords
    <3> QED
      BY <1>6, <2>2, <3>1, <3>2
  <2> QED
    BY <2>1, <2>2
<1>12. Eqn(f)
  BY <1>10, <1>11
<1>13. Eqn(c)
  <2> HIDE DEF Eqn
  <2> QED
    BY <1>12
<1>14. \A i \in 0 .. N : c[i] = IF i = 0 THEN p
                     ELSE IF i \in M THEN AfterRelease(c[i - 1], kind, ts[i].st, ts[i].rows,
                       encoding)
                     ELSE c[i - 1]
  <2> HIDE DEF c
  <2> QED
    BY <1>13
<1> HIDE DEF c, Eqn
<1> DEFINE Upto(k) == {ts[i].st : i \in {j \in M : j <= k}}
           T == {k \in 0 .. N : /\ PoolBooks(c[k]) /\ c[k].size = p.size
                                /\ Out(c[k]) = Out(p) \ Upto(k)}
<1>15. 0 \in T
  <2>1. c[0] = p
    BY <1>14
  <2>2. {j \in M : j <= 0} = {}
    BY <1>5
  <2> QED
    BY <2>1, <2>2
<1>16. ASSUME NEW k \in 1 .. N, k - 1 \in T
       PROVE  k \in T
  <2>1. PICK r : r = c[k - 1]
    OBVIOUS
  <2>2. PoolBooks(r) /\ r.size = p.size /\ Out(r) = Out(p) \ Upto(k - 1)
    BY <1>16, <2>1
  <2>3. k \in 0 .. N /\ k # 0
    OBVIOUS
  <2>4. CASE k \notin M
    <3>1. c[k] = r
      BY <1>14, <2>1, <2>3, <2>4
    <3>2. {j \in M : j <= k} = {j \in M : j <= k - 1}
      BY <1>5, <2>4
    <3> QED
      BY <2>2, <2>3, <3>1, <3>2
  <2>5. CASE k \in M
    <3>1. PICK b : b = ts[k].st
      OBVIOUS
    <3>2. b \in Out(p) /\ Holds(kind, p.size[b], ts[k].rows)
      BY <1>2, <1>3, <2>5, <3>1
    <3>3. b \notin Upto(k - 1)
      <4>1. ASSUME NEW j \in M, j <= k - 1 PROVE ts[j].st # b
        <5>1. j # k
          BY <1>5, <4>1
        <5> QED
          BY <1>2, <2>5, <3>1, <5>1
      <4> QED
        BY <4>1
    <3>4. c[k] = AfterRelease(r, kind, b, ts[k].rows, encoding)
      BY <1>14, <2>1, <2>3, <2>5, <3>1
    <3>5. b \in Out(r) /\ (kind = "host" => r.size[b] = RoundUp(ts[k].rows))
      BY <2>2, <3>2, <3>3 DEF Holds
    <3>6. PoolBooks(c[k]) /\ Out(c[k]) = Out(r) \ {b} /\ c[k].size = r.size
      <4>1. PICK bytes : bytes = ts[k].rows
        OBVIOUS
      <4>2. PICK z : z = c[k]
        OBVIOUS
      <4>3. z = AfterRelease(r, kind, b, bytes, encoding)
            /\ (kind = "host" => r.size[b] = RoundUp(bytes))
        BY <3>4, <3>5, <4>1, <4>2
      <4>4. PoolBooks(r) /\ b \in Out(r) /\ kind \in Backends /\ encoding \in BOOLEAN
        BY <2>2, <3>5
      <4>5. PoolBooks(z) /\ Out(z) = Out(r) \ {b} /\ z.size = r.size
        BY ONLY <4>3, <4>4, ReleaseReturns
      <4> QED
        BY <4>2, <4>5
    <3>7. Upto(k) = Upto(k - 1) \union {b}
      <4>1. {j \in M : j <= k} = {j \in M : j <= k - 1} \union {k}
        <5>1. \A j \in M : j \in Nat /\ (j <= k <=> j <= k - 1 \/ j = k)
          <6> SUFFICES ASSUME NEW j \in M PROVE j \in Nat /\ (j <= k <=> j <= k - 1 \/ j = k)
            OBVIOUS
          <6>1. j \in 1 .. N
            BY <1>5
          <6> HIDE DEF T, Upto
          <6> QED
            BY <6>1
        <5>2. k <= k
          OBVIOUS
        <5> QED
          BY <2>5, <5>1, <5>2
      <4> QED
        BY <3>1, <4>1
    <3> QED
      BY <2>2, <2>3, <3>6, <3>7
  <2> QED
    BY <2>4, <2>5
<1>17. N \in T
  <2> HIDE DEF T
  <2>1. \A k \in 0 .. N : k \in T
    BY <1>15, <1>16, UpTo
  <2> QED
    BY <2>1
<1>18. {j \in M : j <= N} = M
  BY <1>5
<1> QED
  BY <1>2, <1>4, <1>17, <1>18

(***************************************************************************)
(* Storage.  DenseAt and ViewAt say what layout and what kind of result a  *)
(* node has in a pass of r rows; the code asks the tensors at different    *)
(* moments and must find the same answer every time.                       *)
(***************************************************************************)
StridedResult(i) == OnDevice /\ StridedTarget(i)
DenseAt(i, r) == r = 1 \/ ~(Op(i) \in {"permute", "slice"} \/ StridedResult(i))
ViewAt(i, r) ==
    \/ Op(i) \in {"permute", "slice"}
    \/ Op(i) = "reshape" /\ (DenseAt(Source(i), r) \/ StridedResult(i))
    \/ Op(i) = "contiguous" /\ OnDevice /\ DenseAt(Source(i), r)

Spaces == [pool : PoolRecords, holder : [Buffers -> Nodes \union {0}],
           tensors : [Nodes -> Tensor]]

\* What one node's tensor is: nothing, its own buffer, the storage of its
\* source, or storage of the caller.
Settled(w, i) ==
    LET t == w.tensors[i] IN
    /\ t.st \in Buffers =>
           t.pooled /\ t.st \in Out(w.pool) /\ t.rows >= 1 /\ w.pool.size[t.st] >= t.rows
    /\ t.st \notin Buffers /\ t.st # 0 => ~t.pooled
    /\ t.st # 0 /\ ~Bound(i) =>
           IF ViewAt(i, t.rows) THEN t.st = w.tensors[Source(i)].st
           ELSE t.st \in Buffers /\ w.holder[t.st] = i /\ Holds(Kind, w.pool.size[t.st], t.rows)
    /\ t.st \in Buffers /\ Bound(i) =>
           IsInput(i) /\ w.holder[t.st] = i /\ Holds(Kind, w.pool.size[t.st], t.rows)

\* The storage of the nodes in `live`, and nothing is out but what they hold.
Storage(w, live) ==
    /\ w \in Spaces /\ PoolBooks(w.pool)
    /\ \A b \in Out(w.pool) : w.holder[b] \in live /\ w.tensors[w.holder[b]].st = b
    /\ \A i \in live : Settled(w, i)

LEMMA ViewSource ==
    ASSUME PlanTypeOK, Served(graph, setup), NEW i \in Nodes, NEW r, ViewAt(i, r)
    PROVE  /\ Borrows(i) /\ ~Bound(i) /\ graph.ins[i] # <<>>
           /\ Source(i) \in Nodes /\ Source(i) \in Nat /\ i \in Nat /\ Source(i) < i
<1>1. Op(i) \in {"permute", "slice", "reshape"} \/ (Op(i) = "contiguous" /\ OnDevice)
  BY DEF ViewAt
<1>2. ViewLike(i) /\ ~Bound(i) /\ Op(i) \in ViewOps \union {"contiguous"}
  BY <1>1 DEF ViewLike, ViewOps, BoundOps, Bound
<1>3. graph.ins[i] # <<>>
  BY <1>2 DEF Served, Nodes, Op
<1>4. Borrows(i)
  BY <1>2, <1>3 DEF Borrows
<1> QED
  BY <1>2, <1>3, <1>4, SourceBelow, Loaded

(* Every buffer is held by the first node that has it, which is no view. *)
LEMMA OwnersFirst ==
    ASSUME PlanTypeOK, Served(graph, setup), NEW w, Storage(w, Nodes),
           NEW i \in Nodes, w.tensors[i].st \in Buffers
    PROVE  /\ w.holder[w.tensors[i].st] \in 1 .. i
           /\ w.tensors[w.holder[w.tensors[i].st]].st = w.tensors[i].st
           /\ ViewAt(i, w.tensors[i].rows) => w.holder[w.tensors[i].st] # i
           /\ ~ViewAt(i, w.tensors[i].rows) => w.holder[w.tensors[i].st] = i
<1>1. PICK N \in Nat : N = Len(graph.ops) /\ Nodes = 1 .. N
  BY Loaded
<1> DEFINE Good(k) == w.tensors[k].st \in Buffers =>
                          /\ w.holder[w.tensors[k].st] \in 1 .. k
                          /\ ViewAt(k, w.tensors[k].rows) => w.holder[w.tensors[k].st] # k
           T == {n \in 0 .. N : \A k \in 1 .. n : Good(k)}
<1>2. ASSUME NEW k \in Nodes, w.tensors[k].st \in Buffers
      PROVE  /\ w.tensors[k].st \in Out(w.pool) /\ w.tensors[k].st # 0
             /\ ~ViewAt(k, w.tensors[k].rows) => w.holder[w.tensors[k].st] = k
             /\ ViewAt(k, w.tensors[k].rows) => w.tensors[k].st = w.tensors[Source(k)].st
  <2>1. Settled(w, k) /\ w.tensors[k].st # 0
    BY <1>2, BuffersAreNat DEF Storage
  <2>2. ViewAt(k, w.tensors[k].rows) => ~Bound(k)
    BY ViewSource
  <2> QED
    BY <1>2, <2>1, <2>2 DEF Settled
<1>3. 0 \in T
  BY <1>1
<1>4. ASSUME NEW n \in 1 .. N, n - 1 \in T
      PROVE  n \in T
  <2>1. n \in Nodes /\ n \in 0 .. N /\ n \in 1 .. n
    BY <1>1
  <2>2. \A k \in 1 .. n : k = n \/ k \in 1 .. (n - 1)
    OBVIOUS
  <2>3. \A k \in 1 .. (n - 1) : Good(k)
    BY <1>4
  <2>4. ASSUME w.tensors[n].st \in Buffers, ViewAt(n, w.tensors[n].rows)
        PROVE  Good(n)
    <3>1. PICK s : s = Source(n)
      OBVIOUS
    <3>2. s \in 1 .. (n - 1) /\ s \in Nat
      BY <1>1, <2>1, <2>4, <3>1, ViewSource
    <3>3. w.tensors[n].st = w.tensors[s].st
      BY <1>2, <2>1, <2>4, <3>1
    <3>4. w.holder[w.tensors[n].st] \in 1 .. s
      BY <2>3, <2>4, <3>2, <3>3
    <3>5. w.holder[w.tensors[n].st] \in 1 .. n /\ w.holder[w.tensors[n].st] # n
      BY <3>2, <3>4
    <3> QED
      BY <3>5
  <2>5. ASSUME w.tensors[n].st \in Buffers, ~ViewAt(n, w.tensors[n].rows)
        PROVE  Good(n)
    BY <1>2, <2>1, <2>5
  <2>6. Good(n)
    BY <2>4, <2>5
  <2> HIDE DEF Good
  <2> QED
    BY <2>1, <2>2, <2>3, <2>6
<1>5. \A n \in 0 .. N : n \in T
  <2> HIDE DEF T
  <2> QED
    BY <1>3, <1>4, UpTo
<1>6. Good(i)
  <2>1. N \in T /\ i \in 1 .. N
    BY <1>1, <1>5
  <2> HIDE DEF Good
  <2> QED
    BY <2>1
<1>7. w.tensors[w.holder[w.tensors[i].st]].st = w.tensors[i].st
  BY <1>2 DEF Storage
<1> QED
  BY <1>2, <1>6, <1>7

LEMMA ClearedTensor ==
    ASSUME PlanTypeOK, NEW t \in Tensor
    PROVE  /\ Clear(t) \in Tensor /\ Clear(t).st = 0 /\ Clear(t).pooled = FALSE
           /\ Clear(t).rows = t.rows /\ Clear(t).dense = t.dense
<1>1. PICK H : H = 0 .. (NBuffers + Len(graph.ops))
  OBVIOUS
<1>2. 0 \in H
  BY <1>1, BuffersAreNat, Loaded
<1>3. PICK R : R = 0 .. MaxBytes
  OBVIOUS
<1>4. t \in [st : H, pooled : BOOLEAN, rows : R, dense : BOOLEAN]
  BY <1>1, <1>3 DEF Tensor
<1>5. /\ Clear(t) \in [st : H, pooled : BOOLEAN, rows : R, dense : BOOLEAN]
      /\ Clear(t).st = 0 /\ Clear(t).pooled = FALSE
      /\ Clear(t).rows = t.rows /\ Clear(t).dense = t.dense
  BY <1>2, <1>4 DEF Clear
<1> QED
  BY <1>1, <1>3, <1>5 DEF Tensor

(* What is returned of a set of owners: their buffers, each one once.      *)
Owning(w, S) ==
    \A i \in S : w.tensors[i].st # 0 => Settled(w, i) /\ ~ViewAt(i, w.tensors[i].rows)
Returned(w, S, q) ==
    /\ PoolBooks(q) /\ q.size = w.pool.size
    /\ \A i \in S : w.tensors[i].st \notin Out(q)
    /\ \A b \in Out(q) : b \in Out(w.pool)
    /\ \A b \in Out(w.pool) : (\A i \in S : w.tensors[i].st # b) => b \in Out(q)

LEMMA OwnersReturned ==
    ASSUME PlanTypeOK, NEW w, w \in Spaces, PoolBooks(w.pool), NEW S \in SUBSET Nodes,
           Owning(w, S), NEW encoding \in BOOLEAN
    PROVE  Returned(w, S, Freed(w.pool, w.tensors, S, encoding))
<1> DEFINE q == Freed(w.pool, w.tensors, S, encoding)
<1> HIDE DEF q
<1>1. PICK M : M = Materialized(w.tensors, S)
  OBVIOUS
<1>2. \A i \in M : i \in S /\ i \in Nodes /\ w.tensors[i].pooled /\ w.tensors[i].st # 0
  BY <1>1 DEF Materialized
<1>3. ASSUME NEW i \in M
      PROVE  /\ w.tensors[i].st \in Buffers /\ w.tensors[i].st \in Out(w.pool)
             /\ w.holder[w.tensors[i].st] = i
             /\ Holds(Kind, w.pool.size[w.tensors[i].st], w.tensors[i].rows)
    <2>1. Settled(w, i) /\ ~ViewAt(i, w.tensors[i].rows) /\ w.tensors[i].pooled
          /\ w.tensors[i].st # 0
      BY <1>2 DEF Owning
    <2> QED
      BY <2>1 DEF Settled
<1>4. \A i, j \in M : w.tensors[i].st = w.tensors[j].st => i = j
  BY <1>3
<1>5. w.tensors \in [Nodes -> Tensor]
  BY DEF Spaces
<1>6. /\ PoolBooks(q) /\ q.size = w.pool.size
      /\ Out(q) = Out(w.pool) \ {w.tensors[i].st : i \in M}
  BY <1>1, <1>3, <1>4, <1>5, FreedReturns DEF q
<1>7. ASSUME NEW i \in S, w.tensors[i].st \in Buffers
      PROVE  i \in M
  <2>1. w.tensors[i].st # 0
    BY <1>7, BuffersAreNat
  <2>2. Settled(w, i) /\ w.tensors[i].rows \in 0 .. MaxBytes
    BY <1>5, <2>1 DEF Tensor, Owning
  <2>3. w.tensors[i].pooled /\ w.tensors[i].rows >= 1
    BY <1>7, <2>2 DEF Settled
  <2> QED
    BY <1>1, <2>1, <2>2, <2>3, BuffersAreNat DEF Materialized
<1>8. \A b \in Out(q) : b \in Buffers
  <2>1. Out(q) \subseteq Buffers
    BY <1>6 DEF Out, PoolBooks
  <2> QED
    BY <2>1
<1>9. \A i \in S : w.tensors[i].st \notin Out(q)
  BY <1>6, <1>7, <1>8
<1>10. Returned(w, S, q)
  BY <1>2, <1>6, <1>9 DEF Returned
<1> QED
  BY <1>10 DEF q

(* Giving up the storage of the nodes in D, views and owners alike.        *)
\* The nodes D may give their storage up, the views B of them nothing at all; F
\* of them forget it, which are all that have some.
Returnable(w, D, B, F) ==
    /\ D \subseteq Computable /\ B \subseteq D /\ F \subseteq D
    /\ \A i \in D : w.tensors[i].st # 0 => i \in F
    /\ \A i \in D : w.tensors[i].st # 0 => (i \in B <=> ViewAt(i, w.tensors[i].rows))
    /\ \A j \in Computable :
           w.tensors[j].st # 0 /\ ViewAt(j, w.tensors[j].rows) /\ Source(j) \in D => j \in D
GaveBack(w, D, q) ==
    /\ Storage(q, Nodes) /\ q.holder = w.holder
    /\ \A i \in D : q.tensors[i].st = 0
    /\ \A i \in Nodes \ D : q.tensors[i] = w.tensors[i]
    /\ \A i \in Nodes : q.tensors[i].st = 0 \/ q.tensors[i] = w.tensors[i]
    /\ \A i \in Nodes : q.tensors[i].dense = w.tensors[i].dense
                         /\ q.tensors[i].rows = w.tensors[i].rows

LEMMA GivenBack ==
    ASSUME PlanTypeOK, Served(graph, setup), NEW w, Storage(w, Nodes),
           NEW D, NEW B, NEW F, Returnable(w, D, B, F), NEW encoding \in BOOLEAN,
           NEW q, q = [pool |-> Freed(w.pool, w.tensors, D \ B, encoding), holder |-> w.holder,
                       tensors |-> Forgotten(w.tensors, F)]
    PROVE  GaveBack(w, D, q)
<1>p. PICK p : p = Freed(w.pool, w.tensors, D \ B, encoding)
  OBVIOUS
<1>t. PICK ts : ts = Forgotten(w.tensors, F)
  OBVIOUS
<1>r. /\ D \subseteq Computable /\ B \subseteq D /\ F \subseteq D
      /\ \A i \in D : w.tensors[i].st # 0 => i \in F
      /\ \A i \in D : w.tensors[i].st # 0 => (i \in B <=> ViewAt(i, w.tensors[i].rows))
  BY DEF Returnable
<1>c. ASSUME NEW j \in Computable, w.tensors[j].st # 0, ViewAt(j, w.tensors[j].rows),
      Source(j) \in D
      PROVE  j \in D
  BY <1>c DEF Returnable
<1>1. /\ w \in Spaces /\ w.tensors \in [Nodes -> Tensor] /\ PoolBooks(w.pool)
      /\ w.holder \in [Buffers -> Nodes \union {0}]
      /\ \A b \in Out(w.pool) : w.holder[b] \in Nodes /\ w.tensors[w.holder[b]].st = b
      /\ \A i \in Nodes : Settled(w, i)
  BY DEF Storage, Spaces
<1>2. D \subseteq Nodes /\ \A i \in D : ~Bound(i)
  BY <1>r DEF Computable
<1>3. /\ PoolBooks(p) /\ p.size = w.pool.size
      /\ \A i \in D \ B : w.tensors[i].st \notin Out(p)
      /\ \A b \in Out(p) : b \in Out(w.pool)
      /\ \A b \in Out(w.pool) : (\A i \in D \ B : w.tensors[i].st # b) => b \in Out(p)
  <2>1. PICK S \in SUBSET Nodes : S = D \ B
    BY <1>2
  <2>2. Owning(w, S)
    BY <1>1, <1>2, <1>r, <2>1 DEF Owning
  <2>3. Returned(w, S, p)
    BY <1>1, <1>p, <2>1, <2>2, OwnersReturned
  <2> QED
    BY <2>1, <2>3 DEF Returned
<1>4. /\ ts \in [Nodes -> Tensor]
      /\ \A i \in F : ts[i] = Clear(w.tensors[i])
      /\ \A i \in Nodes \ F : ts[i] = w.tensors[i]
  <2>1. ASSUME NEW i \in Nodes PROVE Clear(w.tensors[i]) \in Tensor
    <3>1. w.tensors[i] \in Tensor
      BY <1>1
    <3> QED
      BY <3>1, ClearedTensor
  <2> QED
    BY <1>1, <1>2, <1>t, <1>r, <2>1 DEF Forgotten
<1>5. \A i \in F : ts[i].st = 0 /\ ts[i].dense = w.tensors[i].dense
      /\ ts[i].rows = w.tensors[i].rows
  <2> SUFFICES ASSUME NEW i \in F
               PROVE  ts[i].st = 0 /\ ts[i].dense = w.tensors[i].dense
                 /\ ts[i].rows = w.tensors[i].rows
    OBVIOUS
  <2>1. PICK t \in Tensor : t = w.tensors[i]
    BY <1>1, <1>2, <1>r
  <2>2. ts[i] = Clear(t)
    BY <1>4, <2>1
  <2>3. Clear(t).st = 0 /\ Clear(t).dense = t.dense /\ Clear(t).rows = t.rows
    BY ClearedTensor
  <2> QED
    BY <2>1, <2>2, <2>3
<1>6. \A i \in D : ts[i].st = 0
  BY <1>2, <1>4, <1>5, <1>r
<1>7. \A i \in Nodes \ D : ts[i] = w.tensors[i]
  BY <1>4, <1>r
<1>8. /\ \A i \in Nodes : ts[i].st = 0 \/ ts[i] = w.tensors[i]
      /\ \A i \in Nodes : ts[i].dense = w.tensors[i].dense /\ ts[i].rows = w.tensors[i].rows
  BY <1>2, <1>4, <1>5, <1>r
<1>9. q.pool = p /\ q.holder = w.holder /\ q.tensors = ts
      /\ q = [pool |-> p, holder |-> w.holder, tensors |-> ts]
  BY <1>p, <1>t
<1>10. q \in Spaces
  <2>1. p \in PoolRecords
    BY <1>3 DEF PoolBooks, PoolRecords
  <2> HIDE DEF PoolRecords, Tensor
  <2> QED
    BY <1>1, <1>4, <1>9, <2>1 DEF Spaces
(* A view's buffer is only returned with the view: by induction along views. *)
<1>11. ASSUME NEW j \in Nodes, w.tensors[j].st \in Buffers, w.holder[w.tensors[j].st] \in D
       PROVE  j \in D
  <2>1. PICK N \in Nat : N = Len(graph.ops) /\ Nodes = 1 .. N
    BY Loaded
  <2> DEFINE Good(k) == w.tensors[k].st \in Buffers /\ w.holder[w.tensors[k].st] \in D => k \in D
             T == {n \in 0 .. N : \A k \in 1 .. n : Good(k)}
  <2>2. ASSUME NEW n \in 1 .. N, \A k \in 1 .. (n - 1) : Good(k),
               w.tensors[n].st \in Buffers, w.holder[w.tensors[n].st] \in D
        PROVE  n \in D
    <3>1. n \in Nodes /\ w.tensors[n].st # 0
      BY <2>1, <2>2, BuffersAreNat
    <3>2. CASE ViewAt(n, w.tensors[n].rows)
      <4>1. PICK s : s = Source(n)
        OBVIOUS
      <4>2. s \in 1 .. (n - 1) /\ ~Bound(n)
        BY <2>1, <3>1, <3>2, <4>1, ViewSource
      <4>3. w.tensors[n].st = w.tensors[s].st
        BY <1>1, <3>1, <3>2, <4>1, <4>2 DEF Settled
      <4>4. s \in D
        BY <2>2, <4>2, <4>3
      <4>5. n \in Computable
        BY <3>1, <4>2 DEF Computable
      <4> QED
        BY <1>c, <3>1, <3>2, <4>1, <4>4, <4>5
    <3>3. CASE ~ViewAt(n, w.tensors[n].rows)
      <4>1. w.holder[w.tensors[n].st] = n
        BY <2>2, <3>1, <3>3, OwnersFirst
      <4> QED
        BY <2>2, <4>1
    <3> QED
      BY <3>2, <3>3
  <2>3. 0 \in T
    BY <2>1
  <2>4. ASSUME NEW n \in 1 .. N, n - 1 \in T PROVE n \in T
    <3>1. \A k \in 1 .. (n - 1) : Good(k)
      BY <2>4
    <3>2. Good(n)
      BY <2>2, <3>1
    <3>3. \A k \in 1 .. n : k = n \/ k \in 1 .. (n - 1)
      OBVIOUS
    <3> HIDE DEF Good
    <3> QED
      BY <3>1, <3>2, <3>3
  <2>5. \A n \in 0 .. N : n \in T
    <3> HIDE DEF T
    <3> QED
      BY <2>3, <2>4, UpTo
  <2>6. N \in T /\ j \in 1 .. N
    BY <2>1, <2>5
  <2> QED
    BY <1>11, <2>6
<1>12. ASSUME NEW i \in Nodes, w.tensors[i].st \in Buffers, i \notin D
       PROVE  w.tensors[i].st \in Out(p)
  <2>1. w.tensors[i].st \in Out(w.pool) /\ w.tensors[i].st # 0
    BY <1>1, <1>12, BuffersAreNat DEF Settled
  <2>2. ASSUME NEW k \in D \ B, w.tensors[k].st = w.tensors[i].st PROVE FALSE
    <3>1. k \in Nodes /\ ~ViewAt(k, w.tensors[k].rows) /\ w.tensors[k].st \in Buffers
      BY <1>2, <1>12, <1>r, <2>1, <2>2
    <3>2. w.holder[w.tensors[k].st] = k
      BY <3>1, OwnersFirst
    <3> QED
      BY <1>11, <1>12, <2>2, <3>2
  <2> QED
    BY <1>3, <2>1, <2>2
<1>13. ASSUME NEW b \in Out(p) PROVE w.holder[b] \in Nodes /\ ts[w.holder[b]].st = b
  <2>1. b \in Out(w.pool) /\ b \in Buffers /\ w.holder[b] \in Nodes /\ w.tensors[w.holder[b]].st = b
    BY <1>1, <1>3 DEF Out, PoolBooks
  <2>2. PICK h \in Nodes : h = w.holder[b]
    BY <2>1
  <2>3. b # 0 /\ w.tensors[h].st = b /\ w.holder[b] = h
    BY <2>1, <2>2, BuffersAreNat
  <2>4. ~ViewAt(h, w.tensors[h].rows)
    BY <2>1, <2>3, OwnersFirst
  <2>5. h \notin D
    <3>1. ASSUME h \in D PROVE FALSE
      <4>1. h \in D \ B
        BY <1>r, <2>3, <2>4, <3>1
      <4> QED
        BY <1>3, <2>3, <4>1
    <3> QED
      BY <3>1
  <2> QED
    BY <1>7, <2>2, <2>3, <2>5
<1>14. ASSUME NEW i \in Nodes PROVE Settled(q, i)
  <2>1. CASE ts[i].st = 0
    BY <1>9, <2>1, BuffersAreNat DEF Settled
  <2>2. CASE ts[i].st # 0
    <3>1. i \notin D /\ ts[i] = w.tensors[i] /\ w.tensors[i].st # 0
      BY <1>6, <1>7, <2>2
    <3>2. Settled(w, i)
      BY <1>1
    <3>3. ts[i].st \in Buffers => ts[i].st \in Out(p)
      BY <1>12, <3>1
    <3>4. ASSUME ~Bound(i), ViewAt(i, ts[i].rows) PROVE ts[i].st = ts[Source(i)].st
      <4>1. Source(i) \in Nodes /\ i \in Computable
        BY <3>4, ViewSource DEF Computable
      <4>2. Source(i) \notin D
        BY <1>c, <3>1, <3>4, <4>1
      <4>3. ts[Source(i)] = w.tensors[Source(i)]
        BY <1>7, <4>1, <4>2
      <4> QED
        BY <3>1, <3>2, <3>4, <4>3 DEF Settled
    <3> QED
      BY <1>3, <1>9, <3>1, <3>2, <3>3, <3>4 DEF Settled
  <2> QED
    BY <2>1, <2>2
<1>15. Storage(q, Nodes)
  BY <1>3, <1>9, <1>10, <1>13, <1>14 DEF Storage
<1> QED
  BY <1>6, <1>7, <1>8, <1>9, <1>15 DEF GaveBack

-----------------------------------------------------------------------------
(* Gaining storage: what one node acquires changes nothing of the others.  *)

PutTensor(w, i, t) ==
    [pool |-> w.pool, holder |-> w.holder, tensors |-> [w.tensors EXCEPT ![i] = t]]

LEMMA StorageParts ==
    ASSUME PlanTypeOK, NEW w, NEW live, Storage(w, live)
    PROVE  /\ w \in Spaces /\ w.tensors \in [Nodes -> Tensor] /\ PoolBooks(w.pool)
           /\ w.pool \in PoolRecords /\ w.holder \in [Buffers -> Nodes \union {0}]
           /\ Out(w.pool) \subseteq w.pool.active /\ w.pool.active \subseteq Buffers
           /\ 0 \notin Out(w.pool) /\ w.pool.size \in [Buffers -> Sizes]
<1>1. w \in Spaces /\ PoolBooks(w.pool)
  BY DEF Storage
<1>2. w.pool \in PoolRecords
  BY <1>1 DEF Spaces
<1>3. w.tensors \in [Nodes -> Tensor] /\ w.holder \in [Buffers -> Nodes \union {0}]
  BY <1>1 DEF Spaces
<1>4. w.pool.active \subseteq Buffers /\ w.pool.size \in [Buffers -> Sizes]
  BY <1>2 DEF PoolRecords
<1>5. Out(w.pool) \subseteq w.pool.active
  BY DEF Out
<1> QED
  BY <1>1, <1>2, <1>3, <1>4, <1>5, BuffersAreNat

(* A pool with the same buffers out will do as well. *)
LEMMA PoolSwapped ==
    ASSUME PlanTypeOK, NEW w, NEW live, Storage(w, live), NEW p, PoolBooks(p),
           Out(p) = Out(w.pool), p.size = w.pool.size,
           NEW q, q = [pool |-> p, holder |-> w.holder, tensors |-> w.tensors]
    PROVE  Storage(q, live)
<1>1. q.pool = p /\ q.holder = w.holder /\ q.tensors = w.tensors
  OBVIOUS
<1>2. q \in Spaces
  <2>1. p \in PoolRecords
    BY DEF PoolBooks, PoolRecords
  <2> HIDE DEF PoolRecords
  <2> QED
    BY <2>1, StorageParts DEF Spaces
<1>3. \A i \in live : Settled(q, i)
  BY <1>1 DEF Storage, Settled
<1> QED
  BY <1>1, <1>2, <1>3 DEF Storage

(* A tensor that holds nothing, or is not moved, may change its shape. *)
LEMMA Reshaped ==
    ASSUME PlanTypeOK, NEW w, Storage(w, Nodes), NEW i \in Nodes, NEW t \in Tensor,
           t.st = w.tensors[i].st, t.pooled = w.tensors[i].pooled,
           t.st = 0 \/ t.rows = w.tensors[i].rows
    PROVE  Storage(PutTensor(w, i, t), Nodes)
<1>1. PICK q : q = PutTensor(w, i, t)
  OBVIOUS
<1>2. /\ q.pool = w.pool /\ q.holder = w.holder
      /\ q.tensors = [w.tensors EXCEPT ![i] = t]
  BY <1>1 DEF PutTensor
<1>3. /\ w.tensors \in [Nodes -> Tensor] /\ w \in Spaces
      /\ w.pool \in PoolRecords /\ w.holder \in [Buffers -> Nodes \union {0}]
  BY StorageParts
<1>4. q.tensors \in [Nodes -> Tensor] /\ q.tensors[i] = t
      /\ \A j \in Nodes \ {i} : q.tensors[j] = w.tensors[j]
  BY <1>2, <1>3
<1>5. q \in Spaces
  BY <1>1, <1>2, <1>3, <1>4 DEF Spaces, PutTensor
<1>6. \A j \in Nodes : q.tensors[j].st = w.tensors[j].st
      /\ q.tensors[j].pooled = w.tensors[j].pooled
                       /\ (q.tensors[j].st # 0 => q.tensors[j].rows = w.tensors[j].rows)
  BY <1>4
<1>7. ASSUME NEW j \in Nodes PROVE Settled(q, j)
  <2>1. Settled(w, j)
    BY DEF Storage
  <2>2. CASE q.tensors[j].st = 0
    BY <2>2, BuffersAreNat DEF Settled
  <2>3. CASE q.tensors[j].st # 0
    <3>1. /\ q.tensors[j].st = w.tensors[j].st /\ q.tensors[j].pooled = w.tensors[j].pooled
          /\ q.tensors[j].rows = w.tensors[j].rows
      BY <1>6, <2>3
    <3>2. ViewAt(j, w.tensors[j].rows) /\ ~Bound(j) => w.tensors[j].st = q.tensors[Source(j)].st
      <4>1. CASE Source(j) = i
        BY <1>4, <2>1, <2>3, <3>1, <4>1 DEF Settled
      <4>2. CASE Source(j) # i
        <5>1. q.tensors[Source(j)] = w.tensors[Source(j)]
          BY <1>2, <1>3, <4>2
        <5> QED
          BY <2>1, <2>3, <3>1, <5>1 DEF Settled
      <4> QED
        BY <4>1, <4>2
    <3> QED
      BY <1>2, <2>1, <2>3, <3>1, <3>2 DEF Settled
  <2> QED
    BY <2>2, <2>3
<1>8. \A b \in Out(q.pool) : q.holder[b] \in Nodes /\ q.tensors[q.holder[b]].st = b
  BY <1>2, <1>6 DEF Storage
<1>9. Storage(q, Nodes)
  BY <1>2, <1>5, <1>7, <1>8 DEF Storage
<1> QED
  BY <1>1, <1>9

(* A view takes the storage of its source. *)
LEMMA Viewed ==
    ASSUME PlanTypeOK, Served(graph, setup), NEW w, Storage(w, Nodes), NEW i \in Computable,
           w.tensors[i].st = 0, NEW t \in Tensor, ViewAt(i, t.rows),
           t.st = w.tensors[Source(i)].st, t.pooled = w.tensors[Source(i)].pooled,
           t.st \in Buffers => t.rows = w.tensors[Source(i)].rows
    PROVE  Storage(PutTensor(w, i, t), Nodes)
<1>1. PICK q : q = PutTensor(w, i, t)
  OBVIOUS
<1>2. /\ q.pool = w.pool /\ q.holder = w.holder
      /\ q.tensors = [w.tensors EXCEPT ![i] = t]
  BY <1>1 DEF PutTensor
<1>3. /\ w.tensors \in [Nodes -> Tensor] /\ w \in Spaces /\ i \in Nodes /\ ~Bound(i)
      /\ w.pool \in PoolRecords /\ w.holder \in [Buffers -> Nodes \union {0}]
  BY StorageParts DEF Computable
<1>4. q.tensors \in [Nodes -> Tensor] /\ q.tensors[i] = t
      /\ \A j \in Nodes \ {i} : q.tensors[j] = w.tensors[j]
  BY <1>2, <1>3
<1>5. q \in Spaces
  BY <1>1, <1>2, <1>3, <1>4 DEF Spaces, PutTensor
<1>6. Source(i) \in Nodes /\ Source(i) # i
  BY <1>3, ViewSource
<1>7. ASSUME NEW j \in Nodes PROVE Settled(q, j)
  <2>1. Settled(w, j)
    BY DEF Storage
  <2>2. CASE q.tensors[j].st = 0
    BY <2>2, BuffersAreNat DEF Settled
  <2>3. CASE q.tensors[j].st # 0 /\ j # i
    <3>1. q.tensors[j] = w.tensors[j]
      BY <1>4, <2>3
    <3>2. ViewAt(j, w.tensors[j].rows) /\ ~Bound(j) => w.tensors[j].st = q.tensors[Source(j)].st
      <4>1. CASE Source(j) = i
        BY <2>1, <2>3, <3>1, <4>1 DEF Settled
      <4>2. CASE Source(j) # i
        <5>1. q.tensors[Source(j)] = w.tensors[Source(j)]
          BY <1>2, <1>3, <4>2
        <5> QED
          BY <2>1, <2>3, <3>1, <5>1 DEF Settled
      <4> QED
        BY <4>1, <4>2
    <3> QED
      BY <1>2, <2>1, <2>3, <3>1, <3>2 DEF Settled
  <2>4. CASE q.tensors[j].st # 0 /\ j = i
    <3>1. Settled(w, Source(i)) /\ q.tensors[Source(i)] = w.tensors[Source(i)]
      BY <1>4, <1>6 DEF Storage
    <3> QED
      BY <1>2, <1>3, <1>4, <2>4, <3>1 DEF Settled
  <2> QED
    BY <2>2, <2>3, <2>4
<1>8. ASSUME NEW b \in Out(q.pool) PROVE q.holder[b] \in Nodes /\ q.tensors[q.holder[b]].st = b
  <2>1. q.holder[b] \in Nodes /\ w.tensors[q.holder[b]].st = b /\ b # 0
    BY <1>2, StorageParts DEF Storage
  <2> QED
    BY <1>4, <2>1
<1>9. Storage(q, Nodes)
  BY <1>2, <1>5, <1>7, <1>8 DEF Storage
<1> QED
  BY <1>1, <1>9

(* What a step that only acquires storage for nodes of X leaves alone. *)
Extends(w, q, X) ==
    /\ \A j \in Nodes : j \notin X \/ w.tensors[j].st # 0 => q.tensors[j] = w.tensors[j]
    /\ \A j \in Nodes : q.tensors[j].rows = w.tensors[j].rows
                        /\ q.tensors[j].dense = w.tensors[j].dense
    /\ \A b \in Out(w.pool) : b \in Out(q.pool) /\ q.holder[b] = w.holder[b]
    /\ \A j \in X : w.tensors[j].st = 0 /\ q.tensors[j].st # 0 => q.tensors[j].st \notin Out(w.pool)

LEMMA ExtendsTwice ==
    ASSUME PlanTypeOK, NEW w, NEW q, NEW z, NEW X \in SUBSET Nodes,
           Extends(w, q, X), Extends(q, z, X)
    PROVE  Extends(w, z, X)
<1>1. \A j \in Nodes : j \notin X \/ w.tensors[j].st # 0 => z.tensors[j] = w.tensors[j]
  BY DEF Extends
<1>2. \A j \in Nodes : z.tensors[j].rows = w.tensors[j].rows
                       /\ z.tensors[j].dense = w.tensors[j].dense
  BY DEF Extends
<1>3. \A b \in Out(w.pool) : b \in Out(z.pool) /\ z.holder[b] = w.holder[b]
  BY DEF Extends
<1>4. ASSUME NEW j \in X, w.tensors[j].st = 0, z.tensors[j].st # 0
      PROVE  z.tensors[j].st \notin Out(w.pool)
  <2>1. CASE q.tensors[j].st = 0
    BY <1>4, <2>1 DEF Extends
  <2>2. CASE q.tensors[j].st # 0
    <3>1. z.tensors[j] = q.tensors[j]
      BY <2>2 DEF Extends
    <3> QED
      BY <1>4, <2>2, <3>1 DEF Extends
  <2> QED
    BY <2>1, <2>2
<1> QED
  BY <1>1, <1>2, <1>3, <1>4 DEF Extends

LEMMA AllocatedKeeps ==
    ASSUME PlanTypeOK, NEW w, Storage(w, Nodes), NEW i \in Computable,
           rows \in 1 .. MaxBytes, w.tensors[i].rows = rows, ~ViewAt(i, rows)
    PROVE  /\ Storage(Allocated(w, i), Nodes)
           /\ Extends(w, Allocated(w, i), {i})
<1>1. PICK q : q = Allocated(w, i)
  OBVIOUS
<1>2. PICK b : b = Acquired(w.pool, Kind, rows)
  OBVIOUS
<1>3. PICK p : p = AfterAcquire(w.pool, Kind, rows)
  OBVIOUS
<1>4. i \in Nodes /\ ~Bound(i)
  BY DEF Computable
<1>5. /\ w \in Spaces /\ w.tensors \in [Nodes -> Tensor] /\ PoolBooks(w.pool)
      /\ w.pool \in PoolRecords /\ w.holder \in [Buffers -> Nodes \union {0}]
      /\ Out(w.pool) \subseteq w.pool.active /\ w.pool.active \subseteq Buffers
      /\ 0 \notin Out(w.pool) /\ w.pool.size \in [Buffers -> Sizes]
  BY StorageParts
<1>6. PICK kind \in Backends : kind = Kind
  BY KindIsBackend
<1>7. CASE w.tensors[i].st # 0 \/ b = 0
  <2>1. q = w
    BY <1>1, <1>2, <1>7 DEF Allocated
  <2>2. Extends(w, w, {i})
    BY DEF Extends
  <2> QED
    BY <1>1, <2>1, <2>2
<1>8. CASE w.tensors[i].st = 0 /\ b # 0
  <2>1. PICK t : t = [w.tensors[i] EXCEPT !.st = b, !.pooled = TRUE]
    OBVIOUS
  <2>2. q = [pool |-> p, holder |-> [w.holder EXCEPT ![b] = i],
        tensors |-> [w.tensors EXCEPT ![i] = t]]
    BY <1>1, <1>2, <1>3, <1>5, <1>8, <2>1 DEF Allocated
  <2>3. Granting(kind, w.pool, rows, p, b)
    BY <1>2, <1>3, <1>5, <1>6, <1>8, AcquireGrants
  <2>4. /\ b \in Buffers /\ b \notin w.pool.active /\ PoolBooks(p)
        /\ Out(p) = Out(w.pool) \union {b}
        /\ \A c \in Buffers \ {b} : p.size[c] = w.pool.size[c]
        /\ Holds(kind, p.size[b], rows)
    BY <2>3 DEF Granting
  <2>5. w.tensors[i] \in Tensor /\ b \in 0 .. (NBuffers + Len(graph.ops))
    BY <1>4, <1>5, <2>4, BuffersAreNat, Loaded DEF Buffers
  <2>6. /\ t \in Tensor /\ t.st = b /\ t.pooled = TRUE /\ t.rows = rows
        /\ t.rows = w.tensors[i].rows /\ t.dense = w.tensors[i].dense
    <3>1. PICK H : H = 0 .. (NBuffers + Len(graph.ops))
      OBVIOUS
    <3>2. PICK R : R = 0 .. MaxBytes
      OBVIOUS
    <3>3. PICK u : u = w.tensors[i]
      OBVIOUS
    <3>4. u \in [st : H, pooled : BOOLEAN, rows : R, dense : BOOLEAN] /\ b \in H
      BY <2>5, <3>1, <3>2, <3>3 DEF Tensor
    <3>5. /\ t \in [st : H, pooled : BOOLEAN, rows : R, dense : BOOLEAN]
          /\ t.st = b /\ t.pooled = TRUE /\ t.rows = u.rows /\ t.dense = u.dense
      BY <2>1, <3>3, <3>4
    <3> QED
      BY <3>1, <3>2, <3>3, <3>5 DEF Tensor
  <2>7. /\ q.pool = p /\ q.holder = [w.holder EXCEPT ![b] = i]
        /\ q.tensors = [w.tensors EXCEPT ![i] = t]
    BY <2>2
  <2>8. /\ q.tensors \in [Nodes -> Tensor] /\ q.tensors[i] = t
        /\ \A j \in Nodes \ {i} : q.tensors[j] = w.tensors[j]
        /\ q.holder \in [Buffers -> Nodes \union {0}] /\ q.holder[b] = i
        /\ \A c \in Buffers \ {b} : q.holder[c] = w.holder[c]
    BY <1>4, <1>5, <2>4, <2>6, <2>7
  <2>9. q \in Spaces
    <3>1. p \in PoolRecords
      BY <2>4 DEF PoolBooks, PoolRecords
    <3> HIDE DEF PoolRecords, Tensor
    <3> QED
      BY <2>2, <2>7, <2>8, <3>1 DEF Spaces
  <2>10. ASSUME NEW c \in Out(q.pool)
         PROVE  q.holder[c] \in Nodes /\ q.tensors[q.holder[c]].st = c
    <3>1. CASE c = b
      BY <1>4, <2>6, <2>8, <3>1
    <3>2. CASE c # b
      <4>1. c \in Out(w.pool) /\ c \in Buffers /\ c # 0
        BY <1>5, <2>4, <2>7, <2>10, <3>2
      <4>2. w.holder[c] \in Nodes /\ w.tensors[w.holder[c]].st = c
        BY <4>1 DEF Storage
      <4> QED
        BY <1>8, <2>8, <3>2, <4>1, <4>2
    <3> QED
      BY <3>1, <3>2
  <2>11. ASSUME NEW j \in Nodes PROVE Settled(q, j)
    <3>1. CASE j = i
      <4>1. b # 0 /\ b \in Out(q.pool) /\ rows >= 1 /\ p.size[b] >= rows
        BY <1>8, <2>4, <2>7 DEF Holds
      <4> QED
        BY <1>4, <1>6, <2>4, <2>6, <2>7, <2>8, <3>1, <4>1 DEF Settled
    <3>2. CASE j # i
      <4>1. Settled(w, j) /\ q.tensors[j] = w.tensors[j]
        BY <2>8, <3>2 DEF Storage
      <4>2. CASE w.tensors[j].st = 0
        BY <4>1, <4>2, BuffersAreNat DEF Settled
      <4>3. CASE w.tensors[j].st # 0
        <5>1. ViewAt(j, w.tensors[j].rows) /\ ~Bound(j) => w.tensors[j].st = q.tensors[Source(j)].st
          <6>1. CASE Source(j) = i
            BY <1>8, <4>1, <4>3, <6>1 DEF Settled
          <6>2. CASE Source(j) # i
            <7>1. q.tensors[Source(j)] = w.tensors[Source(j)]
              BY <1>5, <2>7, <6>2
            <7> QED
              BY <4>1, <4>3, <7>1 DEF Settled
          <6> QED
            BY <6>1, <6>2
        <5>2. w.tensors[j].st \in Buffers => w.tensors[j].st \in Out(w.pool) /\ w.tensors[j].st # b
          BY <1>5, <2>4, <4>1 DEF Settled
        <5>3. w.tensors[j].st \in Buffers =>
                 /\ w.tensors[j].st \in Out(q.pool)
                 /\ q.holder[w.tensors[j].st] = w.holder[w.tensors[j].st]
                 /\ q.pool.size[w.tensors[j].st] = w.pool.size[w.tensors[j].st]
          BY <2>4, <2>7, <2>8, <5>2
        <5> QED
          BY <4>1, <4>3, <5>1, <5>3 DEF Settled
      <4> QED
        BY <4>2, <4>3
    <3> QED
      BY <3>1, <3>2
  <2>12. Storage(q, Nodes)
    BY <2>4, <2>7, <2>9, <2>10, <2>11 DEF Storage
  <2>13. Extends(w, q, {i})
    <3>1. \A c \in Out(w.pool) : c \in Out(q.pool) /\ q.holder[c] = w.holder[c]
      BY <1>5, <2>4, <2>7, <2>8
    <3>2. q.tensors[i].st \notin Out(w.pool)
      BY <1>5, <2>4, <2>6, <2>8
    <3>3. \A j \in Nodes : q.tensors[j].rows = w.tensors[j].rows
                        /\ q.tensors[j].dense = w.tensors[j].dense
      BY <2>6, <2>8
    <3>4. \A j \in Nodes : j \notin {i} \/ w.tensors[j].st # 0 => q.tensors[j] = w.tensors[j]
      BY <1>8, <2>8
    <3> QED
      BY <3>1, <3>2, <3>3, <3>4 DEF Extends
  <2> QED
    BY <1>1, <2>12, <2>13
<1> QED
  BY <1>7, <1>8

LEMMA ExtendsMore ==
    ASSUME PlanTypeOK, NEW w, NEW q, NEW X \in SUBSET Nodes, NEW i \in X, Extends(w, q, {i})
    PROVE  Extends(w, q, X)
<1>1. \A j \in X : w.tensors[j].st = 0 /\ q.tensors[j].st # 0 => q.tensors[j].st \notin Out(w.pool)
  <2> SUFFICES ASSUME NEW j \in X, w.tensors[j].st = 0, q.tensors[j].st # 0
               PROVE  q.tensors[j].st \notin Out(w.pool)
    OBVIOUS
  <2>1. j = i
    BY DEF Extends
  <2> QED
    BY <2>1 DEF Extends
<1>2. \A j \in Nodes : j \notin X \/ w.tensors[j].st # 0 => q.tensors[j] = w.tensors[j]
  BY DEF Extends
<1> QED
  BY <1>1, <1>2 DEF Extends

LEMMA WithStorageKeeps ==
    ASSUME PlanTypeOK, rows \in 1 .. MaxBytes, NEW i, NEW m \in Nat \ {0}, NEW w, w = Placed(i),
           Storage(w, Nodes), NEW X \in SUBSET Computable,
           \A n \in 1 .. (m - 1) : Chain(i)[n] \in X,
           \A x \in X : w.tensors[x].rows = rows /\ ~ViewAt(x, rows)
    PROVE  /\ Storage(WithStorage(i, m), Nodes)
           /\ Extends(w, WithStorage(i, m), X)
<1> DEFINE N == m - 1
           Eqn(g) == g = [n \in 0 .. N |-> IF n = 0 THEN w ELSE Allocated(g[n - 1], Chain(i)[n])]
           c == CHOOSE g : Eqn(g)
           S == {q \in Spaces : Storage(q, Nodes) /\ Extends(w, q, X)}
<1>1. N \in Nat
  OBVIOUS
<1>2. WithStorage(i, m) = c[N]
  BY DEF WithStorage
<1>3. X \subseteq Nodes
  BY DEF Computable
<1>4. w \in S
  <2>1. w \in Spaces
    BY StorageParts
  <2>2. Extends(w, w, X)
    BY DEF Extends
  <2> QED
    BY <2>1, <2>2
<1>5. ASSUME NEW n \in 1 .. N, NEW q \in S
      PROVE  Allocated(q, Chain(i)[n]) \in S
  <2>1. PICK x \in X : x = Chain(i)[n]
    OBVIOUS
  <2>2. Storage(q, Nodes) /\ Extends(w, q, X) /\ x \in Computable /\ x \in Nodes
    BY <1>3
  <2>3. q.tensors[x].rows = rows /\ ~ViewAt(x, rows)
    BY <2>2 DEF Extends
  <2>4. PICK z : z = Allocated(q, x)
    OBVIOUS
  <2>5. Storage(z, Nodes) /\ Extends(q, z, {x})
    BY <2>2, <2>3, <2>4, AllocatedKeeps
  <2>6. Extends(q, z, X)
    BY <1>3, <2>5, ExtendsMore
  <2>7. Extends(w, z, X)
    BY <1>3, <2>2, <2>6, ExtendsTwice
  <2>8. z \in Spaces
    BY <2>5, StorageParts
  <2> QED
    BY <2>1, <2>4, <2>5, <2>7, <2>8
<1> HIDE DEF S, N
<1>6. PICK step : step = [n \in 1 .. N |-> [q \in S |-> Allocated(q, Chain(i)[n])]]
  OBVIOUS
<1>7. step \in [1 .. N -> [S -> S]]
  BY <1>5, <1>6
<1>8. PICK f : Loop(f, S, N, w, step)
  BY <1>1, <1>4, <1>7, LoopExists
<1>9. f \in [0 .. N -> S] /\ \A n \in 0 .. N : f[n] = IF n = 0 THEN w ELSE step[n][f[n - 1]]
  BY <1>8 DEF Loop
<1>10. ASSUME NEW n \in 0 .. N
       PROVE  f[n] = IF n = 0 THEN w ELSE Allocated(f[n - 1], Chain(i)[n])
  <2>1. CASE n = 0
    BY <1>9, <2>1
  <2>2. CASE n # 0
    <3>1. n \in 1 .. N /\ n - 1 \in 0 .. N
      BY <1>1, <2>2
    <3>2. f[n - 1] \in S /\ f[n] = step[n][f[n - 1]]
      BY <1>9, <2>2, <3>1
    <3> QED
      BY <1>6, <2>2, <3>1, <3>2
  <2> QED
    BY <2>1, <2>2
<1>11. Eqn(f)
  BY <1>9, <1>10
<1>12. Eqn(c)
  <2> HIDE DEF Eqn
  <2> QED
    BY <1>11
<1>13. \A n \in 0 .. N : c[n] = IF n = 0 THEN w ELSE Allocated(c[n - 1], Chain(i)[n])
  <2> HIDE DEF c
  <2> QED
    BY <1>12
<1> HIDE DEF c, Eqn
<1> DEFINE T == {n \in 0 .. N : c[n] \in S}
<1>14. 0 \in T
  BY <1>1, <1>4, <1>13
<1>15. ASSUME NEW n \in 1 .. N, n - 1 \in T
       PROVE  n \in T
  <2>1. n \in 0 .. N /\ n # 0 /\ c[n - 1] \in S
    BY <1>1, <1>15
  <2>2. c[n] = Allocated(c[n - 1], Chain(i)[n])
    BY <1>13, <2>1
  <2> QED
    BY <1>5, <2>1, <2>2
<1>16. N \in T
  <2> HIDE DEF T
  <2>1. \A n \in 0 .. N : n \in T
    BY <1>1, <1>14, <1>15, UpTo
  <2> QED
    BY <1>1, <2>1
<1> QED
  BY <1>2, <1>16 DEF S

-----------------------------------------------------------------------------
(* The inputs of a pass, one after the other. *)

Growing(f, S, n, start, step) ==
    /\ f = [i \in 0 .. n |-> IF i = 0 THEN start ELSE step[i][f[i - 1]]]
    /\ \A i \in 0 .. n : f[i] \in S[i]
Grows(S, n, step) == \A i \in 1 .. n : step[i] \in [S[i - 1] -> S[i]]

LEMMA LoopGrows ==
    ASSUME NEW n \in Nat, NEW S, NEW start \in S[0], NEW step, Grows(S, n, step)
    PROVE  \E f : Growing(f, S, n, start, step)
<1> USE DEF Growing, Grows
<1> DEFINE Upto(m, f) == /\ f = [i \in 0 .. m |-> IF i = 0 THEN start ELSE step[i][f[i - 1]]]
                         /\ \A i \in 0 .. m : f[i] \in S[i]
           T == {m \in 0 .. n : \E f : Upto(m, f)}
<1>1. 0 \in T
  <2>1. PICK f : f = [i \in 0 .. 0 |-> start]
    OBVIOUS
  <2>2. Upto(0, f)
    BY <2>1
  <2> QED
    BY <2>2
<1>2. ASSUME NEW m \in 1 .. n, m - 1 \in T
      PROVE  m \in T
  <2>1. PICK f : Upto(m - 1, f)
    BY <1>2
  <2>2. /\ \A i \in 0 .. (m - 1) : f[i] \in S[i]
        /\ \A i \in 0 .. (m - 1) : f[i] = IF i = 0 THEN start ELSE step[i][f[i - 1]]
    BY <2>1
  <2>3. step[m] \in [S[m - 1] -> S[m]] /\ f[m - 1] \in S[m - 1]
    BY <2>2
  <2>4. PICK g : g = [i \in 0 .. m |-> IF i = m THEN step[m][f[m - 1]] ELSE f[i]]
    OBVIOUS
  <2>5. ASSUME NEW i \in 0 .. m
        PROVE  g[i] \in S[i] /\ g[i] = IF i = 0 THEN start ELSE step[i][g[i - 1]]
    <3>1. CASE i = m
      <4>1. g[m - 1] = f[m - 1] /\ m # 0 /\ g[m] = step[m][f[m - 1]]
        BY <2>4
      <4> QED
        BY <2>3, <3>1, <4>1
    <3>2. CASE i # m /\ i # 0
      <4>1. i \in 0 .. (m - 1) /\ g[i] = f[i] /\ g[i - 1] = f[i - 1]
        BY <2>4, <3>2
      <4> QED
        BY <2>2, <3>2, <4>1
    <3>3. CASE i # m /\ i = 0
      BY <2>2, <2>4, <3>3
    <3> QED
      BY <3>1, <3>2, <3>3
  <2>6. g = [i \in 0 .. m |-> IF i = 0 THEN start ELSE step[i][g[i - 1]]]
    BY <2>4, <2>5
  <2>7. Upto(m, g)
    BY <2>5, <2>6
  <2> HIDE DEF Upto
  <2> QED
    BY <2>7
<1>3. n \in T
  <2> HIDE DEF T
  <2>1. \A i \in 0 .. n : i \in T
    BY <1>1, <1>2, UpTo
  <2> QED
    BY <2>1
<1> QED
  BY <1>3

NoViews(w, live) == \A j \in live : w.tensors[j].st # 0 => ~ViewAt(j, w.tensors[j].rows)

InputKept(w, q, live, i, r) ==
    /\ Storage(q, live \union {i}) /\ NoViews(q, live \union {i})
    /\ \A j \in Nodes \ {i} : q.tensors[j] = w.tensors[j]
    /\ q.tensors[i].rows = r /\ q.tensors[i].dense = TRUE

LEMMA InputBoundKeeps ==
    ASSUME PlanTypeOK, NEW w, NEW live \in SUBSET Nodes,
           Storage(w, live), NoViews(w, live), NEW i \in InputNodes, i \notin live,
           NEW r \in 1 .. MaxBytes
    PROVE  InputKept(w, InputBound(w, i, r), live, i, r)
<1> DEFINE q == InputBound(w, i, r)
<1> HIDE DEF q
<1> SUFFICES /\ Storage(q, live \union {i}) /\ NoViews(q, live \union {i})
             /\ \A j \in Nodes \ {i} : q.tensors[j] = w.tensors[j]
             /\ q.tensors[i].rows = r /\ q.tensors[i].dense = TRUE
  BY DEF InputKept, q
<1>1. PICK b : b = Acquired(w.pool, Kind, r)
  OBVIOUS
<1>2. PICK p : p = AfterAcquire(w.pool, Kind, r)
  OBVIOUS
<1>3. i \in Nodes /\ IsInput(i) /\ Bound(i) /\ \A s : ~ViewAt(i, s)
  BY DEF InputNodes, IsInput, Bound, BoundOps, ViewAt
<1>4. /\ w \in Spaces /\ w.tensors \in [Nodes -> Tensor] /\ PoolBooks(w.pool)
      /\ w.pool \in PoolRecords /\ w.holder \in [Buffers -> Nodes \union {0}]
      /\ Out(w.pool) \subseteq w.pool.active /\ w.pool.active \subseteq Buffers
      /\ 0 \notin Out(w.pool) /\ w.pool.size \in [Buffers -> Sizes]
  BY StorageParts
<1>5. PICK kind \in Backends : kind = Kind
  BY KindIsBackend
<1>6. NBuffers \in Nat /\ Len(graph.ops) \in Nat /\ i \in 1 .. Len(graph.ops) /\ MaxBytes \in Nat
  BY <1>3, BuffersAreNat, Loaded
<1> DEFINE Take(z, s, g) == [st |-> s, pooled |-> g, rows |-> r, dense |-> TRUE]
(* Whatever the tensor gets, the others keep theirs. *)
<1>7. ASSUME NEW s, NEW g \in BOOLEAN, NEW h \in [Buffers -> Nodes \union {0}], NEW z, PoolBooks(z),
             q = [pool |-> z, holder |-> h,
                  tensors |-> [w.tensors EXCEPT ![i] = [st |-> s, pooled |-> g, rows |-> r,
                    dense |-> TRUE]]],
             \/ /\ h = w.holder /\ z = w.pool
                /\ (s = 0 \/ (s = External(i) /\ g = FALSE))
             \/ /\ Granting(kind, w.pool, r, z, s) /\ h = [w.holder EXCEPT ![s] = i] /\ g = TRUE
      PROVE  /\ Storage(q, live \union {i}) /\ NoViews(q, live \union {i})
             /\ \A j \in Nodes \ {i} : q.tensors[j] = w.tensors[j]
             /\ q.tensors[i].rows = r /\ q.tensors[i].dense = TRUE
  <2>1. PICK t : t = [st |-> s, pooled |-> g, rows |-> r, dense |-> TRUE]
    OBVIOUS
  <2>2. s \in 0 .. (NBuffers + Len(graph.ops)) /\ (s = External(i) => s \notin Buffers /\ s # 0)
    BY <1>6, <1>7 DEF External, Granting, Buffers
  <2>3. t \in Tensor /\ t.st = s /\ t.pooled = g /\ t.rows = r /\ t.dense = TRUE
    <3>1. PICK H : H = 0 .. (NBuffers + Len(graph.ops))
      OBVIOUS
    <3>2. PICK R : R = 0 .. MaxBytes
      OBVIOUS
    <3>3. s \in H /\ r \in R
      BY <1>6, <2>2, <3>1, <3>2
    <3>4. t \in [st : H, pooled : BOOLEAN, rows : R, dense : BOOLEAN]
          /\ t.st = s /\ t.pooled = g /\ t.rows = r /\ t.dense = TRUE
      BY <2>1, <3>3
    <3> QED
      BY <3>1, <3>2, <3>4 DEF Tensor
  <2>4. q = [pool |-> z, holder |-> h, tensors |-> [w.tensors EXCEPT ![i] = t]]
    BY <1>7, <2>1
  <2>5. /\ q.tensors \in [Nodes -> Tensor] /\ q.tensors[i] = t
        /\ \A j \in Nodes \ {i} : q.tensors[j] = w.tensors[j]
        /\ q.pool = z /\ q.holder = h /\ q.tensors = [w.tensors EXCEPT ![i] = t]
    BY <1>3, <1>4, <2>3, <2>4
  <2>6. q \in Spaces
    <3>1. z \in PoolRecords
      BY <1>7 DEF PoolBooks, PoolRecords
    <3> HIDE DEF PoolRecords, Tensor
    <3> QED
      BY <2>4, <2>5, <3>1 DEF Spaces
  <2>7. /\ \A c \in Out(w.pool) : c \in Out(z) /\ h[c] = w.holder[c] /\ z.size[c] = w.pool.size[c]
        /\ \A c \in Out(z) : c \in Out(w.pool) \/ (c = s /\ h[c] = i)
        /\ s \in Buffers => s \in Out(z) /\ h[s] = i /\ Holds(kind, z.size[s], r) /\ g
    <3>1. CASE /\ h = w.holder /\ z = w.pool
               /\ (s = 0 \/ (s = External(i) /\ g = FALSE))
      BY <2>2, <3>1, BuffersAreNat
    <3>2. CASE Granting(kind, w.pool, r, z, s) /\ h = [w.holder EXCEPT ![s] = i] /\ g = TRUE
      <4>1. /\ s \in Buffers /\ s \notin w.pool.active /\ Out(z) = Out(w.pool) \union {s}
            /\ \A c \in Buffers \ {s} : z.size[c] = w.pool.size[c]
            /\ Holds(kind, z.size[s], r)
        BY <3>2 DEF Granting
      <4>2. h[s] = i /\ \A c \in Buffers \ {s} : h[c] = w.holder[c]
        BY <1>4, <3>2, <4>1
      <4> QED
        BY <1>4, <3>2, <4>1, <4>2
    <3> QED
      BY <1>7, <3>1, <3>2
  <2>8. ASSUME NEW c \in Out(q.pool)
        PROVE  q.holder[c] \in live \union {i} /\ q.tensors[q.holder[c]].st = c
    <3>1. CASE c \in Out(w.pool)
      <4>1. w.holder[c] \in live /\ w.tensors[w.holder[c]].st = c
        BY <3>1 DEF Storage
      <4>2. w.holder[c] # i /\ w.holder[c] \in Nodes
        BY <4>1
      <4> QED
        BY <2>5, <2>7, <3>1, <4>1, <4>2
    <3>2. CASE c = s /\ h[c] = i
      BY <2>3, <2>5, <3>2
    <3> QED
      BY <2>5, <2>7, <2>8, <3>1, <3>2
  <2>9. ASSUME NEW j \in live \union {i}
        PROVE  Settled(q, j) /\ (q.tensors[j].st # 0 => ~ViewAt(j, q.tensors[j].rows))
    <3>1. CASE j = i
      <4>1. s \in Buffers => r >= 1 /\ z.size[s] >= r
        BY <2>7 DEF Holds
      <4>2. s \notin Buffers /\ s # 0 => g = FALSE
        BY <1>7 DEF Granting
      <4> QED
        BY <1>3, <1>5, <2>3, <2>5, <2>7, <3>1, <4>1, <4>2 DEF Settled
    <3>2. CASE j # i
      <4>1. j \in live /\ Settled(w, j) /\ q.tensors[j] = w.tensors[j]
            /\ (w.tensors[j].st # 0 => ~ViewAt(j, w.tensors[j].rows))
        BY <2>5, <3>2 DEF Storage, NoViews
      <4>2. w.tensors[j].st \in Buffers =>
                 /\ w.tensors[j].st \in Out(q.pool)
                 /\ q.holder[w.tensors[j].st] = w.holder[w.tensors[j].st]
                 /\ q.pool.size[w.tensors[j].st] = w.pool.size[w.tensors[j].st]
        BY <2>5, <2>7, <4>1 DEF Settled
      <4> QED
        BY <4>1, <4>2 DEF Settled
    <3> QED
      BY <3>1, <3>2
  <2>10. Storage(q, live \union {i}) /\ NoViews(q, live \union {i})
    BY <1>7, <2>5, <2>6, <2>8, <2>9 DEF Storage, NoViews
  <2> QED
    BY <2>3, <2>5, <2>10
<1>8. CASE ~setup.ownInputs
  <2>1. q = [w EXCEPT !.tensors[i] = [st |-> External(i), pooled |-> FALSE, rows |-> r,
        dense |-> TRUE]]
    BY <1>3, <1>8 DEF InputBound, q
  <2>2. q = [pool |-> w.pool, holder |-> w.holder,
             tensors |-> [w.tensors EXCEPT ![i] =
                 [st |-> External(i), pooled |-> FALSE, rows |-> r, dense |-> TRUE]]]
    BY <1>4, <2>1 DEF Spaces
  <2> QED
    BY <1>4, <1>7, <2>2
<1>9. CASE setup.ownInputs
  <2>1. q = [pool |-> p, holder |-> [w.holder EXCEPT ![b] = i],
             tensors |-> [w.tensors EXCEPT ![i] =
                 [st |-> b, pooled |-> TRUE, rows |-> r, dense |-> TRUE]]]
    BY <1>1, <1>2, <1>3, <1>9 DEF InputBound, q
  <2>2. CASE b = 0 /\ p = w.pool
    <3>1. [w.holder EXCEPT ![b] = i] = w.holder
      BY <1>4, <2>2, BuffersAreNat
    <3> QED
      BY <1>4, <1>7, <2>1, <2>2, <3>1
  <2>3. CASE Granting(kind, w.pool, r, p, b)
    <3>1. b \in Buffers /\ PoolBooks(p)
          /\ [w.holder EXCEPT ![b] = i] \in [Buffers -> Nodes \union {0}]
      BY <1>3, <1>4, <2>3 DEF Granting
    <3> QED
      BY <1>7, <2>1, <2>3, <3>1
  <2>4. \/ b = 0 /\ p = w.pool
        \/ Granting(kind, w.pool, r, p, b)
    BY <1>1, <1>2, <1>4, <1>5, AcquireGrants
  <2> QED
    BY <2>2, <2>3, <2>4
<1> QED
  BY <1>8, <1>9

LEMMA InputsStored ==
    ASSUME PlanTypeOK, Storage(Workspace, Computable), NoViews(Workspace, Computable),
           \A i \in Nodes : Bound(i) /\ ~IsInput(i)
             => tensors[i].st = External(i) /\ ~tensors[i].pooled,
           NEW r \in 1 .. MaxBytes
    PROVE  /\ Storage(InputsBound(r), Nodes)
           /\ \A i \in Nodes \ InputNodes : InputsBound(r).tensors[i] = tensors[i]
           /\ \A i \in InputNodes : InputsBound(r).tensors[i].rows = r
                                    /\ InputsBound(r).tensors[i].dense = TRUE
<1>1. PICK N \in Nat : N = Len(graph.ops) /\ Nodes = 1 .. N
  BY Loaded
<1>2. PICK w : w = Workspace
  OBVIOUS
<1>3. w.tensors = tensors /\ w.pool = pool /\ w.holder = holder
  BY <1>2 DEF Workspace
<1> DEFINE live(k) == Computable \union {j \in InputNodes : j <= k}
           Good(k, q) ==
               /\ q \in Spaces /\ Storage(q, live(k)) /\ NoViews(q, live(k))
               /\ \A j \in Nodes : ~(j \in InputNodes /\ j <= k) => q.tensors[j] = tensors[j]
               /\ \A j \in InputNodes : j <= k => q.tensors[j].rows = r /\ q.tensors[j].dense = TRUE
           S == [k \in 0 .. N |-> {q \in Spaces : Good(k, q)}]
           Eqn(g) == g = [i \in 0 .. N |-> IF i = 0 THEN w ELSE InputBound(g[i - 1], i, r)]
           c == CHOOSE g : Eqn(g)
<1>4. InputsBound(r) = c[N]
  BY <1>1, <1>2 DEF InputsBound
<1>5. InputNodes \subseteq Nodes /\ Computable \subseteq Nodes /\ \A j \in Nodes : j \in Nat
      /\ ~(j <= 0)
  BY <1>1 DEF InputNodes, Computable
<1>6. w \in S[0]
  <2>1. live(0) = Computable
    BY <1>5
  <2>2. w \in Spaces
    BY <1>2, StorageParts
  <2>3. Good(0, w)
    BY <1>2, <1>3, <1>5, <2>1, <2>2
  <2> QED
    BY <2>2, <2>3
<1>7. ASSUME NEW i \in 1 .. N, NEW q \in S[i - 1]
      PROVE  InputBound(q, i, r) \in S[i]
  <2>1. i \in Nodes /\ i \in 0 .. N /\ i - 1 \in 0 .. N /\ ~(i <= i - 1) /\ i <= i
    BY <1>1
  <2>2. q \in Spaces /\ Good(i - 1, q)
    BY <1>7, <2>1
  <2>3. \A j \in Nodes : j <= i <=> (j <= i - 1 \/ j = i)
    BY <1>1
  <2>4. PICK z : z = InputBound(q, i, r)
    OBVIOUS
  <2>5. CASE i \in InputNodes
    <3>1. PICK L \in SUBSET Nodes : L = live(i - 1)
      BY <1>5
    <3>2. Computable \subseteq L /\ Storage(q, L) /\ NoViews(q, L)
      BY <2>2, <3>1
    <3>3. i \notin L
      BY <2>1, <2>5, <3>1 DEF InputNodes, Computable, IsInput, Bound, BoundOps
    <3>4. /\ Storage(z, L \union {i}) /\ NoViews(z, L \union {i})
          /\ \A j \in Nodes \ {i} : z.tensors[j] = q.tensors[j]
          /\ z.tensors[i].rows = r /\ z.tensors[i].dense = TRUE
      <4>1. InputKept(q, z, L, i, r)
        BY <2>4, <2>5, <3>2, <3>3, InputBoundKeeps
      <4> QED
        BY <4>1 DEF InputKept
    <3>5. live(i) = L \union {i}
      BY <1>5, <2>3, <2>5, <3>1
    <3>6. z \in Spaces
      BY <3>4, StorageParts
    <3>7. \A j \in InputNodes : j <= i => z.tensors[j].rows = r /\ z.tensors[j].dense = TRUE
      BY <1>5, <2>2, <2>3, <3>4
    <3>8. \A j \in Nodes : ~(j \in InputNodes /\ j <= i) => z.tensors[j] = tensors[j]
      BY <2>2, <2>3, <2>5, <3>4
    <3>9. Good(i, z)
      BY <3>4, <3>5, <3>6, <3>7, <3>8
    <3> HIDE DEF Good
    <3> QED
      BY <2>1, <2>4, <3>6, <3>9
  <2>6. CASE i \notin InputNodes
    <3>1. z = q
      BY <2>1, <2>4, <2>6 DEF InputBound, InputNodes
    <3>2. \A j \in InputNodes : j <= i <=> j <= i - 1
      BY <1>5, <2>3, <2>6
    <3>3. live(i) = live(i - 1)
      BY <3>2
    <3>4. Good(i, z)
      BY <2>2, <3>1, <3>2, <3>3
    <3> HIDE DEF Good
    <3> QED
      BY <2>1, <2>2, <2>4, <3>1, <3>4
  <2> QED
    BY <2>5, <2>6
<1> HIDE DEF S
<1>8. PICK step : step = [i \in 1 .. N |-> [q \in S[i - 1] |-> InputBound(q, i, r)]]
  OBVIOUS
<1>9. \A i \in 1 .. N : step[i] \in [S[i - 1] -> S[i]]
  BY <1>7, <1>8
<1>10. PICK f : /\ f = [i \in 0 .. N |-> IF i = 0 THEN w ELSE step[i][f[i - 1]]]
                /\ \A i \in 0 .. N : f[i] \in S[i]
  <2>1. Grows(S, N, step)
    BY <1>9 DEF Grows
  <2>2. PICK f : Growing(f, S, N, w, step)
    BY <1>6, <2>1, LoopGrows
  <2> QED
    BY <2>2 DEF Growing
<1>11. ASSUME NEW i \in 0 .. N
       PROVE  f[i] = IF i = 0 THEN w ELSE InputBound(f[i - 1], i, r)
  <2>1. f[i] = IF i = 0 THEN w ELSE step[i][f[i - 1]]
    BY <1>10
  <2>2. CASE i = 0
    BY <2>1, <2>2
  <2>3. CASE i # 0
    <3>1. i \in 1 .. N /\ i - 1 \in 0 .. N
      BY <1>1, <2>3
    <3>2. f[i - 1] \in S[i - 1]
      BY <1>10, <3>1
    <3> QED
      BY <1>8, <2>1, <2>3, <3>1, <3>2
  <2> QED
    BY <2>2, <2>3
<1>12. Eqn(f)
  <2>1. \A i \in 0 .. N : f[i] = IF i = 0 THEN w ELSE InputBound(f[i - 1], i, r)
    BY <1>11
  <2>2. f = [i \in 0 .. N |-> f[i]]
    BY <1>10
  <2> QED
    BY <2>1, <2>2
<1>13. Eqn(c)
  <2> HIDE DEF Eqn
  <2> QED
    BY <1>12
<1>14. \A i \in 0 .. N : c[i] = IF i = 0 THEN w ELSE InputBound(c[i - 1], i, r)
  <2> HIDE DEF c
  <2> QED
    BY <1>13
<1> HIDE DEF c, Eqn
<1> DEFINE T == {i \in 0 .. N : c[i] \in S[i]}
<1>15. 0 \in T
  BY <1>1, <1>6, <1>14
<1>16. ASSUME NEW i \in 1 .. N, i - 1 \in T
       PROVE  i \in T
  <2>1. i \in 0 .. N /\ i # 0 /\ c[i - 1] \in S[i - 1]
    BY <1>1, <1>16
  <2>2. c[i] = InputBound(c[i - 1], i, r)
    BY <1>14, <2>1
  <2> QED
    BY <1>7, <2>1, <2>2
<1>17. c[N] \in S[N]
  <2> HIDE DEF T
  <2>1. \A i \in 0 .. N : i \in T
    BY <1>1, <1>15, <1>16, UpTo
  <2>2. N \in T
    BY <1>1, <2>1
  <2> QED
    BY <2>2 DEF T
<1>18. PICK q : q = InputsBound(r)
  OBVIOUS
<1>19. Good(N, q)
  <2>1. N \in 0 .. N
    BY <1>1
  <2> QED
    BY <1>4, <1>17, <1>18, <2>1 DEF S
<1>20. /\ Storage(q, live(N))
       /\ \A j \in Nodes \ InputNodes : q.tensors[j] = tensors[j]
       /\ \A j \in InputNodes : q.tensors[j].rows = r /\ q.tensors[j].dense = TRUE
  <2>1. \A j \in Nodes : j <= N
    BY <1>1
  <2> QED
    BY <1>5, <1>19, <2>1
<1>21. ASSUME NEW j \in Nodes, j \notin live(N)
       PROVE  Settled(q, j)
  <2>1. Bound(j) /\ ~IsInput(j)
    BY <1>1, <1>21 DEF Computable, InputNodes
  <2>2. q.tensors[j].st = External(j) /\ ~q.tensors[j].pooled
    BY <1>20, <2>1 DEF InputNodes
  <2>3. q.tensors[j].st \notin Buffers
    BY <1>1, <1>21, <2>2, BuffersAreNat DEF External, Buffers
  <2> QED
    BY <2>1, <2>2, <2>3 DEF Settled
<1>22. Storage(q, Nodes)
  <2>1. live(N) \subseteq Nodes
    BY <1>5
  <2> QED
    BY <1>20, <1>21, <2>1 DEF Storage
<1> QED
  BY <1>18, <1>20, <1>22

-----------------------------------------------------------------------------
(* The inductive invariant of a pass.                                      *)

Live == IF phase = "idle" THEN Computable ELSE Nodes
Stored == Storage(Workspace, Live)

BoundTensors ==
    /\ \A i \in Nodes : Bound(i) => tensors[i].dense
    /\ \A i \in Nodes : Bound(i) /\ ~IsInput(i) => tensors[i].st = External(i) /\ ~tensors[i].pooled
    /\ phase # "idle" => \A i \in InputNodes : tensors[i].rows = rows
\* A copy was made because its source was strided, and still is.
CopiesAreStrided ==
    \A i \in Nodes :
        /\ OnDevice /\ Op(i) \in {"reshape", "contiguous"} /\ tensors[i].st # 0
        /\ ~ViewAt(i, tensors[i].rows)
        => ~tensors[Source(i)].dense

\* Between passes there are no views, and what is kept has the shape of the key.
KeptStorage ==
    phase \in {"idle", "bound"} =>
        \A i \in Computable : tensors[i].st # 0 =>
            /\ ~ViewAt(i, tensors[i].rows)
            /\ tensors[i].rows \in setup.rows
            /\ setup.dynamic /\ setup.reuseSame /\ key # 0 => tensors[i].rows = key
StaleInputs == phase = "idle" => \A i \in InputNodes : tensors[i].st \notin Out(pool)

Running == phase \in {"run", "suspended"}
ShapedTensors ==
    /\ Running => \A i \in 1 .. (pos - 1) :
           tensors[i].dense = DenseAt(i, rows) /\ (~Bound(i) => tensors[i].rows = rows)
    /\ Running \/ phase = "over" =>
           \A i \in Computable : tensors[i].st # 0 => tensors[i].rows = rows
\* Nodes not reached hold nothing, or a buffer kept for the same shape.
Ahead ==
    Running => \A i \in Computable : i >= pos /\ tensors[i].st # 0 =>
        ReuseWorkspace /\ ~ViewAt(i, rows)
ComputedHolders ==
    Running => \A i \in computed : tensors[i].st \in Buffers => holder[tensors[i].st] \in computed
\* What the plan has released holds nothing any more.
FreedWhenDue ==
    Running /\ ~ReuseWorkspace =>
        \A i \in Nodes : Released(i) /\ (\A j \in 1 .. lastUse[i] : j \in computed) =>
            tensors[i].st = 0
Values ==
    (phase \in {"bound", "run", "suspended"} \/ (phase = "over" /\ ~failed)) =>
        \A x \in computed : (phase # "bound" => Needed(x)) => Intact(x)

Counters ==
    /\ phase \in {"idle", "bound", "run", "suspended", "over"}
    /\ computed \subseteq Nodes
    /\ pos \in 1 .. (Len(graph.ops) + 1) /\ last \in 0 .. Len(graph.ops)
    /\ waiting \in [{"gate", "up", "inject", "moe"} -> 0 .. Len(graph.ops)]
    /\ rows \in 0 .. MaxBytes /\ key \in 0 .. MaxBytes
    /\ pass \in 0 .. setup.passes /\ failed \in BOOLEAN
    /\ mode \in {"whole", "stop", "segment"}
Awaited == {waiting.gate, waiting.up, waiting.inject, waiting.moe}
Books ==
    /\ phase # "idle" => stage = "ready" /\ rows \in setup.rows
    /\ phase = "bound" => computed = {i \in Nodes : Bound(i)}
    /\ Running => {i \in Nodes : Bound(i)} \subseteq computed
    /\ Running => computed \subseteq {i \in Nodes : Bound(i)} \union 1 .. (pos - 1)
    /\ phase \in {"bound", "run", "suspended"} => ~failed
    /\ phase = "over" /\ failed => setup.mayFail
    /\ phase = "over" /\ setup.reuseSame /\ setup.dynamic => key = rows
    /\ Running /\ mode = "stop" => "stop" \in setup.modes /\ last \in FirstStateful
ChainBooks ==
    phase = "run" =>
        /\ Awaited \intersect computed = {}
        /\ waiting # NoneWaiting => mode # "stop"
        /\ waiting.inject # 0 => tensors[waiting.inject].st # 0
        /\ waiting.moe # 0 => \E c \in Nodes : MoePlanned(waiting.moe, c)
ExecInv ==
    /\ Counters /\ Stored /\ BoundTensors /\ CopiesAreStrided /\ KeptStorage /\ StaleInputs
    /\ ShapedTensors /\ Ahead /\ ComputedHolders /\ FreedWhenDue /\ Values /\ Books /\ ChainBooks

\* What the plan knows besides: a computed tensor's last use is a computed node.
LastUseComputed ==
    /\ \A i \in Nodes : ~Bound(i) => lastUse[i] = 0 \/ (lastUse[i] \in Nodes /\ ~Bound(lastUse[i]))
    /\ reclaims => ~Unplannable

-----------------------------------------------------------------------------
(* Views and owners are told apart the same way wherever the code asks. *)

LEMMA FirstInput ==
    ASSUME PlanTypeOK, NEW i \in Nodes, graph.ins[i] # <<>>
    PROVE  /\ Source(i) \in Reads(i) /\ Source(i) \in Nodes /\ Source(i) \in 1 .. (i - 1)
           /\ Source(i) # i
<1>1. WellFormed(graph)
  BY CasesAssumption DEF PlanTypeOK
<1>2. graph.ins[i] \in Seq(Nat)
  BY <1>1 DEF WellFormed, Nodes
<1>3. 1 \in DOMAIN graph.ins[i]
  BY <1>2
<1>4. Source(i) \in Reads(i)
  BY <1>3 DEF Source, Reads
<1>5. Source(i) \in 1 .. (i - 1) /\ i \in Nat /\ Nodes = 1 .. Len(graph.ops) /\ i <= Len(graph.ops)
  BY <1>4, Loaded
<1> QED
  BY <1>4, <1>5, Loaded

LEMMA ServedSource ==
    ASSUME PlanTypeOK, Served(graph, setup), NEW i \in Nodes,
           Op(i) \in {"reshape", "permute", "slice", "contiguous"}
    PROVE  /\ graph.ins[i] # <<>> /\ ~Bound(i)
           /\ Source(i) \in Reads(i) /\ Source(i) \in Nodes /\ Source(i) \in 1 .. (i - 1)
           /\ Source(i) # i /\ \A ts : Operand(ts, i) = ts[Source(i)]
<1>1. graph.ins[i] # <<>>
  BY DEF Served, Nodes, Op, ViewOps
<1> QED
  BY <1>1, FirstInput DEF Operand, Bound, BoundOps

LEMMA OwnersApart ==
    ASSUME PlanTypeOK, Served(graph, setup), NEW w, Storage(w, Nodes), NEW i \in Computable,
           w.tensors[i].st # 0, ~ViewAt(i, w.tensors[i].rows), NEW s \in 1 .. (i - 1)
    PROVE  w.tensors[i].st # w.tensors[s].st
<1>1. i \in Nodes /\ ~Bound(i) /\ s \in Nodes /\ i \in Nat
  BY Loaded DEF Computable
<1>2. w.tensors[i].st \in Buffers /\ w.holder[w.tensors[i].st] = i
  BY <1>1 DEF Storage, Settled
<1>3. SUFFICES ASSUME w.tensors[i].st = w.tensors[s].st PROVE FALSE
  OBVIOUS
<1>4. w.holder[w.tensors[s].st] \in 1 .. s
  BY <1>1, <1>2, <1>3, OwnersFirst
<1> QED
  BY <1>1, <1>2, <1>3, <1>4

(* execute_graph_impl's classification, of a node of the running pass. *)
LEMMA BorrowedAsBuilt ==
    ASSUME PlanTypeOK, Served(graph, setup), NEW w, Storage(w, Nodes), NEW i \in Computable,
           w.tensors[i].st # 0, w.tensors[i].rows = rows,
           \A s \in 1 .. (i - 1) : w.tensors[s].dense = DenseAt(s, rows)
    PROVE  BorrowedView(w.tensors, i) <=> ViewAt(i, rows)
<1>1. i \in Nodes /\ ~Bound(i)
  BY DEF Computable
<1>2. CASE Op(i) \in {"permute", "slice"}
  BY <1>2 DEF BorrowedView, ViewAt
<1>3. CASE Op(i) = "reshape" /\ ~OnDevice
  <2>1. Operand(w.tensors, i) = w.tensors[Source(i)] /\ Source(i) \in 1 .. (i - 1)
    BY <1>1, <1>3, ServedSource
  <2>2. BorrowedView(w.tensors, i) <=> w.tensors[i].st = w.tensors[Source(i)].st
    BY <1>3, <2>1 DEF BorrowedView, Same
  <2>3. ViewAt(i, rows) => w.tensors[i].st = w.tensors[Source(i)].st
    BY <1>1 DEF Storage, Settled
  <2>4. ~ViewAt(i, rows) => w.tensors[i].st # w.tensors[Source(i)].st
    BY <2>1, OwnersApart
  <2> QED
    BY <2>2, <2>3, <2>4
<1>4. CASE Op(i) = "reshape" /\ OnDevice
  <2>1. Operand(w.tensors, i) = w.tensors[Source(i)] /\ Source(i) \in 1 .. (i - 1)
    BY <1>1, <1>4, ServedSource
  <2>2. w.tensors[Source(i)].dense = DenseAt(Source(i), rows)
    BY <2>1
  <2> QED
    BY <1>4, <2>1, <2>2 DEF BorrowedView, ViewAt, ReshapeBorrows, StridedResult
<1>5. CASE Op(i) = "contiguous"
  <2>1. Operand(w.tensors, i) = w.tensors[Source(i)] /\ Source(i) \in 1 .. (i - 1)
    BY <1>1, <1>5, ServedSource
  <2>2. w.tensors[Source(i)].dense = DenseAt(Source(i), rows)
    BY <2>1
  <2> QED
    BY <1>5, <2>1, <2>2 DEF BorrowedView, ViewAt
<1>6. CASE Op(i) \notin {"permute", "slice", "reshape", "contiguous"}
  BY <1>6 DEF BorrowedView, ViewAt
<1> QED
  BY <1>2, <1>3, <1>4, <1>5, <1>6

(* Of a buffer kept from an earlier pass: it is no view. *)
LEMMA KeptNotBorrowed ==
    ASSUME PlanTypeOK, Served(graph, setup), Storage(Workspace, Nodes), CopiesAreStrided,
           NEW i \in Computable, tensors[i].st # 0, ~ViewAt(i, tensors[i].rows)
    PROVE  ~BorrowedView(tensors, i)
<1>1. i \in Nodes /\ ~Bound(i)
  BY DEF Computable
<1>2. PICK w : w = Workspace
  OBVIOUS
<1>3. w.tensors = tensors
  BY <1>2 DEF Workspace
<1>4. Op(i) \notin {"permute", "slice"}
  BY DEF ViewAt
<1>5. CASE Op(i) = "reshape" /\ ~OnDevice
  <2>1. Operand(tensors, i) = tensors[Source(i)] /\ Source(i) \in 1 .. (i - 1)
    BY <1>1, <1>5, ServedSource
  <2>2. tensors[i].st # tensors[Source(i)].st
    BY <1>2, <1>3, <2>1, OwnersApart
  <2> QED
    BY <1>5, <2>1, <2>2 DEF BorrowedView, Same
<1>6. CASE Op(i) \in {"reshape", "contiguous"} /\ OnDevice
  <2>1. Operand(tensors, i) = tensors[Source(i)]
    BY <1>1, <1>6, ServedSource
  <2>2. ~tensors[Source(i)].dense
    BY <1>1, <1>6 DEF CopiesAreStrided
  <2>3. Op(i) = "reshape" => ~StridedResult(i)
    BY DEF ViewAt
  <2> QED
    BY <1>6, <2>1, <2>2, <2>3 DEF BorrowedView, ReshapeBorrows, StridedResult
<1>7. CASE Op(i) \notin {"reshape", "contiguous"} \/ (Op(i) = "contiguous" /\ ~OnDevice)
  BY <1>4, <1>7 DEF BorrowedView
<1> QED
  BY <1>5, <1>6, <1>7

(* find_borrowed_views, after a pass. *)
LEMMA SharingAsBuilt ==
    ASSUME PlanTypeOK, Served(graph, setup), Storage(Workspace, Nodes),
           NEW i \in Computable, tensors[i].st # 0
    PROVE  SharingView(i) <=> ViewAt(i, tensors[i].rows)
<1>1. i \in Nodes /\ ~Bound(i)
  BY DEF Computable
<1>2. PICK w : w = Workspace
  OBVIOUS
<1>3. w.tensors = tensors
  BY <1>2 DEF Workspace
<1>4. CASE Op(i) \in {"permute", "slice"}
  BY <1>4 DEF SharingView, ViewAt
<1>5. CASE Op(i) \in {"reshape", "contiguous"}
  <2>1. Operand(tensors, i) = tensors[Source(i)] /\ Source(i) \in 1 .. (i - 1)
    BY <1>1, <1>5, ServedSource
  <2>2. ViewAt(i, tensors[i].rows) => tensors[i].st = tensors[Source(i)].st
    BY <1>1, <1>2, <1>3 DEF Storage, Settled
  <2>3. ~ViewAt(i, tensors[i].rows) => tensors[i].st # tensors[Source(i)].st
    BY <1>2, <1>3, <2>1, OwnersApart
  <2>4. SharingView(i) <=> tensors[i].st = tensors[Source(i)].st
    BY <1>5, <2>1 DEF SharingView, Same
  <2> QED
    BY <2>2, <2>3, <2>4
<1>6. CASE Op(i) \notin {"permute", "slice", "reshape", "contiguous"}
  BY <1>6 DEF SharingView, ViewAt
<1> QED
  BY <1>4, <1>5, <1>6

(* What a node is about to return. *)
LEMMA ViewsAsBuilt ==
    ASSUME PlanTypeOK, Served(graph, setup), rows \in setup.rows, NEW i \in Computable, NEW ts,
           \A s \in 1 .. (i - 1) : ts[s].dense = DenseAt(s, rows)
    PROVE  IsView(i, Operand(ts, i)) <=> ViewAt(i, rows)
<1>1. i \in Nodes /\ ~Bound(i)
  BY DEF Computable
<1>2. CASE Op(i) \in {"permute", "slice"}
  BY <1>2 DEF IsView, ViewAt
<1>3. CASE Op(i) = "reshape"
  <2>1. Operand(ts, i) = ts[Source(i)] /\ Source(i) \in 1 .. (i - 1)
    BY <1>1, <1>3, ServedSource
  <2>2. ts[Source(i)].dense = DenseAt(Source(i), rows)
    BY <2>1
  <2> QED
    BY <1>3, <2>1, <2>2 DEF IsView, ViewAt, ReshapeBorrows, StridedResult
<1>4. CASE Op(i) = "contiguous"
  <2>1. Operand(ts, i) = ts[Source(i)] /\ Source(i) \in 1 .. (i - 1)
    BY <1>1, <1>4, ServedSource
  <2>2. ts[Source(i)].dense = DenseAt(Source(i), rows)
    BY <2>1
  <2>3. OnDevice /\ setup.dynamic => ~DenseAt(Source(i), rows)
    <3>1. OnDevice /\ setup.dynamic => Op(Source(i)) \in {"permute", "slice"} /\ 1 \notin setup.rows
      BY <1>1, <1>4 DEF Served, Nodes, Op, Source, OnDevice
    <3> QED
      BY <3>1 DEF DenseAt
  <2> QED
    BY <1>4, <2>1, <2>2, <2>3 DEF IsView, ViewAt
<1>5. CASE Op(i) \notin {"permute", "slice", "reshape", "contiguous"}
  BY <1>5 DEF IsView, ViewAt
<1> QED
  BY <1>2, <1>3, <1>4, <1>5

LEMMA LastUseKeeps ==
    ASSUME PlanTypeOK, Served(graph, setup), LastUseComputed, PlanNext \/ UNCHANGED planVars
    PROVE  LastUseComputed'
<1>1. UNCHANGED <<graph, setup>>
  BY DEF PlanNext, Inspect, CountUses, Lengthen, Protect, Retain, planVars
<1>2. Nodes' = Nodes /\ (Unplannable' <=> Unplannable) /\ \A i : Bound(i)' <=> Bound(i)
  BY <1>1 DEF Nodes, Bound, Op, Unplannable, Stateful, Absorbed, OnDevice, Reads
<1>3. /\ lastUse \in [Nodes -> 0 .. Len(graph.ops)] /\ Len(graph.ops) \in Nat
      /\ Nodes = 1 .. Len(graph.ops) /\ cursor \in Nodes
  BY Loaded DEF PlanTypeOK
<1> DEFINE Fine(n) == n = 0 \/ (n \in Nodes /\ ~Bound(n))
<1>4. \A i \in Nodes : ~Bound(i) => Fine(lastUse[i])
  BY DEF LastUseComputed
<1>5. CASE Inspect
  BY <1>2, <1>4, <1>5 DEF Inspect, LastUseComputed
<1>6. CASE Protect \/ Retain \/ UNCHANGED planVars
  BY <1>2, <1>4, <1>6 DEF Protect, Retain, planVars, LastUseComputed
<1>7. CASE CountUses
  <2>1. ASSUME NEW x \in Nodes, ~Bound(x) PROVE Fine(lastUse'[x])
    <3>1. lastUse'[x] = IF x \in UsesOf(cursor) THEN Larger(lastUse[x], cursor) ELSE lastUse[x]
      BY <1>7, <2>1 DEF CountUses
    <3>2. Bound(cursor) => Reads(cursor) = {}
      BY <1>3 DEF Served, Bound, Op, Nodes, Reads
    <3>3. x \in UsesOf(cursor) => ~Bound(cursor)
      BY <2>1, <3>2 DEF UsesOf
    <3>4. lastUse'[x] = lastUse[x] \/ (x \in UsesOf(cursor) /\ lastUse'[x] = cursor)
      BY <3>1 DEF Larger
    <3> QED
      BY <1>3, <1>4, <2>1, <3>3, <3>4
  <2>2. reclaims' = reclaims
    BY <1>7 DEF CountUses
  <2> QED
    BY <1>2, <2>1, <2>2 DEF LastUseComputed
<1>8. CASE Lengthen
  <2>1. lastUse' = Lengthened(cursor) /\ reclaims' = reclaims
    BY <1>8 DEF Lengthen
  <2>2. CASE Borrows(cursor)
    <3>1. ~Bound(cursor)
      BY <2>2 DEF Borrows, ViewLike, ViewOps, Bound, BoundOps
    <3>2. \A x \in Nodes : lastUse'[x] = lastUse[x] \/ lastUse'[x] = lastUse[cursor]
      BY <1>3, <2>1, <2>2 DEF Lengthened, Larger
    <3>3. \A x \in Nodes : ~Bound(x) => Fine(lastUse'[x])
      BY <1>3, <1>4, <3>1, <3>2
    <3> QED
      BY <1>2, <2>1, <3>3 DEF LastUseComputed
  <2>3. CASE ~Borrows(cursor)
    BY <1>2, <1>4, <2>1, <2>3 DEF Lengthened, LastUseComputed
  <2> QED
    BY <2>2, <2>3
<1> QED
  BY <1>5, <1>6, <1>7, <1>8 DEF PlanNext

-----------------------------------------------------------------------------
(* What a step leaves alone that keeps the graph and its setup. *)

LEMMA GraphStays ==
    ASSUME UNCHANGED <<graph, setup>>
    PROVE  /\ Nodes' = Nodes /\ Computable' = Computable /\ InputNodes' = InputNodes
           /\ FirstStateful' = FirstStateful /\ Kind' = Kind /\ (OnDevice' <=> OnDevice)
           /\ \A i : /\ Op(i)' = Op(i) /\ Source(i)' = Source(i) /\ Reads(i)' = Reads(i)
                     /\ (Bound(i)' <=> Bound(i)) /\ (IsInput(i)' <=> IsInput(i))
                     /\ (Exposed(i)' <=> Exposed(i)) /\ External(i)' = External(i)
<1>1. Nodes' = Nodes /\ Kind' = Kind /\ (OnDevice' <=> OnDevice)
  BY DEF Nodes, Kind, OnDevice
<1>2. \A i : /\ Op(i)' = Op(i) /\ Source(i)' = Source(i) /\ Reads(i)' = Reads(i)
             /\ (Bound(i)' <=> Bound(i)) /\ (IsInput(i)' <=> IsInput(i))
             /\ (Exposed(i)' <=> Exposed(i)) /\ External(i)' = External(i)
  BY DEF Op, Source, Reads, Bound, IsInput, Exposed, External
<1>3. Computable' = Computable /\ InputNodes' = InputNodes /\ FirstStateful' = FirstStateful
  BY <1>1, <1>2 DEF Computable, InputNodes, FirstStateful, Stateful
<1> QED
  BY <1>1, <1>2, <1>3

LEMMA ShapesStay ==
    ASSUME UNCHANGED <<graph, setup>>
    PROVE  /\ Tensor' = Tensor /\ Spaces' = Spaces
           /\ \A i, r : DenseAt(i, r)' = DenseAt(i, r) /\ (ViewAt(i, r)' <=> ViewAt(i, r))
           /\ \A m, c : MoePlanned(m, c)' <=> MoePlanned(m, c)
<1>1. \A i : StridedResult(i)' <=> StridedResult(i)
  BY DEF StridedResult, StridedTarget, OnDevice, Op, Source, OnlyUse, Exposed, Uses, Nodes
<1>2. \A i, r : DenseAt(i, r)' = DenseAt(i, r)
  BY <1>1, GraphStays DEF DenseAt
<1>3. \A i, r : ViewAt(i, r)' <=> ViewAt(i, r)
  BY <1>1, <1>2, GraphStays DEF ViewAt
<1>4. Tensor' = Tensor
  BY DEF Tensor
<1>5. Spaces' = Spaces
  BY <1>4, GraphStays DEF Spaces
<1>6. \A m, c : MoePlanned(m, c)' <=> MoePlanned(m, c)
  BY DEF MoePlanned, InjectPlanned, NextComputed, OnlyUse, Uses, Exposed, Nodes, Op, Bound
<1> QED
  BY <1>2, <1>3, <1>4, <1>5, <1>6

LEMMA StorageStays ==
    ASSUME UNCHANGED <<graph, setup>>, NEW w, NEW live, Storage(w, live)
    PROVE  Storage(w, live)'
<1>1. \A i \in live : Settled(w, i)'
  BY GraphStays, ShapesStay DEF Storage, Settled
<1> QED
  BY <1>1, GraphStays, ShapesStay DEF Storage

(* The workspace of the next state. *)
LEMMA StoredNext ==
    ASSUME UNCHANGED <<graph, setup>>, NEW w, NEW live, Storage(w, live), w \in Spaces,
           pool' = w.pool, holder' = w.holder, tensors' = w.tensors, live = Live'
    PROVE  Stored'
<1>1. Workspace' = w
  BY DEF Workspace, Spaces
<1>2. Storage(w, live)'
  BY StorageStays
<1> QED
  BY <1>1, <1>2 DEF Stored

-----------------------------------------------------------------------------
(* One lemma for each kind of step. *)

Known == PlanInv /\ Served(graph, setup) /\ LastUseComputed /\ DeferInv /\ ExecInv

LEMMA WorkspaceKnown ==
    ASSUME PlanTypeOK, ExecInv
    PROVE  /\ Workspace \in Spaces /\ Storage(Workspace, Live)
           /\ Workspace.pool = pool /\ Workspace.holder = holder /\ Workspace.tensors = tensors
           /\ tensors \in [Nodes -> Tensor] /\ PoolBooks(pool) /\ pool \in PoolRecords
           /\ holder \in [Buffers -> Nodes \union {0}]
<1>1. Workspace.pool = pool /\ Workspace.holder = holder /\ Workspace.tensors = tensors
  BY DEF Workspace
<1>2. Storage(Workspace, Live)
  BY DEF ExecInv, Stored
<1> QED
  BY <1>1, <1>2, StorageParts

(* Nothing of the workspace moves, but perhaps the deferred releases return. *)
LEMMA QuietStored ==
    ASSUME PlanTypeOK, ExecInv, UNCHANGED <<graph, setup, tensors, holder>>, Live' = Live,
           pool' = pool \/ pool' = Flushed(pool)
    PROVE  Stored' /\ Out(pool') = Out(pool)
<1>1. PICK w : w = Workspace
  OBVIOUS
<1>2. /\ w \in Spaces /\ Storage(w, Live) /\ w.pool = pool /\ w.holder = holder
      /\ w.tensors = tensors
      /\ PoolBooks(pool)
  BY <1>1, WorkspaceKnown
<1>3. PICK L : L = Live
  OBVIOUS
<1>4. PICK p : p = pool'
  OBVIOUS
<1>5. PoolBooks(p) /\ Out(p) = Out(w.pool) /\ p.size = w.pool.size
  BY <1>2, <1>4, FlushSettles
<1>6. PICK q : q = [pool |-> p, holder |-> w.holder, tensors |-> w.tensors]
  OBVIOUS
<1>7. Storage(q, L) /\ q \in Spaces
  <2>1. Storage(q, L)
    BY <1>2, <1>3, <1>5, <1>6, PoolSwapped
  <2> QED
    BY <2>1, StorageParts
<1>8. Stored'
  <2>1. pool' = q.pool /\ holder' = q.holder /\ tensors' = q.tensors
    BY <1>2, <1>4, <1>6
  <2> QED
    BY <1>3, <1>7, <2>1, StoredNext
<1> QED
  BY <1>2, <1>4, <1>5, <1>8

(* Values stay while nobody writes and what is out stays out. *)
LEMMA QuietIntact ==
    ASSUME PlanTypeOK, ExecInv, phase # "idle",
           UNCHANGED <<graph, setup, tensors, content, seen>>, Out(pool') = Out(pool),
           NEW x \in Nodes, Intact(x)
    PROVE  Intact(x)'
<1>1. Settled(Workspace, x)
  BY DEF ExecInv, Stored, Storage, Live
<1>2. tensors[x].st \in Buffers => tensors[x].st \in Out(pool)
  BY <1>1, WorkspaceKnown DEF Settled
<1>3. tensors[x].st \in Buffers => tensors[x].st \in pool'.active
  BY <1>2 DEF Out
<1> QED
  BY <1>3 DEF Intact

LEMMA ReuseStays ==
    ASSUME UNCHANGED <<setup, key, rows>>
    PROVE  ReuseWorkspace' <=> ReuseWorkspace
  BY DEF ReuseWorkspace, SameShape

LEMMA PassInputExec ==
    ASSUME Known, PassInput
    PROVE  ExecInv'
<1>1. /\ phase = "run" /\ pos <= last /\ Bound(pos) /\ pos' = pos + 1
      /\ UNCHANGED <<planVars, phase, tensors, pool, content, holder, seen, computed,
                   last, waiting, rows, pass, failed, key, mode>>
  BY DEF PassInput
<1>2. UNCHANGED <<graph, setup, stage, lastUse, keep, reclaims>>
  BY <1>1 DEF planVars
<1>3. PlanTypeOK /\ ExecInv /\ Served(graph, setup)
  BY DEF Known, PlanInv
<1>4. /\ pos \in Nodes /\ pos \in Nat \ {0} /\ Len(graph.ops) \in Nat /\ Nodes = 1 .. Len(graph.ops)
  BY <1>1, <1>3, Loaded DEF ExecInv, Counters
<1>5. Counters'
  BY <1>1, <1>2, <1>3, <1>4, GraphStays DEF ExecInv, Counters
<1>6. Stored'
  BY <1>1, <1>2, <1>3, QuietStored, GraphStays DEF Live
<1>7. BoundTensors' /\ CopiesAreStrided' /\ KeptStorage' /\ StaleInputs'
  BY <1>1, <1>2, <1>3, GraphStays, ShapesStay
     DEF ExecInv, BoundTensors, CopiesAreStrided, KeptStorage, StaleInputs
<1>8. ShapedTensors'
  <2>1. tensors[pos].dense = DenseAt(pos, rows)
    BY <1>1, <1>3, <1>4
       DEF ExecInv, BoundTensors, DenseAt, StridedResult, StridedTarget, Bound, BoundOps
  <2>2. \A i \in 1 .. pos : i = pos \/ i \in 1 .. (pos - 1)
    BY <1>4
  <2>3. \A i \in 1 .. pos : tensors[i].dense = DenseAt(i, rows)
                               /\ (~Bound(i) => tensors[i].rows = rows)
    BY <1>1, <1>3, <2>1, <2>2 DEF ExecInv, ShapedTensors, Running
  <2>4. pos' - 1 = pos
    BY <1>1, <1>4
  <2>5. \A i \in 1 .. (pos' - 1) : tensors'[i].dense = DenseAt(i, rows)'
                                    /\ (~Bound(i)' => tensors'[i].rows = rows')
    BY <1>1, <1>2, <2>3, <2>4, GraphStays, ShapesStay
  <2>6. \A i \in Computable' : tensors'[i].st # 0 => tensors'[i].rows = rows'
    BY <1>1, <1>2, <1>3, GraphStays DEF ExecInv, ShapedTensors, Running
  <2> QED
    BY <2>5, <2>6 DEF ShapedTensors
<1>9. Ahead'
  <2>1. \A i \in Computable : i >= pos + 1 => i >= pos
    BY <1>4 DEF Computable
  <2> QED
    BY <1>1, <1>2, <1>3, <2>1, GraphStays, ShapesStay, ReuseStays DEF ExecInv, Ahead, Running
<1>10. ComputedHolders' /\ FreedWhenDue'
  BY <1>1, <1>2, <1>3, GraphStays, ReuseStays
     DEF ExecInv, ComputedHolders, FreedWhenDue, Running, Released
<1>11. Values'
  <2>1. \A x : Intact(x)' <=> Intact(x)
    BY <1>1 DEF Intact
  <2>2. \A x : Needed(x)' <=> Needed(x)
    BY <1>1, <1>2, GraphStays DEF Needed
  <2> QED
    BY <1>1, <1>3, <2>1, <2>2 DEF ExecInv, Values
<1>12. Books'
  <2>1. 1 .. (pos - 1) \subseteq 1 .. (pos' - 1)
    BY <1>1, <1>4
  <2> QED
    BY <1>1, <1>2, <1>3, <2>1, GraphStays DEF ExecInv, Books, Running
<1>13. ChainBooks'
  BY <1>1, <1>2, <1>3, GraphStays, ShapesStay DEF ExecInv, ChainBooks, Awaited
<1> QED
  BY <1>5, <1>6, <1>7, <1>8, <1>9, <1>10, <1>11, <1>12, <1>13 DEF ExecInv

LEMMA EndPassExec ==
    ASSUME Known, EndPass
    PROVE  ExecInv'
<1>1. /\ phase = "run" /\ pool' = Flushed(pool) /\ phase' \in {"suspended", "over"}
      /\ UNCHANGED <<planVars, tensors, content, holder, seen, computed, pos, last,
                     waiting, rows, pass, failed, mode>>
      /\ phase' = "suspended" => key' = key
      /\ key' = rows \/ key' = key
      /\ phase' = "over" /\ setup.reuseSame /\ setup.dynamic => key' = rows
  BY DEF EndPass
<1>2. UNCHANGED <<graph, setup, stage, lastUse, keep, reclaims>>
  BY <1>1 DEF planVars
<1>3. PlanTypeOK /\ ExecInv
  BY DEF Known, PlanInv
<1>4. Stored' /\ Out(pool') = Out(pool)
  BY <1>1, <1>2, <1>3, QuietStored, GraphStays DEF Live
<1>5. Counters'
  BY <1>1, <1>2, <1>3, GraphStays DEF ExecInv, Counters
<1>6. BoundTensors' /\ CopiesAreStrided' /\ KeptStorage' /\ StaleInputs'
  BY <1>1, <1>2, <1>3, GraphStays, ShapesStay
     DEF ExecInv, BoundTensors, CopiesAreStrided, KeptStorage, StaleInputs
<1>7. ShapedTensors'
  <2>1. \A i \in 1 .. (pos' - 1) : tensors'[i].dense = DenseAt(i, rows)'
                                    /\ (~Bound(i)' => tensors'[i].rows = rows')
    BY <1>1, <1>2, <1>3, GraphStays, ShapesStay DEF ExecInv, ShapedTensors, Running
  <2>2. \A i \in Computable' : tensors'[i].st # 0 => tensors'[i].rows = rows'
    BY <1>1, <1>2, <1>3, GraphStays DEF ExecInv, ShapedTensors, Running
  <2> QED
    BY <2>1, <2>2 DEF ShapedTensors
<1>8. Ahead' /\ FreedWhenDue'
  <2>1. CASE phase' = "over"
    BY <2>1 DEF Ahead, FreedWhenDue, Running
  <2>2. CASE phase' = "suspended"
    BY <1>1, <1>2, <1>3, <2>2, GraphStays, ShapesStay, ReuseStays
       DEF ExecInv, Ahead, FreedWhenDue, Running, Released
  <2> QED
    BY <1>1, <2>1, <2>2
<1>9. ComputedHolders'
  BY <1>1, <1>2, <1>3, GraphStays DEF ExecInv, ComputedHolders, Running
<1>10. Values'
  <2>1. \A x : Needed(x)' <=> Needed(x)
    BY <1>1, <1>2, GraphStays DEF Needed
  <2>2. \A x \in computed : x \in Nodes /\ (Needed(x) => Intact(x))
    BY <1>1, <1>3 DEF ExecInv, Values, Counters
  <2>3. \A x \in computed : Needed(x)' => Intact(x)'
    BY <1>1, <1>2, <1>3, <1>4, <2>1, <2>2, QuietIntact
  <2> QED
    BY <1>1, <2>3 DEF Values
<1>11. Books'
  BY <1>1, <1>2, <1>3, GraphStays DEF ExecInv, Books, Running
<1>12. ChainBooks'
  BY <1>1 DEF ChainBooks
<1> QED
  BY <1>4, <1>5, <1>6, <1>7, <1>8, <1>9, <1>10, <1>11, <1>12 DEF ExecInv

LEMMA ResumeExec ==
    ASSUME Known, Resume
    PROVE  ExecInv'
<1>1. /\ phase = "suspended" /\ phase' = "run" /\ waiting' = NoneWaiting
      /\ last' \in pos .. Len(graph.ops)
      /\ UNCHANGED <<planVars, tensors, pool, content, holder, seen, computed, pos,
                     rows, pass, failed, key, mode>>
  BY DEF Resume
<1>2. UNCHANGED <<graph, setup, stage, lastUse, keep, reclaims>>
  BY <1>1 DEF planVars
<1>3. PlanTypeOK /\ ExecInv /\ mode = "segment"
  BY <1>1 DEF Known, PlanInv, DeferInv
<1>4. Len(graph.ops) \in Nat
  BY <1>3, Loaded
<1>5. Counters'
  <2>1. pos \in 1 .. (Len(graph.ops) + 1)
    BY <1>3 DEF ExecInv, Counters
  <2>2. last' \in 0 .. Len(graph.ops)
    BY <1>1, <1>4, <2>1
  <2>3. waiting' \in [{"gate", "up", "inject", "moe"} -> 0 .. Len(graph.ops)]
    BY <1>1, <1>4 DEF NoneWaiting
  <2> QED
    BY <1>1, <1>2, <1>3, <2>2, <2>3, GraphStays DEF ExecInv, Counters
<1>6. Stored'
  BY <1>1, <1>2, <1>3, QuietStored, GraphStays DEF Live
<1>7. BoundTensors' /\ CopiesAreStrided' /\ KeptStorage' /\ StaleInputs'
  BY <1>1, <1>2, <1>3, GraphStays, ShapesStay
     DEF ExecInv, BoundTensors, CopiesAreStrided, KeptStorage, StaleInputs
<1>8. ShapedTensors'
  <2>1. \A i \in 1 .. (pos' - 1) : tensors'[i].dense = DenseAt(i, rows)'
                                    /\ (~Bound(i)' => tensors'[i].rows = rows')
    BY <1>1, <1>2, <1>3, GraphStays, ShapesStay DEF ExecInv, ShapedTensors, Running
  <2>2. \A i \in Computable' : tensors'[i].st # 0 => tensors'[i].rows = rows'
    BY <1>1, <1>2, <1>3, GraphStays DEF ExecInv, ShapedTensors, Running
  <2> QED
    BY <2>1, <2>2 DEF ShapedTensors
<1>9. Ahead' /\ FreedWhenDue' /\ ComputedHolders'
  BY <1>1, <1>2, <1>3, GraphStays, ShapesStay, ReuseStays
     DEF ExecInv, Ahead, FreedWhenDue, ComputedHolders, Running, Released
<1>10. Values'
  <2>1. \A x : Intact(x)' <=> Intact(x)
    BY <1>1 DEF Intact
  <2>2. \A x : Needed(x)' => Needed(x)
    BY <1>1, <1>2, <1>3, GraphStays DEF Needed
  <2> QED
    BY <1>1, <1>3, <2>1, <2>2 DEF ExecInv, Values
<1>11. Books'
  BY <1>1, <1>2, <1>3, GraphStays DEF ExecInv, Books, Running
<1>12. ChainBooks'
  <2>1. Awaited' = {0}
    BY <1>1 DEF Awaited, NoneWaiting
  <2>2. 0 \notin computed
    BY <1>3, Loaded DEF ExecInv, Counters
  <2> QED
    BY <1>1, <2>1, <2>2 DEF ChainBooks, NoneWaiting
<1> QED
  BY <1>5, <1>6, <1>7, <1>8, <1>9, <1>10, <1>11, <1>12 DEF ExecInv

LEMMA AbandonExec ==
    ASSUME Known, Abandon
    PROVE  ExecInv'
<1>1. /\ phase = "suspended" /\ setup.mayFail /\ failed' = TRUE /\ phase' = "over"
      /\ UNCHANGED <<planVars, tensors, pool, content, holder, seen, computed, pos,
                     last, waiting, rows, pass, key, mode>>
  BY DEF Abandon
<1>2. UNCHANGED <<graph, setup, stage, lastUse, keep, reclaims>>
  BY <1>1 DEF planVars
<1>3. PlanTypeOK /\ ExecInv /\ ~setup.reuseSame
  BY <1>1 DEF Known, PlanInv, Served
<1>4. Stored'
  BY <1>1, <1>2, <1>3, QuietStored, GraphStays DEF Live
<1>5. Counters'
  BY <1>1, <1>2, <1>3, GraphStays DEF ExecInv, Counters
<1>6. BoundTensors' /\ CopiesAreStrided' /\ KeptStorage' /\ StaleInputs'
  BY <1>1, <1>2, <1>3, GraphStays, ShapesStay
     DEF ExecInv, BoundTensors, CopiesAreStrided, KeptStorage, StaleInputs
<1>7. ShapedTensors' /\ Ahead' /\ FreedWhenDue' /\ ComputedHolders'
  BY <1>1, <1>2, <1>3, GraphStays
     DEF ExecInv, ShapedTensors, Ahead, FreedWhenDue, ComputedHolders, Running
<1>8. Values' /\ ChainBooks'
  BY <1>1 DEF Values, ChainBooks
<1>9. Books'
  BY <1>1, <1>2, <1>3, GraphStays DEF ExecInv, Books, Running
<1> QED
  BY <1>4, <1>5, <1>6, <1>7, <1>8, <1>9 DEF ExecInv

(* Planning goes on between passes, and does not touch the pass. *)
LEMMA PrepareExec ==
    ASSUME Known, PlanNext /\ UNCHANGED passVars
    PROVE  ExecInv'
<1>1. /\ UNCHANGED <<phase, tensors, pool, content, holder, seen, computed, pos, last,
                     waiting, rows, pass, failed, key, mode>>
      /\ UNCHANGED <<graph, setup>> /\ stage # "ready"
  BY DEF PlanNext, Inspect, CountUses, Lengthen, Protect, Retain, passVars
<1>2. PlanTypeOK /\ ExecInv
  BY DEF Known, PlanInv
<1>3. phase = "idle"
  BY <1>1, <1>2 DEF ExecInv, Books
<1>4. Stored'
  BY <1>1, <1>2, QuietStored, GraphStays DEF Live
<1>5. Counters'
  BY <1>1, <1>2, GraphStays DEF ExecInv, Counters
<1>6. BoundTensors' /\ CopiesAreStrided' /\ KeptStorage' /\ StaleInputs'
  BY <1>1, <1>2, GraphStays, ShapesStay
     DEF ExecInv, BoundTensors, CopiesAreStrided, KeptStorage, StaleInputs
<1>7. /\ ShapedTensors' /\ Ahead' /\ FreedWhenDue' /\ ComputedHolders' /\ Values'
      /\ Books' /\ ChainBooks'
  BY <1>1, <1>3
     DEF ShapedTensors, Ahead, FreedWhenDue, ComputedHolders, Running, Values, Books, ChainBooks
<1> QED
  BY <1>4, <1>5, <1>6, <1>7 DEF ExecInv

LEMMA StutterExec ==
    ASSUME Known, UNCHANGED vars
    PROVE  ExecInv'
<1>1. /\ UNCHANGED <<phase, tensors, pool, content, holder, seen, computed, pos, last,
                     waiting, rows, pass, failed, key, mode>>
      /\ UNCHANGED <<graph, setup, stage, lastUse, keep, reclaims>>
  BY DEF vars, planVars, passVars
<1>2. PlanTypeOK /\ ExecInv
  BY DEF Known, PlanInv
<1>3. Stored'
  BY <1>1, <1>2, QuietStored, GraphStays DEF Live
<1>4. Counters' /\ Books'
  BY <1>1, <1>2, GraphStays DEF ExecInv, Counters, Books, Running
<1>5. BoundTensors' /\ CopiesAreStrided' /\ KeptStorage' /\ StaleInputs'
  BY <1>1, <1>2, GraphStays, ShapesStay
     DEF ExecInv, BoundTensors, CopiesAreStrided, KeptStorage, StaleInputs
<1>6. ShapedTensors'
  <2>1. Running => \A i \in 1 .. (pos' - 1) : tensors'[i].dense = DenseAt(i, rows)'
                                    /\ (~Bound(i)' => tensors'[i].rows = rows')
    BY <1>1, <1>2, GraphStays, ShapesStay DEF ExecInv, ShapedTensors
  <2>2. Running \/ phase = "over" =>
            \A i \in Computable' : tensors'[i].st # 0 => tensors'[i].rows = rows'
    BY <1>1, <1>2, GraphStays DEF ExecInv, ShapedTensors
  <2> QED
    BY <1>1, <2>1, <2>2 DEF ShapedTensors, Running
<1>7. Ahead' /\ FreedWhenDue' /\ ComputedHolders'
  BY <1>1, <1>2, GraphStays, ShapesStay, ReuseStays
     DEF ExecInv, Ahead, FreedWhenDue, ComputedHolders, Running, Released
<1>8. Values'
  <2>1. \A x : (Intact(x)' <=> Intact(x)) /\ (Needed(x)' <=> Needed(x))
    BY <1>1, GraphStays DEF Intact, Needed
  <2> QED
    BY <1>1, <1>2, <2>1 DEF ExecInv, Values
<1>9. ChainBooks'
  BY <1>1, <1>2, GraphStays, ShapesStay DEF ExecInv, ChainBooks, Awaited
<1> QED
  BY <1>3, <1>4, <1>5, <1>6, <1>7, <1>8, <1>9 DEF ExecInv

(* A kept workspace has the rows of the pass that reuses it. *)
LEMMA KeptForThisShape ==
    ASSUME Known, phase = "bound", ReuseWorkspace, NEW i \in Computable, tensors[i].st # 0
    PROVE  tensors[i].rows = rows
<1>1. KeptStorage /\ Books /\ Served(graph, setup)
  BY DEF Known, ExecInv
<1>2. /\ tensors[i].rows \in setup.rows /\ rows \in setup.rows
      /\ setup.dynamic /\ setup.reuseSame /\ key # 0 => tensors[i].rows = key
  BY <1>1 DEF KeptStorage, Books
<1>3. CASE setup.dynamic
  BY <1>2, <1>3 DEF ReuseWorkspace, SameShape
<1>4. CASE ~setup.dynamic
  BY <1>1, <1>2, <1>4 DEF ReuseWorkspace, Served
<1> QED
  BY <1>3, <1>4

\* What the start of a pass leaves: the tensors ts and the pool p.
Opened(ts, p) ==
    /\ Storage([pool |-> p, holder |-> holder, tensors |-> ts], Nodes)
    /\ \A i \in Nodes : ts[i].st = 0 \/ ts[i] = tensors[i]
    /\ \A i \in Nodes : Bound(i) => ts[i] = tensors[i]
    /\ \A i \in Nodes : ts[i].dense = tensors[i].dense /\ ts[i].rows = tensors[i].rows
    /\ \A i \in Computable : ts[i].st # 0 => ReuseWorkspace

LEMMA BeginOpens ==
    ASSUME Known, phase = "bound", NEW borrowed, NEW owners,
           borrowed = {i \in Computable : BorrowedView(tensors, i)},
           owners = IF ReuseWorkspace THEN {} ELSE Computable \ borrowed
    PROVE  Opened(Forgotten(tensors, borrowed \union owners), Freed(pool, tensors, owners, TRUE))
<1>1. PlanTypeOK /\ ExecInv /\ Served(graph, setup)
  BY DEF Known, PlanInv
<1>2. PICK w : w = Workspace
  OBVIOUS
<1>3. /\ Storage(w, Nodes) /\ w.pool = pool /\ w.holder = holder /\ w.tensors = tensors
      /\ w \in Spaces
  BY <1>1, <1>2, WorkspaceKnown DEF Live
<1>4. PICK D : D = borrowed \union owners
  OBVIOUS
<1>5. D \in SUBSET Computable /\ borrowed \in SUBSET D /\ D \ borrowed = owners
  BY <1>4
<1>6. \A i \in Computable : tensors[i].st # 0 =>
          ~ViewAt(i, tensors[i].rows) /\ ~BorrowedView(tensors, i)
  <2>1. ASSUME NEW i \in Computable, tensors[i].st # 0
        PROVE  ~ViewAt(i, tensors[i].rows) /\ ~BorrowedView(tensors, i)
    <3>1. ~ViewAt(i, tensors[i].rows)
      BY <1>1, <2>1 DEF ExecInv, KeptStorage
    <3>2. CopiesAreStrided /\ Storage(Workspace, Nodes)
      BY <1>1, <1>2, <1>3 DEF ExecInv
    <3> QED
      BY <1>1, <2>1, <3>1, <3>2, KeptNotBorrowed
  <2> QED
    BY <2>1
<1>7. PICK q : q = [pool |-> Freed(w.pool, w.tensors, D \ borrowed, TRUE), holder |-> w.holder,
                    tensors |-> Forgotten(w.tensors, D)]
  OBVIOUS
<1>8. PICK ts : ts = q.tensors
  OBVIOUS
<1>9. PICK p : p = q.pool
  OBVIOUS
<1>10. Returnable(w, D, borrowed, D)
  BY <1>3, <1>5, <1>6 DEF Returnable
<1>11. GaveBack(w, D, q)
  BY <1>1, <1>3, <1>7, <1>10, GivenBack
<1>12. /\ Storage(q, Nodes)
       /\ \A i \in D : ts[i].st = 0
       /\ \A i \in Nodes \ D : ts[i] = w.tensors[i]
       /\ \A i \in Nodes : ts[i].st = 0 \/ ts[i] = w.tensors[i]
       /\ \A i \in Nodes : ts[i].dense = w.tensors[i].dense /\ ts[i].rows = w.tensors[i].rows
  BY <1>8, <1>11 DEF GaveBack
<1>13. \A i \in Computable : ts[i].st # 0 => ReuseWorkspace
  <2>1. ASSUME NEW i \in Computable, ~ReuseWorkspace PROVE i \in D
    BY <1>4, <2>1
  <2> QED
    BY <1>12, <2>1
<1>14. \A i \in Nodes : Bound(i) => i \in Nodes \ D
  BY <1>5 DEF Computable
<1>15. ts = Forgotten(tensors, borrowed \union owners) /\ p = Freed(pool, tensors, owners, TRUE)
  BY <1>3, <1>4, <1>5, <1>7, <1>8, <1>9
<1>16. q = [pool |-> p, holder |-> holder, tensors |-> ts]
  BY <1>3, <1>7, <1>8, <1>9
<1>17. Opened(ts, p)
  BY <1>3, <1>12, <1>13, <1>14, <1>16 DEF Opened
<1> QED
  BY <1>15, <1>17

LEMMA BeginExec ==
    ASSUME Known, NEW m, NEW l \in 0 .. Len(graph.ops), Begin(m, l),
           m \in {"whole", "stop", "segment"}, m = "stop" => l \in FirstStateful
    PROVE  ExecInv'
<1>1. /\ phase = "bound" /\ m \in setup.modes
      /\ mode' = m /\ last' = l /\ pos' = 1 /\ waiting' = NoneWaiting /\ phase' = "run"
      /\ UNCHANGED <<planVars, content, holder, seen, computed, rows, pass, failed, key>>
      /\ Opened(tensors', pool')
  <2>1. PICK borrowed : borrowed = {i \in Computable : BorrowedView(tensors, i)}
    OBVIOUS
  <2>2. PICK owners : owners = IF ReuseWorkspace THEN {} ELSE Computable \ borrowed
    OBVIOUS
  <2>3. phase = "bound"
    BY DEF Begin
  <2>4. tensors' = Forgotten(tensors, borrowed \union owners)
        /\ pool' = Freed(pool, tensors, owners, TRUE)
    BY <2>1, <2>2 DEF Begin
  <2>5. Opened(tensors', pool')
    BY <2>1, <2>2, <2>3, <2>4, BeginOpens
  <2> QED
    BY <2>3, <2>5 DEF Begin
<1>2. UNCHANGED <<graph, setup, stage, lastUse, keep, reclaims>>
  BY <1>1 DEF planVars
<1>3. PlanTypeOK /\ ExecInv /\ Served(graph, setup)
  BY DEF Known, PlanInv
<1>4. Len(graph.ops) \in Nat /\ Nodes = 1 .. Len(graph.ops)
  BY <1>3, Loaded
<1>5. Counters'
  <2>1. waiting' \in [{"gate", "up", "inject", "moe"} -> 0 .. Len(graph.ops)]
    BY <1>1, <1>4 DEF NoneWaiting
  <2>2. pos' \in 1 .. (Len(graph.ops) + 1)
    BY <1>1, <1>4
  <2> QED
    BY <1>1, <1>2, <1>3, <2>1, <2>2, GraphStays DEF ExecInv, Counters
<1>6. PICK q : q = [pool |-> pool', holder |-> holder, tensors |-> tensors']
  OBVIOUS
<1>7. Storage(q, Nodes)
  BY <1>1, <1>6 DEF Opened
<1>8. Stored'
  <2>1. q \in Spaces
    BY <1>3, <1>7, StorageParts
  <2>2. Live' = Nodes
    BY <1>1, <1>2, GraphStays DEF Live
  <2> QED
    BY <1>1, <1>2, <1>6, <1>7, <2>1, <2>2, StoredNext
<1>9. /\ \A i \in Nodes : tensors'[i].st = 0 \/ tensors'[i] = tensors[i]
      /\ \A i \in Nodes : Bound(i) => tensors'[i] = tensors[i]
      /\ \A i \in Nodes : tensors'[i].dense = tensors[i].dense /\ tensors'[i].rows = tensors[i].rows
      /\ \A i \in Computable : tensors'[i].st # 0 => ReuseWorkspace
  BY <1>1 DEF Opened
<1>10. BoundTensors'
  <2>1. \A i \in InputNodes : i \in Nodes
    BY DEF InputNodes
  <2> QED
    BY <1>1, <1>2, <1>3, <1>9, <2>1, GraphStays DEF ExecInv, BoundTensors
<1>11. CopiesAreStrided'
  <2>1. ASSUME NEW i \in Nodes, OnDevice, Op(i) \in {"reshape", "contiguous"},
               tensors'[i].st # 0, ~ViewAt(i, tensors'[i].rows)
        PROVE  ~tensors'[Source(i)].dense
    <3>1. ~tensors[Source(i)].dense
      BY <1>3, <1>9, <2>1 DEF ExecInv, CopiesAreStrided
    <3>2. Source(i) \in Nodes
      BY <1>3, <2>1, ServedSource
    <3> QED
      BY <1>9, <3>1, <3>2
  <2> QED
    BY <1>2, <2>1, GraphStays, ShapesStay DEF CopiesAreStrided
<1>12. KeptStorage' /\ StaleInputs' /\ ChainBooks'
  <2>1. Awaited' = {0} /\ 0 \notin computed
    BY <1>1, <1>3, <1>4 DEF Awaited, NoneWaiting, ExecInv, Counters
  <2> QED
    BY <1>1, <2>1 DEF KeptStorage, StaleInputs, ChainBooks, NoneWaiting
<1>13. \A i \in Computable : i \in Nodes /\ (tensors'[i].st # 0 =>
           tensors'[i].rows = rows /\ ReuseWorkspace /\ ~ViewAt(i, rows))
  <2>1. ASSUME NEW i \in Computable, tensors'[i].st # 0
        PROVE  tensors'[i].rows = rows /\ ReuseWorkspace /\ ~ViewAt(i, rows)
    <3>1. i \in Nodes /\ ReuseWorkspace /\ tensors'[i] = tensors[i]
      BY <1>9, <2>1 DEF Computable
    <3>2. tensors[i].rows = rows
      BY <1>1, <2>1, <3>1, KeptForThisShape
    <3>3. ~ViewAt(i, tensors[i].rows)
      BY <1>1, <1>3, <2>1, <3>1 DEF ExecInv, KeptStorage
    <3> QED
      BY <3>1, <3>2, <3>3
  <2> QED
    BY <2>1 DEF Computable
<1>14. ShapedTensors' /\ Ahead'
  <2>1. \A i \in 1 .. (pos' - 1) : FALSE
    BY <1>1
  <2> QED
    BY <1>1, <1>2, <1>13, <2>1, GraphStays, ShapesStay, ReuseStays DEF ShapedTensors, Ahead
<1>15. computed = {i \in Nodes : Bound(i)}
  BY <1>1, <1>3 DEF ExecInv, Books
<1>16. ComputedHolders'
  <2>1. ASSUME NEW i \in computed, tensors'[i].st \in Buffers
        PROVE  holder[tensors'[i].st] \in computed
    <3>1. i \in Nodes /\ Bound(i) /\ Settled(q, i)
      BY <1>7, <1>15 DEF Storage
    <3> QED
      BY <1>6, <2>1, <3>1 DEF Settled
  <2> QED
    BY <1>1, <2>1 DEF ComputedHolders
<1>17. FreedWhenDue'
  <2>1. ASSUME ~ReuseWorkspace, NEW i \in Nodes, Released(i) PROVE tensors'[i].st = 0
    <3>1. i \in Computable
      BY <2>1 DEF Released, Computable, Bound
    <3> QED
      BY <1>9, <2>1, <3>1
  <2> QED
    BY <1>1, <1>2, <2>1, GraphStays, ReuseStays DEF FreedWhenDue, Released
<1>18. Values'
  <2>1. ASSUME NEW x \in computed PROVE Intact(x)'
    <3>1. x \in Nodes /\ Bound(x) /\ Settled(q, x) /\ tensors'[x] = tensors[x] /\ Intact(x)
      BY <1>1, <1>3, <1>7, <1>9, <1>15 DEF Storage, ExecInv, Values
    <3>2. tensors'[x].st \in Buffers => tensors'[x].st \in Out(pool')
      BY <1>6, <3>1 DEF Settled
    <3>3. tensors'[x].st \in Buffers => tensors'[x].st \in pool'.active
      BY <3>2 DEF Out
    <3> QED
      BY <1>1, <3>1, <3>3 DEF Intact
  <2> QED
    BY <1>1, <2>1 DEF Values
<1>19. Books'
  BY <1>1, <1>2, <1>3, <1>15, GraphStays DEF ExecInv, Books, Running
<1> QED
  BY <1>5, <1>8, <1>10, <1>11, <1>12, <1>14, <1>16, <1>17, <1>18, <1>19 DEF ExecInv

LEMMA StartExec ==
    ASSUME Known, BeginWhole \/ BeginStopped \/ BeginSegment
    PROVE  ExecInv'
<1>1. Len(graph.ops) \in Nat /\ Nodes = 1 .. Len(graph.ops) /\ FirstStateful \subseteq Nodes
  BY Loaded DEF Known, PlanInv, FirstStateful
<1>2. Nodes \subseteq 0 .. Len(graph.ops) /\ Len(graph.ops) \in 0 .. Len(graph.ops)
  BY <1>1
<1>3. CASE BeginWhole
  BY <1>2, <1>3, BeginExec DEF BeginWhole
<1>4. CASE BeginStopped
  <2>1. PICK i \in FirstStateful : Begin("stop", i)
    BY <1>4 DEF BeginStopped
  <2>2. i \in 0 .. Len(graph.ops)
    BY <1>1, <1>2
  <2> QED
    BY <2>1, <2>2, BeginExec
<1>5. CASE BeginSegment
  <2>1. PICK e \in Nodes : Begin("segment", e)
    BY <1>5 DEF BeginSegment
  <2>2. e \in 0 .. Len(graph.ops)
    BY <1>2
  <2> QED
    BY <2>1, <2>2, BeginExec
<1> QED
  BY <1>3, <1>4, <1>5

LEMMA BindInputsExec ==
    ASSUME Known, NEW r \in setup.rows, BindInputs(r)
    PROVE  ExecInv'
<1>1. PICK w : w = InputsBound(r)
  OBVIOUS
<1>2. /\ stage = "ready" /\ phase = "idle" /\ pass < setup.passes
      /\ \A i \in InputNodes : w.tensors[i].st # 0
      /\ pool' = w.pool /\ holder' = w.holder /\ tensors' = w.tensors
      /\ seen' = [i \in Nodes |-> IF Bound(i) THEN Seeing(w.tensors, content', i) ELSE seen[i]]
      /\ computed' = {i \in Nodes : Bound(i)}
      /\ rows' = r /\ pass' = pass + 1 /\ phase' = "bound" /\ failed' = FALSE
      /\ UNCHANGED <<planVars, pos, last, waiting, key, mode>>
  BY <1>1 DEF BindInputs
<1>3. UNCHANGED <<graph, setup, stage, lastUse, keep, reclaims>>
  BY <1>2 DEF planVars
<1>4. PlanTypeOK /\ ExecInv /\ Served(graph, setup)
  BY DEF Known, PlanInv
<1>5. Len(graph.ops) \in Nat /\ Nodes = 1 .. Len(graph.ops)
  BY <1>4, Loaded
<1>6. r \in 1 .. MaxBytes /\ setup.passes \in 0 .. MaxPasses /\ MaxPasses \in Nat
      /\ MaxBytes \in Nat
  BY <1>4, ExecutionAssumption, BuffersAreNat DEF PlanTypeOK
<1>7. /\ Storage(w, Nodes)
      /\ \A i \in Nodes \ InputNodes : w.tensors[i] = tensors[i]
      /\ \A i \in InputNodes : w.tensors[i].rows = r /\ w.tensors[i].dense = TRUE
  <2>1. Storage(Workspace, Computable)
    BY <1>2, <1>4 DEF ExecInv, Stored, Live
  <2>2. NoViews(Workspace, Computable)
    BY <1>2, <1>4 DEF ExecInv, KeptStorage, NoViews, Workspace
  <2>3. \A i \in Nodes : Bound(i) /\ ~IsInput(i)
        => tensors[i].st = External(i) /\ ~tensors[i].pooled
    BY <1>4 DEF ExecInv, BoundTensors
  <2>4. /\ Storage(InputsBound(r), Nodes)
        /\ \A i \in Nodes \ InputNodes : InputsBound(r).tensors[i] = tensors[i]
        /\ \A i \in InputNodes : InputsBound(r).tensors[i].rows = r
                                 /\ InputsBound(r).tensors[i].dense = TRUE
    BY <1>4, <1>6, <2>1, <2>2, <2>3, InputsStored
  <2> QED
    BY <1>1, <2>4
<1>8. \A i \in Computable : i \in Nodes \ InputNodes /\ i \in Nodes
  BY DEF Computable, InputNodes, Bound, IsInput, BoundOps
<1>9. \A i \in Nodes : ~IsInput(i) => tensors'[i] = tensors[i]
  BY <1>2, <1>7 DEF InputNodes
<1>10. Counters'
  <2>1. pass' \in 0 .. setup.passes
    BY <1>2, <1>4, <1>6 DEF ExecInv, Counters
  <2>2. rows' \in 0 .. MaxBytes
    BY <1>2, <1>6
  <2>3. computed' \subseteq Nodes
    BY <1>2
  <2> QED
    BY <1>2, <1>3, <1>4, <2>1, <2>2, <2>3, GraphStays DEF ExecInv, Counters
<1>11. Stored'
  <2>1. w \in Spaces
    BY <1>4, <1>7, StorageParts
  <2>2. Live' = Nodes
    BY <1>2, <1>3, GraphStays DEF Live
  <2> QED
    BY <1>2, <1>3, <1>7, <2>1, <2>2, StoredNext
<1>12. BoundTensors'
  <2>1. \A i \in Nodes : Bound(i) => tensors'[i].dense
    <3>1. ASSUME NEW i \in Nodes, Bound(i), IsInput(i) PROVE tensors'[i].dense
      BY <1>2, <1>7, <3>1 DEF InputNodes
    <3>2. ASSUME NEW i \in Nodes, Bound(i), ~IsInput(i) PROVE tensors'[i].dense
      BY <1>4, <1>9, <3>2 DEF ExecInv, BoundTensors
    <3> QED
      BY <3>1, <3>2
  <2>2. \A i \in Nodes : Bound(i) /\ ~IsInput(i)
        => tensors'[i].st = External(i) /\ ~tensors'[i].pooled
    BY <1>4, <1>9 DEF ExecInv, BoundTensors
  <2>3. \A i \in InputNodes : tensors'[i].rows = rows'
    BY <1>2, <1>7
  <2> QED
    BY <1>3, <2>1, <2>2, <2>3, GraphStays DEF BoundTensors
<1>13. CopiesAreStrided'
  <2>1. ASSUME NEW i \in Nodes, OnDevice, Op(i) \in {"reshape", "contiguous"},
               tensors'[i].st # 0, ~ViewAt(i, tensors'[i].rows)
        PROVE  ~tensors'[Source(i)].dense
    <3>1. ~IsInput(i)
      BY <2>1 DEF IsInput
    <3>2. ~tensors[Source(i)].dense
      BY <1>4, <1>9, <2>1, <3>1 DEF ExecInv, CopiesAreStrided
    <3>3. Source(i) \in Nodes
      BY <1>4, <2>1, ServedSource
    <3>4. ~Bound(Source(i))
      BY <1>4, <3>2, <3>3 DEF ExecInv, BoundTensors
    <3>5. ~IsInput(Source(i))
      BY <3>4 DEF Bound, IsInput, BoundOps
    <3> QED
      BY <1>9, <3>2, <3>3, <3>5
  <2> QED
    BY <1>3, <2>1, GraphStays, ShapesStay DEF CopiesAreStrided
<1>14. KeptStorage'
  <2>1. \A i \in Computable : tensors'[i] = tensors[i]
    BY <1>2, <1>7, <1>8
  <2> QED
    BY <1>2, <1>3, <1>4, <2>1, GraphStays, ShapesStay DEF ExecInv, KeptStorage
<1>15. /\ StaleInputs' /\ ShapedTensors' /\ Ahead' /\ ComputedHolders' /\ FreedWhenDue'
       /\ ChainBooks'
  BY <1>2 DEF StaleInputs, ShapedTensors, Ahead, ComputedHolders, FreedWhenDue, ChainBooks, Running
<1>16. Values'
  <2>1. ASSUME NEW x \in computed' PROVE Intact(x)'
    <3>1. x \in Nodes /\ Bound(x) /\ Settled(w, x)
      BY <1>2, <1>7 DEF Storage
    <3>2. seen'[x] = Seeing(tensors', content', x)
      BY <1>2, <3>1
    <3>3. seen'[x].st = tensors'[x].st /\ seen'[x].content = Content(content', tensors'[x].st)
      BY <3>2 DEF Seeing
    <3>4. tensors'[x].st # 0
      <4>1. CASE IsInput(x)
        BY <1>2, <3>1, <4>1 DEF InputNodes
      <4>2. CASE ~IsInput(x)
        <5>1. tensors'[x].st = External(x)
          BY <1>4, <1>9, <3>1, <4>2 DEF ExecInv, BoundTensors
        <5>2. NBuffers + x # 0
          BY <1>5, <3>1, BuffersAreNat
        <5> QED
          BY <5>1, <5>2 DEF External
      <4> QED
        BY <4>1, <4>2
    <3>5. tensors'[x].st \in Buffers => tensors'[x].st \in pool'.active
      <4>1. tensors'[x].st \in Buffers => tensors'[x].st \in Out(pool')
        BY <1>2, <3>1 DEF Settled
      <4> QED
        BY <4>1 DEF Out
    <3> QED
      BY <3>3, <3>4, <3>5 DEF Intact
  <2> QED
    BY <1>2, <2>1 DEF Values
<1>17. Books'
  BY <1>2, <1>3, GraphStays DEF Books, Running
<1> QED
  BY <1>10, <1>11, <1>12, <1>13, <1>14, <1>15, <1>16, <1>17 DEF ExecInv

-----------------------------------------------------------------------------
(* What is left between passes. *)

\* The pool p and the tensors ts after a cleanup: no views, nothing out but
\* what the computed nodes own.
Tidy(ts, p) ==
    /\ Storage([pool |-> p, holder |-> holder, tensors |-> ts], Computable)
    /\ \A i \in Computable : ts[i].st # 0 => ~ViewAt(i, ts[i].rows)
    /\ \A i \in InputNodes : ts[i].st \notin Out(p)
    /\ \A i \in Nodes : ts[i].st = 0 \/ ts[i] = tensors[i]
    /\ \A i \in Nodes : Bound(i) => ts[i] = tensors[i]
    /\ \A i \in Nodes : ts[i].dense = tensors[i].dense /\ ts[i].rows = tensors[i].rows

(* The invariant between passes needs no more than that, and that what is kept
   has the rows of the key. *)
LEMMA TidyExec ==
    ASSUME Known, Tidy(tensors', pool'), phase' = "idle",
           UNCHANGED <<graph, setup, holder, pos, last, waiting, rows, pass, failed, mode>>,
           key' \in 0 .. MaxBytes, computed' \subseteq Nodes,
           \A i \in Computable : tensors'[i].st # 0 =>
               /\ tensors'[i].rows \in setup.rows
               /\ setup.dynamic /\ setup.reuseSame /\ key' # 0 => tensors'[i].rows = key'
    PROVE  ExecInv'
<1>1. PlanTypeOK /\ ExecInv /\ Served(graph, setup)
  BY DEF Known, PlanInv
<1>2. PICK q : q = [pool |-> pool', holder |-> holder, tensors |-> tensors']
  OBVIOUS
<1>3. /\ Storage(q, Computable)
      /\ \A i \in Computable : tensors'[i].st # 0 => ~ViewAt(i, tensors'[i].rows)
      /\ \A i \in InputNodes : tensors'[i].st \notin Out(pool')
      /\ \A i \in Nodes : tensors'[i].st = 0 \/ tensors'[i] = tensors[i]
      /\ \A i \in Nodes : Bound(i) => tensors'[i] = tensors[i]
      /\ \A i \in Nodes : tensors'[i].dense = tensors[i].dense /\ tensors'[i].rows = tensors[i].rows
  BY <1>2 DEF Tidy
<1>4. Counters'
  BY <1>1, GraphStays DEF ExecInv, Counters
<1>5. Stored'
  <2>1. q \in Spaces
    BY <1>1, <1>3, StorageParts
  <2>2. Live' = Computable
    BY GraphStays DEF Live
  <2> QED
    BY <1>2, <1>3, <2>1, <2>2, StoredNext
<1>6. BoundTensors'
  BY <1>1, <1>3, GraphStays DEF ExecInv, BoundTensors
<1>7. CopiesAreStrided'
  <2>1. ASSUME NEW i \in Nodes, OnDevice, Op(i) \in {"reshape", "contiguous"},
               tensors'[i].st # 0, ~ViewAt(i, tensors'[i].rows)
        PROVE  ~tensors'[Source(i)].dense
    <3>1. ~tensors[Source(i)].dense
      BY <1>1, <1>3, <2>1 DEF ExecInv, CopiesAreStrided
    <3>2. Source(i) \in Nodes
      BY <1>1, <2>1, ServedSource
    <3> QED
      BY <1>3, <3>1, <3>2
  <2> QED
    BY <2>1, GraphStays, ShapesStay DEF CopiesAreStrided
<1>8. KeptStorage' /\ StaleInputs'
  BY <1>3, GraphStays, ShapesStay DEF KeptStorage, StaleInputs
<1>9. /\ ShapedTensors' /\ Ahead' /\ ComputedHolders' /\ FreedWhenDue' /\ Values' /\ Books'
      /\ ChainBooks'
  BY DEF ShapedTensors, Ahead, ComputedHolders, FreedWhenDue, Values, Books, ChainBooks, Running
<1> QED
  BY <1>4, <1>5, <1>6, <1>7, <1>8, <1>9 DEF ExecInv

\* Before a cleanup: the pool p has every buffer the computed nodes own and no
\* other, and no input's.
Owned(p) ==
    /\ PoolBooks(p) /\ p.size = pool.size
    /\ \A i \in InputNodes : tensors[i].st \notin Out(p)
    /\ \A b \in Out(p) : /\ b \in Buffers /\ b \in Out(pool)
                         /\ holder[b] \in Computable /\ tensors[holder[b]].st = b
                         /\ ~SharingView(holder[b])
    /\ \A i \in Computable : tensors[i].st # 0 =>
           /\ SharingView(i) <=> ViewAt(i, tensors[i].rows)
           /\ ~ViewAt(i, tensors[i].rows) => tensors[i].st \in Out(p)

(* The clean pool still has the owners: only the views forget their storage. *)
LEMMA ViewsCleared ==
    ASSUME Known, NEW p, Owned(p)
    PROVE  Tidy(Forgotten(tensors, {i \in Computable : SharingView(i)}), p)
<1>1. PlanTypeOK /\ ExecInv
  BY DEF Known, PlanInv
<1>2. /\ tensors \in [Nodes -> Tensor] /\ holder \in [Buffers -> Nodes \union {0}]
  BY <1>1, WorkspaceKnown
<1>3. PICK V : V = {i \in Computable : SharingView(i)}
  OBVIOUS
<1>4. PICK ts : ts = Forgotten(tensors, V)
  OBVIOUS
<1>5. V \subseteq Computable /\ Computable \subseteq Nodes
  BY <1>3 DEF Computable
<1>6. ts \in [Nodes -> Tensor]
      /\ \A i \in Nodes : ts[i] = IF i \in V THEN Clear(tensors[i]) ELSE tensors[i]
  <2>1. \A i \in Nodes : tensors[i] \in Tensor /\ Clear(tensors[i]) \in Tensor
    BY <1>1, <1>2, ClearedTensor
  <2> QED
    BY <1>4, <2>1 DEF Forgotten
<1>7. \A i \in Nodes : /\ i \in V => ts[i].st = 0
                       /\ i \notin V => ts[i] = tensors[i]
                       /\ ts[i].dense = tensors[i].dense /\ ts[i].rows = tensors[i].rows
  <2>1. ASSUME NEW i \in Nodes, NEW t \in Tensor, t = tensors[i]
        PROVE  /\ Clear(t).st = 0 /\ Clear(t).dense = t.dense /\ Clear(t).rows = t.rows
    BY <1>1, ClearedTensor
  <2>2. \A i \in Nodes : /\ Clear(tensors[i]).st = 0 /\ Clear(tensors[i]).dense = tensors[i].dense
                         /\ Clear(tensors[i]).rows = tensors[i].rows
    BY <1>2, <2>1
  <2> QED
    BY <1>6, <2>2
<1>8. PICK q : q = [pool |-> p, holder |-> holder, tensors |-> ts]
  OBVIOUS
<1>9. q.pool = p /\ q.holder = holder /\ q.tensors = ts
  BY <1>8
<1>10. q \in Spaces
  <2>1. p \in PoolRecords
    BY DEF Owned, PoolBooks, PoolRecords
  <2> HIDE DEF PoolRecords, Tensor
  <2> QED
    BY <1>2, <1>6, <1>8, <2>1 DEF Spaces
<1>11. ASSUME NEW b \in Out(p) PROVE holder[b] \in Computable /\ ts[holder[b]].st = b
  <2>1. holder[b] \in Computable /\ tensors[holder[b]].st = b /\ ~SharingView(holder[b])
    BY <1>11 DEF Owned
  <2>2. holder[b] \notin V /\ holder[b] \in Nodes
    BY <1>3, <1>5, <2>1
  <2> QED
    BY <1>7, <2>1, <2>2
<1>12. ASSUME NEW i \in Computable, ts[i].st # 0
       PROVE  /\ ts[i] = tensors[i] /\ ~ViewAt(i, ts[i].rows) /\ ts[i].st \in Out(p)
  <2>1. i \in Nodes /\ i \notin V /\ ts[i] = tensors[i]
    BY <1>5, <1>7, <1>12
  <2>2. ~SharingView(i)
    BY <1>3, <2>1
  <2> QED
    BY <1>12, <2>1, <2>2 DEF Owned
<1>13. ASSUME NEW i \in Computable PROVE Settled(q, i)
  <2>1. CASE ts[i].st = 0
    BY <1>9, <2>1, BuffersAreNat DEF Settled
  <2>2. CASE ts[i].st # 0
    <3>1. ts[i] = tensors[i] /\ ~ViewAt(i, ts[i].rows) /\ ts[i].st \in Out(p)
      BY <1>12, <2>2
    <3>2. Settled(Workspace, i)
      BY <1>1, <1>5 DEF ExecInv, Stored, Storage, Live
    <3>3. p.size = pool.size
      BY DEF Owned
    <3> QED
      BY <1>1, <1>9, <2>2, <3>1, <3>2, <3>3, WorkspaceKnown DEF Settled
  <2> QED
    BY <2>1, <2>2
<1>14. Storage(q, Computable)
  BY <1>9, <1>10, <1>11, <1>13 DEF Storage, Owned
<1>15. \A i \in Nodes : Bound(i) => i \notin V
  BY <1>5 DEF Computable
<1>16. \A i \in InputNodes : i \in Nodes /\ Bound(i)
  BY DEF InputNodes, Bound, IsInput, BoundOps
<1>17. \A i \in InputNodes : ts[i].st \notin Out(p)
  BY <1>7, <1>15, <1>16 DEF Owned
<1>18. Tidy(ts, p)
  BY <1>7, <1>8, <1>12, <1>14, <1>15, <1>17 DEF Tidy
<1> QED
  BY <1>3, <1>4, <1>18

(* Nothing is out when the owners have returned theirs. *)
LEMMA OwnersCleared ==
    ASSUME Known, NEW p, Owned(p), NEW z,
           z = Freed(p, tensors, Computable \ {i \in Computable : SharingView(i)}, FALSE)
    PROVE  /\ PoolBooks(z) /\ Out(z) = {}
           /\ Tidy(Forgotten(tensors, Computable), z)
           /\ \A e : PoolBooks(e) /\ Out(e) = {} => Tidy(Forgotten(tensors, Computable), e)
<1>1. PlanTypeOK /\ ExecInv
  BY DEF Known, PlanInv
<1>2. /\ tensors \in [Nodes -> Tensor] /\ holder \in [Buffers -> Nodes \union {0}]
  BY <1>1, WorkspaceKnown
<1>3. PICK S : S = Computable \ {i \in Computable : SharingView(i)}
  OBVIOUS
<1>4. S \in SUBSET Nodes /\ S \subseteq Computable /\ Computable \subseteq Nodes
      /\ \A i \in Computable : i \in S <=> ~SharingView(i)
  BY <1>3 DEF Computable
<1>5. PICK w : w = [pool |-> p, holder |-> holder, tensors |-> tensors]
  OBVIOUS
<1>6. w.pool = p /\ w.holder = holder /\ w.tensors = tensors
  BY <1>5
<1>7. w \in Spaces
  <2>1. p \in PoolRecords
    BY DEF Owned, PoolBooks, PoolRecords
  <2> HIDE DEF PoolRecords, Tensor
  <2> QED
    BY <1>2, <1>5, <2>1 DEF Spaces
<1>8. Owning(w, S)
  <2>1. ASSUME NEW i \in S, tensors[i].st # 0 PROVE Settled(w, i) /\ ~ViewAt(i, tensors[i].rows)
    <3>1. i \in Computable /\ ~SharingView(i)
      BY <1>4
    <3>2. ~ViewAt(i, tensors[i].rows) /\ tensors[i].st \in Out(p) /\ p.size = pool.size
      BY <2>1, <3>1 DEF Owned
    <3>3. Settled(Workspace, i)
      BY <1>1, <1>4, <3>1 DEF ExecInv, Stored, Storage, Live
    <3>4. Settled(w, i)
      BY <1>1, <1>6, <2>1, <3>2, <3>3, WorkspaceKnown DEF Settled
    <3> QED
      BY <3>2, <3>4
  <2> QED
    BY <1>6, <2>1 DEF Owning
<1>9. Returned(w, S, z)
  <2>1. PoolBooks(w.pool) /\ z = Freed(w.pool, w.tensors, S, FALSE)
    BY <1>3, <1>6 DEF Owned
  <2> QED
    BY <1>1, <1>4, <1>7, <1>8, <2>1, OwnersReturned
<1>10. PoolBooks(z)
  BY <1>9 DEF Returned
<1>11. Out(z) = {}
  <2>1. ASSUME NEW b \in Out(z) PROVE FALSE
    <3>1. b \in Out(p)
      BY <1>6, <1>9 DEF Returned
    <3>2. holder[b] \in S /\ tensors[holder[b]].st = b
      BY <1>4, <3>1 DEF Owned
    <3>3. b \notin Out(z)
      BY <1>6, <1>9, <3>2 DEF Returned
    <3> QED
      BY <3>3
  <2> QED
    BY <2>1
<1>12. ASSUME NEW e, PoolBooks(e), Out(e) = {}
       PROVE  Tidy(Forgotten(tensors, Computable), e)
  <2>1. PICK ts : ts = Forgotten(tensors, Computable)
    OBVIOUS
  <2>2. ts \in [Nodes -> Tensor]
        /\ \A i \in Nodes : ts[i] = IF i \in Computable THEN Clear(tensors[i]) ELSE tensors[i]
    <3>1. \A i \in Nodes : tensors[i] \in Tensor /\ Clear(tensors[i]) \in Tensor
      BY <1>1, <1>2, ClearedTensor
    <3> QED
      BY <2>1, <3>1 DEF Forgotten
  <2>3. \A i \in Nodes : /\ i \in Computable => ts[i].st = 0
                         /\ i \notin Computable => ts[i] = tensors[i]
                         /\ ts[i].dense = tensors[i].dense /\ ts[i].rows = tensors[i].rows
    <3>1. ASSUME NEW i \in Nodes, NEW t \in Tensor, t = tensors[i]
          PROVE  /\ Clear(t).st = 0 /\ Clear(t).dense = t.dense /\ Clear(t).rows = t.rows
      BY <1>1, ClearedTensor
    <3>2. \A i \in Nodes : /\ Clear(tensors[i]).st = 0 /\ Clear(tensors[i]).dense = tensors[i].dense
                           /\ Clear(tensors[i]).rows = tensors[i].rows
      BY <1>2, <3>1
    <3> QED
      BY <2>2, <3>2
  <2>4. PICK q : q = [pool |-> e, holder |-> holder, tensors |-> ts]
    OBVIOUS
  <2>5. q.pool = e /\ q.holder = holder /\ q.tensors = ts
    BY <2>4
  <2>6. q \in Spaces
    <3>1. e \in PoolRecords
      BY <1>12 DEF PoolBooks, PoolRecords
    <3> HIDE DEF PoolRecords, Tensor
    <3> QED
      BY <1>2, <2>2, <2>4, <3>1 DEF Spaces
  <2>7. ASSUME NEW i \in Computable PROVE Settled(q, i)
    <3>1. ts[i].st = 0
      BY <1>4, <2>3
    <3> QED
      BY <2>5, <3>1, BuffersAreNat DEF Settled
  <2>8. Storage(q, Computable)
    BY <1>12, <2>5, <2>6, <2>7 DEF Storage
  <2>9. \A i \in Nodes : Bound(i) => i \notin Computable
    BY DEF Computable
  <2>10. Tidy(ts, e)
    BY <1>4, <1>12, <2>3, <2>4, <2>8, <2>9 DEF Tidy
  <2> QED
    BY <2>1, <2>10
<1> QED
  BY <1>10, <1>11, <1>12

(* The inputs have returned their buffers after a pass. *)
LEMMA InputsReturned ==
    ASSUME Known, phase = "over", NEW p, p = Freed(pool, tensors, InputNodes, FALSE)
    PROVE  Owned(p)
<1>1. PlanTypeOK /\ ExecInv /\ Served(graph, setup)
  BY DEF Known, PlanInv
<1>2. PICK w : w = Workspace
  OBVIOUS
<1>3. /\ Storage(w, Nodes) /\ w \in Spaces /\ PoolBooks(w.pool)
      /\ w.pool = pool /\ w.holder = holder /\ w.tensors = tensors
      /\ holder \in [Buffers -> Nodes \union {0}] /\ Out(pool) \subseteq Buffers
  BY <1>1, <1>2, WorkspaceKnown DEF Live, Out, PoolBooks
<1>4. InputNodes \in SUBSET Nodes /\ \A i \in InputNodes : Bound(i)
  BY DEF InputNodes, Bound, IsInput, BoundOps
<1>5. Owning(w, InputNodes)
  <2>1. \A i \in InputNodes : Settled(w, i) /\ ~ViewAt(i, w.tensors[i].rows)
    <3>1. ASSUME NEW i \in InputNodes PROVE Settled(w, i)
      BY <1>3, <1>4 DEF Storage
    <3>2. ASSUME NEW i \in InputNodes, NEW r PROVE ~ViewAt(i, r)
      BY <1>1, <1>4, ViewSource
    <3> QED
      BY <3>1, <3>2
  <2> QED
    BY <2>1 DEF Owning
<1>6. Returned(w, InputNodes, p)
  BY <1>1, <1>3, <1>4, <1>5, OwnersReturned
<1>7. PoolBooks(p) /\ p.size = pool.size /\ \A i \in InputNodes : tensors[i].st \notin Out(p)
  BY <1>3, <1>6 DEF Returned
<1>8. ASSUME NEW b \in Out(p)
      PROVE  /\ b \in Buffers /\ b \in Out(pool)
             /\ holder[b] \in Computable /\ tensors[holder[b]].st = b
             /\ ~SharingView(holder[b])
  <2>1. b \in Out(pool) /\ b \in Buffers /\ holder[b] \in Nodes /\ tensors[holder[b]].st = b
    BY <1>3, <1>6 DEF Returned, Storage
  <2>2. PICK h \in Nodes : h = holder[b]
    BY <2>1
  <2>3. ~IsInput(h)
    BY <1>7, <1>8, <2>1, <2>2 DEF InputNodes
  <2>4. ~Bound(h)
    <3>1. Settled(w, h)
      BY <1>3 DEF Storage
    <3> QED
      BY <1>3, <2>1, <2>2, <2>3, <3>1 DEF Settled
  <2>5. h \in Computable /\ tensors[h].st # 0 /\ tensors[h].st \in Buffers
    BY <2>1, <2>2, <2>4, BuffersAreNat DEF Computable
  <2>6. ~ViewAt(h, tensors[h].rows)
    BY <1>1, <1>3, <2>1, <2>2, <2>5, OwnersFirst
  <2>7. ~SharingView(h)
    BY <1>1, <1>2, <1>3, <2>5, <2>6, SharingAsBuilt
  <2> QED
    BY <2>1, <2>2, <2>5, <2>7
<1>9. ASSUME NEW i \in Computable, tensors[i].st # 0
      PROVE  /\ SharingView(i) <=> ViewAt(i, tensors[i].rows)
             /\ ~ViewAt(i, tensors[i].rows) => tensors[i].st \in Out(p)
  <2>1. SharingView(i) <=> ViewAt(i, tensors[i].rows)
    BY <1>1, <1>2, <1>3, <1>9, SharingAsBuilt
  <2>2. ASSUME ~ViewAt(i, tensors[i].rows) PROVE tensors[i].st \in Out(p)
    <3>1. i \in Nodes /\ ~Bound(i) /\ Settled(w, i)
      BY <1>3 DEF Computable, Storage
    <3>2. tensors[i].st \in Buffers /\ holder[tensors[i].st] = i /\ tensors[i].st \in Out(pool)
      BY <1>3, <1>9, <2>2, <3>1 DEF Settled
    <3>3. ASSUME NEW k \in InputNodes, tensors[k].st = tensors[i].st PROVE FALSE
      <4>1. k \in Nodes /\ Bound(k) /\ Settled(w, k)
        BY <1>3, <1>4 DEF Storage
      <4>2. holder[tensors[k].st] = k
        BY <1>3, <3>2, <3>3, <4>1 DEF Settled
      <4> QED
        BY <3>1, <3>2, <3>3, <4>1, <4>2
    <3> QED
      BY <1>3, <1>6, <3>2, <3>3 DEF Returned
  <2> QED
    BY <2>1, <2>2
<1> QED
  BY <1>7, <1>8, <1>9 DEF Owned

(* Between passes nobody shares, and the inputs hold nothing. *)
LEMMA IdleOwned ==
    ASSUME Known, phase = "idle"
    PROVE  Owned(pool)
<1>1. PlanTypeOK /\ ExecInv /\ Served(graph, setup)
  BY DEF Known, PlanInv
<1>2. PICK w : w = Workspace
  OBVIOUS
<1>3. /\ Storage(w, Computable) /\ w \in Spaces /\ PoolBooks(w.pool)
      /\ w.pool = pool /\ w.holder = holder /\ w.tensors = tensors
      /\ holder \in [Buffers -> Nodes \union {0}] /\ Out(pool) \subseteq Buffers
  BY <1>1, <1>2, WorkspaceKnown DEF Live, Out, PoolBooks
<1>4. \A i \in InputNodes : tensors[i].st \notin Out(pool)
  BY <1>1 DEF ExecInv, StaleInputs
<1>5. ASSUME NEW i \in Computable, tensors[i].st # 0
      PROVE  /\ ~ViewAt(i, tensors[i].rows) /\ tensors[i].st \in Out(pool) /\ ~SharingView(i)
             /\ holder[tensors[i].st] = i
  <2>1. i \in Nodes /\ ~Bound(i) /\ Settled(w, i)
    BY <1>3 DEF Computable, Storage
  <2>2. ~ViewAt(i, tensors[i].rows)
    BY <1>1, <1>5 DEF ExecInv, KeptStorage
  <2>3. tensors[i].st \in Buffers /\ holder[tensors[i].st] = i /\ tensors[i].st \in Out(pool)
    BY <1>3, <1>5, <2>1, <2>2 DEF Settled
  <2>4. ~SharingView(i)
    <3>1. SUFFICES ASSUME SharingView(i) PROVE FALSE
      OBVIOUS
    <3>2. Op(i) \in {"reshape", "contiguous"} /\ Same(tensors[i], Operand(tensors, i))
      BY <2>2, <3>1 DEF SharingView, ViewAt
    <3>3. PICK s : s = Source(i)
      OBVIOUS
    <3>4. s \in Nodes /\ s # i /\ tensors[s].st = tensors[i].st
      BY <1>1, <2>1, <3>2, <3>3, ServedSource DEF Same
    <3>5. CASE IsInput(s)
      BY <1>4, <2>3, <3>4, <3>5 DEF InputNodes
    <3>6. CASE Bound(s) /\ ~IsInput(s)
      <4>1. tensors[s].st = NBuffers + s
        BY <1>1, <3>4, <3>6 DEF ExecInv, BoundTensors, External
      <4>2. s \in Nat /\ s >= 1 /\ NBuffers \in Nat
        BY <1>1, <3>4, Loaded, BuffersAreNat
      <4> QED
        BY <2>3, <3>4, <4>1, <4>2 DEF Buffers
    <3>7. CASE ~Bound(s)
      <4>1. s \in Computable /\ tensors[s].st # 0
        BY <1>5, <3>4, <3>7 DEF Computable
      <4>2. Settled(w, s) /\ ~ViewAt(s, tensors[s].rows)
        BY <1>1, <1>3, <4>1 DEF Storage, ExecInv, KeptStorage
      <4>3. holder[tensors[s].st] = s
        BY <1>3, <3>7, <4>1, <4>2 DEF Settled
      <4> QED
        BY <2>3, <3>4, <4>3
    <3> QED
      BY <3>5, <3>6, <3>7 DEF Bound, IsInput, BoundOps
  <2> QED
    BY <2>2, <2>3, <2>4
<1>6. ASSUME NEW b \in Out(pool)
      PROVE  /\ b \in Buffers /\ holder[b] \in Computable /\ tensors[holder[b]].st = b
             /\ ~SharingView(holder[b])
  <2>1. b \in Buffers /\ holder[b] \in Computable /\ tensors[holder[b]].st = b
    BY <1>3 DEF Storage
  <2>2. tensors[holder[b]].st # 0
    BY <2>1, BuffersAreNat
  <2> QED
    BY <1>5, <2>1, <2>2
<1> QED
  BY <1>3, <1>4, <1>5, <1>6 DEF Owned

LEMMA FinishExec ==
    ASSUME Known, Finish
    PROVE  ExecInv'
<1>1. PICK p : p = Freed(pool, tensors, InputNodes, FALSE)
  OBVIOUS
<1>2. /\ phase = "over" /\ computed' = {} /\ phase' = "idle"
      /\ UNCHANGED <<planVars, content, holder, seen, pos, last, waiting, rows, pass, failed, mode>>
      /\ \/ ClearViews(p) /\ key' = key
         \/ ReleaseTemporaries(p) /\ key' = 0
  BY <1>1 DEF Finish
<1>3. UNCHANGED <<graph, setup>>
  BY <1>2 DEF planVars
<1>4. PlanTypeOK /\ ExecInv /\ Served(graph, setup)
  BY DEF Known, PlanInv
<1>5. Owned(p)
  BY <1>1, <1>2, InputsReturned
<1>6. Tidy(tensors', pool')
  <2>1. CASE ClearViews(p)
    BY <1>5, <2>1, ViewsCleared DEF ClearViews
  <2>2. CASE ReleaseTemporaries(p)
    <3>1. PICK z : z = Freed(p, tensors, Computable \ {i \in Computable : SharingView(i)}, FALSE)
      OBVIOUS
    <3>2. Tidy(Forgotten(tensors, Computable), z)
      BY <1>5, <3>1, OwnersCleared
    <3> QED
      BY <2>2, <3>1, <3>2 DEF ReleaseTemporaries
  <2> QED
    BY <1>2, <2>1, <2>2
<1>7. key' \in 0 .. MaxBytes
  BY <1>2, <1>4, BuffersAreNat DEF ExecInv, Counters
<1>8. ASSUME NEW i \in Computable, tensors'[i].st # 0
      PROVE  /\ tensors'[i].rows \in setup.rows
             /\ setup.dynamic /\ setup.reuseSame /\ key' # 0 => tensors'[i].rows = key'
  <2>1. i \in Nodes /\ tensors'[i] = tensors[i]
    BY <1>6, <1>8 DEF Tidy, Computable
  <2>2. tensors[i].rows = rows /\ rows \in setup.rows
        /\ (setup.reuseSame /\ setup.dynamic => key = rows)
    BY <1>2, <1>4, <1>8, <2>1 DEF ExecInv, ShapedTensors, Books
  <2> QED
    BY <1>2, <2>1, <2>2
<1> QED
  BY <1>2, <1>3, <1>6, <1>7, <1>8, TidyExec

LEMMA ReleaseBuffersExec ==
    ASSUME Known, ReleaseBuffers
    PROVE  ExecInv'
<1>1. PICK z : z = Freed(pool, tensors, Computable \ {i \in Computable : SharingView(i)}, FALSE)
  OBVIOUS
<1>2. /\ phase = "idle" /\ phase' = "idle" /\ key' = 0
      /\ pool' = IF setup.vision THEN Cleared(z) ELSE z
      /\ tensors' = Forgotten(tensors, Computable)
      /\ UNCHANGED <<planVars, phase, content, holder, seen, computed, pos, last,
                     waiting, rows, pass, failed, mode>>
  BY <1>1 DEF ReleaseBuffers
<1>3. UNCHANGED <<graph, setup>>
  BY <1>2 DEF planVars
<1>4. PlanTypeOK /\ ExecInv
  BY DEF Known, PlanInv
<1>5. Owned(pool)
  BY <1>2, IdleOwned
<1>6. /\ PoolBooks(z) /\ Out(z) = {}
      /\ \A e : PoolBooks(e) /\ Out(e) = {} => Tidy(Forgotten(tensors, Computable), e)
  BY <1>1, <1>5, OwnersCleared
<1>7. Cleared(z) = EmptyPool
  <2>1. z.misuse = FALSE
    BY <1>6 DEF PoolBooks
  <2>2. PICK s : s = [b \in Buffers |-> 0]
    OBVIOUS
  <2>3. EmptyPool = [size |-> s, free |-> <<>>, active |-> {}, pending |-> <<>>, misuse |-> FALSE]
    BY <2>2 DEF EmptyPool
  <2>4. Cleared(z) = [EmptyPool EXCEPT !.misuse = FALSE]
    BY <2>1 DEF Cleared
  <2> QED
    BY <2>3, <2>4
<1>8. PoolBooks(pool') /\ Out(pool') = {}
  BY <1>2, <1>6, <1>7, EmptyPoolBooks
<1>9. Tidy(tensors', pool')
  BY <1>2, <1>6, <1>8
<1>10. \A i \in Computable : tensors'[i].st = 0
  <2>1. ASSUME NEW i \in Computable, tensors'[i].st # 0 PROVE FALSE
    <3>1. PICK q : q = [pool |-> pool', holder |-> holder, tensors |-> tensors']
      OBVIOUS
    <3>2. Storage(q, Computable) /\ ~ViewAt(i, tensors'[i].rows)
      BY <1>9, <2>1, <3>1 DEF Tidy
    <3>3. Settled(q, i) /\ ~Bound(i) /\ q.tensors = tensors' /\ q.pool = pool'
      BY <3>1, <3>2 DEF Storage, Computable
    <3>4. tensors'[i].st \in Buffers /\ tensors'[i].st \in Out(pool')
      BY <2>1, <3>2, <3>3 DEF Settled
    <3> QED
      BY <1>8, <3>4
  <2> QED
    BY <2>1
<1>11. key' \in 0 .. MaxBytes /\ computed' \subseteq Nodes
  BY <1>2, <1>4, BuffersAreNat DEF ExecInv, Counters
<1> QED
  BY <1>2, <1>3, <1>9, <1>10, <1>11, TidyExec

-----------------------------------------------------------------------------
(* A node of the running pass. *)

LEMMA AtNodeFacts ==
    ASSUME Known, AtNode
    PROVE  /\ pos \in Computable /\ pos \in Nodes /\ ~Bound(pos) /\ pos \notin computed
           /\ pos \in Nat /\ Len(graph.ops) \in Nat /\ Nodes = 1 .. Len(graph.ops)
           /\ rows \in setup.rows /\ rows \in 1 .. MaxBytes /\ MaxBytes \in Nat
           /\ \A s \in 1 .. (pos - 1) : tensors[s].dense = DenseAt(s, rows)
           /\ IsView(pos, Operand(tensors, pos)) <=> ViewAt(pos, rows)
           /\ tensors[pos].st # 0 =>
                  ReuseWorkspace /\ ~ViewAt(pos, rows) /\ tensors[pos].rows = rows
<1>1. PlanTypeOK /\ ExecInv /\ Served(graph, setup) /\ phase = "run" /\ pos <= last /\ ~Bound(pos)
  BY DEF Known, PlanInv, AtNode
<1>2. Len(graph.ops) \in Nat /\ Nodes = 1 .. Len(graph.ops)
  BY <1>1, Loaded
<1>3. pos \in Nodes /\ pos \in Nat
  BY <1>1, <1>2 DEF ExecInv, Counters
<1>4. pos \in Computable
  BY <1>1, <1>3 DEF Computable
<1>5. pos \notin computed
  <2>1. pos \notin 1 .. (pos - 1)
    BY <1>3
  <2> QED
    BY <1>1, <2>1 DEF ExecInv, Books, Running
<1>6. rows \in setup.rows /\ rows \in 1 .. MaxBytes /\ MaxBytes \in Nat
  <2>1. rows \in setup.rows
    BY <1>1 DEF ExecInv, Books
  <2> QED
    BY <1>1, <2>1, ExecutionAssumption, BuffersAreNat DEF PlanTypeOK
<1>7. \A s \in 1 .. (pos - 1) : tensors[s].dense = DenseAt(s, rows)
  BY <1>1 DEF ExecInv, ShapedTensors, Running
<1>8. IsView(pos, Operand(tensors, pos)) <=> ViewAt(pos, rows)
  BY <1>1, <1>4, <1>6, <1>7, ViewsAsBuilt
<1>9. tensors[pos].st # 0 => ReuseWorkspace /\ ~ViewAt(pos, rows) /\ tensors[pos].rows = rows
  <2>1. pos >= pos
    BY <1>3
  <2> QED
    BY <1>1, <1>4, <2>1 DEF ExecInv, Ahead, ShapedTensors, Running
<1> QED
  BY <1>1, <1>2, <1>3, <1>4, <1>5, <1>6, <1>7, <1>8, <1>9

\* The workspace w after the node's output was given its shape and storage.
Ready(w) ==
    /\ Storage(w, Nodes)
    /\ \A j \in Nodes : j # pos => w.tensors[j] = tensors[j]
    /\ w.tensors[pos].rows = rows /\ w.tensors[pos].dense = TRUE
    /\ tensors[pos].st # 0 => w.tensors[pos].st = tensors[pos].st
    /\ ViewAt(pos, rows) => w.tensors[pos].st = 0
    /\ \A b \in Out(pool) : b \in Out(w.pool) /\ w.holder[b] = holder[b]

LEMMA ShapedKeeps ==
    ASSUME Known, AtNode
    PROVE  Ready(Shaped(pos))
<1>1. PlanTypeOK /\ ExecInv /\ phase = "run"
  BY DEF Known, PlanInv, AtNode
<1>2. PICK w : w = Workspace
  OBVIOUS
<1>3. /\ w \in Spaces /\ Storage(w, Nodes) /\ w.pool = pool /\ w.holder = holder
      /\ w.tensors = tensors
      /\ tensors \in [Nodes -> Tensor]
  BY <1>1, <1>2, WorkspaceKnown DEF Live
<1>4. /\ pos \in Nodes /\ rows \in 1 .. MaxBytes /\ MaxBytes \in Nat
      /\ tensors[pos].st # 0 => ~ViewAt(pos, rows) /\ tensors[pos].rows = rows
  BY AtNodeFacts
<1>5. PICK t : t = [tensors[pos] EXCEPT !.rows = rows, !.dense = TRUE]
  OBVIOUS
<1>6. /\ t \in Tensor /\ t.st = tensors[pos].st /\ t.pooled = tensors[pos].pooled
      /\ t.rows = rows /\ t.dense = TRUE
  <2>1. tensors[pos] \in Tensor /\ rows \in 0 .. MaxBytes
    BY <1>3, <1>4
  <2> QED
    BY <1>5, <2>1 DEF Tensor
<1>7. PICK z : z = PutTensor(w, pos, t)
  OBVIOUS
<1>8. Storage(z, Nodes)
  BY <1>1, <1>3, <1>4, <1>6, <1>7, Reshaped
<1>9. z.pool = pool /\ z.holder = holder /\ z.tensors = [tensors EXCEPT ![pos] = t]
      /\ z = [pool |-> pool, holder |-> holder, tensors |-> [tensors EXCEPT ![pos] = t]]
  BY <1>3, <1>7 DEF PutTensor
<1>10. Shaped(pos) = z
  <2>1. Shaped(pos) = [pool |-> pool, holder |-> holder, tensors |-> [tensors EXCEPT ![pos] = t]]
    BY <1>5 DEF Shaped, Workspace
  <2> QED
    BY <1>9, <2>1
<1>11. Ready(z)
  BY <1>3, <1>4, <1>6, <1>8, <1>9 DEF Ready
<1> QED
  BY <1>10, <1>11

LEMMA PlacedKeeps ==
    ASSUME Known, AtNode
    PROVE  Ready(Placed(pos))
<1>1. PlanTypeOK
  BY DEF Known, PlanInv
<1>2. PICK z : z = Shaped(pos)
  OBVIOUS
<1>3. Ready(z)
  BY <1>2, ShapedKeeps
<1>4. /\ pos \in Computable /\ pos \in Nodes /\ rows \in 1 .. MaxBytes
      /\ IsView(pos, Operand(tensors, pos)) <=> ViewAt(pos, rows)
  BY AtNodeFacts
<1>5. CASE DefersUp(pos) \/ DefersGate(pos) \/ IsView(pos, Operand(tensors, pos))
  BY <1>2, <1>3, <1>5 DEF Placed
<1>6. CASE ~(DefersUp(pos) \/ DefersGate(pos) \/ IsView(pos, Operand(tensors, pos)))
  <2>1. PICK q : q = Allocated(z, pos)
    OBVIOUS
  <2>2. Placed(pos) = q
    BY <1>2, <1>6, <2>1 DEF Placed
  <2>3. ~ViewAt(pos, rows) /\ Storage(z, Nodes) /\ z.tensors[pos].rows = rows
    BY <1>3, <1>4, <1>6 DEF Ready
  <2>4. Storage(q, Nodes) /\ Extends(z, q, {pos})
    BY <1>1, <1>4, <2>1, <2>3, AllocatedKeeps
  <2>5. /\ \A j \in Nodes : j # pos \/ z.tensors[j].st # 0 => q.tensors[j] = z.tensors[j]
        /\ \A j \in Nodes : q.tensors[j].rows = z.tensors[j].rows
                            /\ q.tensors[j].dense = z.tensors[j].dense
        /\ \A b \in Out(z.pool) : b \in Out(q.pool) /\ q.holder[b] = z.holder[b]
    BY <2>4 DEF Extends
  <2>6. Ready(q)
    BY <1>3, <1>4, <2>3, <2>4, <2>5 DEF Ready
  <2> QED
    BY <2>2, <2>6
<1> QED
  BY <1>5, <1>6

-----------------------------------------------------------------------------
(* The chain a node completes. *)

LEMMA OnlyReader ==
    ASSUME NEW x, NEW j, NEW p, OnlyUse(x), <<j, p>> \in Uses(x),
           NEW k \in Nodes, x \in Reads(k)
    PROVE  k = j
<1>1. PICK n \in DOMAIN graph.ins[k] : graph.ins[k][n] = x
  BY DEF Reads
<1>2. <<k, n>> \in {<<k, m>> : m \in {d \in DOMAIN graph.ins[k] : graph.ins[k][d] = x}}
  BY <1>1
<1>3. <<k, n>> \in Uses(x)
  BY <1>2 DEF Uses
<1>4. <<k, n>> = <<j, p>>
  BY <1>3 DEF OnlyUse
<1> QED
  BY <1>4

LEMMA ThreeInARow ==
    ASSUME NEW a \in Nat, NEW b \in Nat, NEW d \in Nat
    PROVE  <<a>> \o <<b, d>> = <<a, b, d>>
<1>1. PICK s : s = <<a>> \o <<b, d>>
  OBVIOUS
<1>2. s \in Seq(Nat) /\ Len(s) = 3 /\ s[1] = a /\ s[2] = b /\ s[3] = d
  BY <1>1
<1>3. PICK t : t = <<a, b, d>>
  OBVIOUS
<1>4. t \in Seq(Nat) /\ Len(t) = 3 /\ t[1] = a /\ t[2] = b /\ t[3] = d
  BY <1>3
<1>5. \A i \in 1 .. 3 : s[i] = t[i]
  <2>1. \A i \in 1 .. 3 : i = 1 \/ i = 2 \/ i = 3
    OBVIOUS
  <2> QED
    BY <1>2, <1>4, <2>1
<1>6. s = t
  BY <1>2, <1>4, <1>5, SeqEqual
<1> QED
  BY <1>1, <1>3, <1>6

UpChain == \E u \in Nodes : /\ pos = u + 2 /\ UpPlanned(pos) /\ Chain(pos) = <<u, u + 1, pos>>
                            /\ waiting.up = u /\ waiting.gate = u + 1
GateChain == \E g \in Nodes : /\ pos = g + 1 /\ GatePlanned(pos) /\ Chain(pos) = <<g, pos>>
                              /\ waiting.gate = g
InjectChain == \E p \in Nodes : /\ InjectPlanned(p, pos) /\ Chain(pos) = <<p, pos>>
                                /\ waiting.inject = p
MoeChain == \E m \in Nodes : /\ MoePlanned(m, pos) /\ Chain(pos) = <<m, m + 1, pos>>
                             /\ waiting.moe = m /\ waiting.inject = m + 1

LEMMA ChainCases ==
    ASSUME Known, AtNode
    PROVE  Chain(pos) = <<pos>> \/ UpChain \/ GateChain \/ InjectChain \/ MoeChain
<1>1. PlanTypeOK /\ RunInv /\ ChainBooks /\ phase = "run" /\ ~Bound(pos)
  BY DEF Known, PlanInv, DeferInv, ExecInv, AtNode
<1>2. Nodes = 1 .. Len(graph.ops) /\ Len(graph.ops) \in Nat /\ pos \in Nodes /\ pos \in Nat
  BY AtNodeFacts
<1>3. CASE NothingAwaited
  BY <1>2, <1>3 DEF NothingAwaited, NoneWaiting, Chain
<1>4. ASSUME NEW u \in Nodes, UpAwaited(u) PROVE Chain(pos) = <<pos>> \/ UpChain
  <2>1. u # 0 /\ u \in Nat /\ (u + 2) - 1 = u + 1
    BY <1>2
  <2>2. CASE waiting = [gate |-> 0, up |-> u, inject |-> 0, moe |-> 0] /\ pos = u + 1
    BY <1>2, <2>1, <2>2 DEF Chain
  <2>3. CASE waiting = [gate |-> u + 1, up |-> u, inject |-> 0, moe |-> 0] /\ pos = u + 2
    <3>1. Chain(pos) = <<u, u + 1, pos>>
      BY <2>1, <2>3 DEF Chain
    <3> QED
      BY <1>4, <2>1, <2>3, <3>1 DEF UpAwaited, UpChain
  <2> QED
    BY <1>4, <2>2, <2>3 DEF UpAwaited
<1>5. ASSUME NEW g \in Nodes, GateAwaited(g) PROVE GateChain
  <2>1. /\ waiting = [gate |-> g, up |-> 0, inject |-> 0, moe |-> 0] /\ pos = g + 1
        /\ GatePlanned(pos) /\ g # 0 /\ (g + 1) - 1 = g
    BY <1>2, <1>5 DEF GateAwaited
  <2>2. Chain(pos) = <<g, pos>>
    BY <2>1 DEF Chain
  <2> QED
    BY <2>1, <2>2 DEF GateChain
<1>6. ASSUME NEW m \in Nodes, NEW c \in Nodes, MoeAwaited(m, c) PROVE Chain(pos) = <<pos>>
  BY <1>2, <1>6 DEF MoeAwaited, Chain
<1>7. ASSUME NEW p \in Nodes, NEW c \in Nodes, NEW m \in Nodes \union {0}, InjectAwaited(p, m, c)
      PROVE  InjectChain \/ MoeChain
  <2>1. /\ InjectPlanned(p, c) /\ (m = 0 \/ m = p - 1) /\ pos \in (p + 1) .. c
        /\ waiting = [gate |-> 0, up |-> 0, inject |-> p, moe |-> m] /\ p # 0 /\ p \in Nat
        /\ c \in Nat
    BY <1>2, <1>7 DEF InjectAwaited
  <2>2. pos = c
    <3>1. \A d \in Nodes : p < d /\ d < c => Bound(d)
      BY <1>1, <2>1, InjectShape
    <3> QED
      BY <1>1, <1>2, <2>1, <3>1
  <2>3. CASE m = 0
    <3>1. Chain(pos) = <<>> \o <<p, pos>>
      BY <2>1, <2>2, <2>3 DEF Chain
    <3>2. Chain(pos) = <<p, pos>>
      BY <3>1
    <3> QED
      BY <2>1, <2>2, <3>2 DEF InjectChain
  <2>4. CASE m # 0
    <3>1. p = m + 1 /\ m \in Nodes
      BY <1>2, <2>1, <2>4
    <3>2. PICK d \in Nodes : MoePlanned(m, d)
      BY <1>1, <2>1, <2>4 DEF ChainBooks
    <3>3. d = c
      BY <2>1, <3>1, <3>2 DEF MoePlanned, InjectPlanned
    <3>4. Chain(pos) = <<m>> \o <<p, pos>>
      BY <2>1, <2>2, <2>4 DEF Chain
    <3>5. Chain(pos) = <<m, p, pos>>
      BY <1>2, <2>1, <3>1, <3>4, ThreeInARow
    <3> QED
      BY <2>1, <2>2, <3>1, <3>2, <3>3, <3>5 DEF MoeChain
  <2> QED
    BY <2>3, <2>4
<1> QED
  BY <1>1, <1>3, <1>4, <1>5, <1>6, <1>7 DEF RunInv

\* What a kernel that completes a chain may rely on.
Joined == Together(Chain(pos), 1)
Early(x) ==
    /\ x \in Computable /\ x \in 1 .. (pos - 1) /\ x \notin computed /\ x # pos
    /\ Op(x) \in {"matmul", "sigmoid", "inject", "moe"}
    /\ \/ Op(x) = "inject" /\ tensors[x].st # 0
       \/ ~Exposed(x) /\ \A j \in Nodes : x \in Reads(j) => j \in Joined
    /\ mode # "stop" /\ Op(pos) \in {"reduce", "rms"}

LEMMA EarlyNode ==
    ASSUME Known, AtNode, NEW x \in Nodes, x \in Awaited, x # 0, x \in 1 .. (pos - 1),
           Op(x) \in {"matmul", "sigmoid", "inject", "moe"},
           Op(pos) \in {"reduce", "rms"},
           \/ Op(x) = "inject" /\ tensors[x].st # 0
           \/ ~Exposed(x) /\ \A j \in Nodes : x \in Reads(j) => j \in Joined
    PROVE  Early(x)
<1>1. ChainBooks /\ phase = "run"
  BY DEF Known, ExecInv, AtNode
<1>2. x \notin computed /\ waiting # NoneWaiting
  BY <1>1 DEF ChainBooks, Awaited, NoneWaiting
<1>3. mode # "stop"
  BY <1>1, <1>2 DEF ChainBooks
<1>4. x \in Computable /\ pos \in Nat
  BY AtNodeFacts DEF Computable, Bound, BoundOps
<1>5. x # pos
  BY <1>4
<1> QED
  BY <1>2, <1>3, <1>4, <1>5 DEF Early

\* The chain s of node pos: its producers, all of them deferred, then the node.
ChainOf(s) ==
    /\ Len(s) \in Nat \ {0} /\ s[Len(s)] = pos /\ Chain(pos) = s
    /\ \A n \in 1 .. (Len(s) - 1) : Early(s[n])
    /\ \A n \in 1 .. Len(s) : s[1] <= s[n]
    /\ Op(pos) = "moe" => s = <<pos>>

LEMMA UpChainOf ==
    ASSUME Known, AtNode, UpChain
    PROVE  ChainOf(Chain(pos))
<1>1. PICK u \in Nodes : /\ pos = u + 2 /\ UpPlanned(pos) /\ Chain(pos) = <<u, u + 1, pos>>
                         /\ waiting.up = u /\ waiting.gate = u + 1
  BY DEF UpChain
<1>2. /\ Nodes = 1 .. Len(graph.ops) /\ Len(graph.ops) \in Nat /\ pos \in Nodes /\ pos \in Nat
      /\ u \in Nat \ {0} /\ u + 1 \in Nodes /\ pos - 1 = u + 1 /\ pos - 2 = u
      /\ u \in 1 .. (pos - 1) /\ u + 1 \in 1 .. (pos - 1) /\ u + 1 # 0
  BY <1>1, AtNodeFacts
<1>3. PlanTypeOK
  BY DEF Known, PlanInv
<1>4. /\ Op(pos) = "reduce" /\ Op(u) = "matmul" /\ Op(u + 1) = "sigmoid"
      /\ <<u + 1, 1>> \in Uses(u) /\ OnlyUse(u) /\ ~Exposed(u)
      /\ <<pos, 2>> \in Uses(u + 1) /\ OnlyUse(u + 1) /\ ~Exposed(u + 1)
  BY <1>1, <1>2 DEF UpPlanned, GatePlanned
<1>5. PICK s : s = Chain(pos)
  OBVIOUS
<1>6. Len(s) = 3 /\ s[1] = u /\ s[2] = u + 1 /\ s[3] = pos
  BY <1>1, <1>5
<1>7. u + 1 \in Joined /\ pos \in Joined
  BY <1>5, <1>6 DEF Joined, Together
<1>8. Early(u)
  <2>1. \A j \in Nodes : u \in Reads(j) => j \in Joined
    BY <1>4, <1>7, OnlyReader
  <2> QED
    BY <1>1, <1>2, <1>4, <2>1, EarlyNode DEF Awaited
<1>9. Early(u + 1)
  <2>1. \A j \in Nodes : u + 1 \in Reads(j) => j \in Joined
    BY <1>4, <1>7, OnlyReader
  <2> QED
    BY <1>1, <1>2, <1>4, <2>1, EarlyNode DEF Awaited
<1>10. \A n \in 1 .. 2 : n = 1 \/ n = 2
  OBVIOUS
<1>11. \A n \in 1 .. 3 : n = 1 \/ n = 2 \/ n = 3
  OBVIOUS
<1>12. ChainOf(s)
  BY <1>1, <1>2, <1>4, <1>5, <1>6, <1>8, <1>9, <1>10, <1>11 DEF ChainOf
<1> QED
  BY <1>5, <1>12

LEMMA GateChainOf ==
    ASSUME Known, AtNode, GateChain
    PROVE  ChainOf(Chain(pos))
<1>1. PICK g \in Nodes : /\ pos = g + 1 /\ GatePlanned(pos) /\ Chain(pos) = <<g, pos>>
                         /\ waiting.gate = g
  BY DEF GateChain
<1>2. /\ Nodes = 1 .. Len(graph.ops) /\ Len(graph.ops) \in Nat /\ pos \in Nodes /\ pos \in Nat
      /\ g \in Nat \ {0} /\ pos - 1 = g /\ g \in 1 .. (pos - 1)
  BY <1>1, AtNodeFacts
<1>3. /\ Op(pos) = "reduce" /\ Op(g) = "sigmoid"
      /\ <<pos, 2>> \in Uses(g) /\ OnlyUse(g) /\ ~Exposed(g)
  BY <1>1, <1>2 DEF GatePlanned
<1>4. PICK s : s = Chain(pos)
  OBVIOUS
<1>5. Len(s) = 2 /\ s[1] = g /\ s[2] = pos
  BY <1>1, <1>4
<1>6. pos \in Joined
  BY <1>4, <1>5 DEF Joined, Together
<1>7. Early(g)
  <2>1. \A j \in Nodes : g \in Reads(j) => j \in Joined
    BY <1>3, <1>6, OnlyReader
  <2> QED
    BY <1>1, <1>2, <1>3, <2>1, EarlyNode DEF Awaited
<1>8. \A n \in 1 .. 2 : n = 1 \/ n = 2
  OBVIOUS
<1>9. ChainOf(s)
  BY <1>2, <1>3, <1>4, <1>5, <1>7, <1>8 DEF ChainOf
<1> QED
  BY <1>4, <1>9

LEMMA InjectChainOf ==
    ASSUME Known, AtNode, InjectChain
    PROVE  ChainOf(Chain(pos))
<1>1. PICK p \in Nodes : InjectPlanned(p, pos) /\ Chain(pos) = <<p, pos>> /\ waiting.inject = p
  BY DEF InjectChain
<1>2. PlanTypeOK /\ ChainBooks /\ phase = "run"
  BY DEF Known, PlanInv, ExecInv, AtNode
<1>3. p < pos /\ Op(p) = "inject" /\ Op(pos) = "rms"
  BY <1>1, <1>2, InjectShape
<1>4. /\ Nodes = 1 .. Len(graph.ops) /\ Len(graph.ops) \in Nat /\ pos \in Nodes /\ pos \in Nat
      /\ p \in Nat \ {0} /\ p \in 1 .. (pos - 1)
  BY <1>3, AtNodeFacts
<1>5. tensors[p].st # 0
  BY <1>1, <1>2, <1>4 DEF ChainBooks
<1>6. PICK s : s = Chain(pos)
  OBVIOUS
<1>7. Len(s) = 2 /\ s[1] = p /\ s[2] = pos
  BY <1>1, <1>6
<1>8. Early(p)
  BY <1>1, <1>3, <1>4, <1>5, EarlyNode DEF Awaited
<1>9. \A n \in 1 .. 2 : n = 1 \/ n = 2
  OBVIOUS
<1>10. ChainOf(s)
  BY <1>3, <1>4, <1>6, <1>7, <1>8, <1>9 DEF ChainOf
<1> QED
  BY <1>6, <1>10

LEMMA MoeChainOf ==
    ASSUME Known, AtNode, MoeChain
    PROVE  ChainOf(Chain(pos))
<1>1. PICK m \in Nodes : /\ MoePlanned(m, pos) /\ Chain(pos) = <<m, m + 1, pos>>
                         /\ waiting.moe = m /\ waiting.inject = m + 1
  BY DEF MoeChain
<1>2. PlanTypeOK /\ ChainBooks /\ phase = "run"
  BY DEF Known, PlanInv, ExecInv, AtNode
<1>3. /\ Op(m) = "moe" /\ InjectPlanned(m + 1, pos)
      /\ <<m + 1, 1>> \in Uses(m) /\ OnlyUse(m) /\ ~Exposed(m)
  BY <1>1 DEF MoePlanned
<1>4. m + 1 \in Nodes /\ m + 1 < pos /\ Op(m + 1) = "inject" /\ Op(pos) = "rms"
  BY <1>2, <1>3, InjectShape
<1>5. /\ Nodes = 1 .. Len(graph.ops) /\ Len(graph.ops) \in Nat /\ pos \in Nodes /\ pos \in Nat
      /\ m \in Nat \ {0} /\ m \in 1 .. (pos - 1) /\ m + 1 \in 1 .. (pos - 1) /\ m + 1 # 0
  BY <1>4, AtNodeFacts
<1>6. tensors[m + 1].st # 0
  BY <1>1, <1>2, <1>5 DEF ChainBooks
<1>7. PICK s : s = Chain(pos)
  OBVIOUS
<1>8. Len(s) = 3 /\ s[1] = m /\ s[2] = m + 1 /\ s[3] = pos
  BY <1>1, <1>7
<1>9. Early(m + 1)
  BY <1>1, <1>4, <1>5, <1>6, EarlyNode DEF Awaited
<1>10. Early(m)
  <2>1. m + 1 \in Joined
    BY <1>7, <1>8 DEF Joined, Together
  <2>2. \A j \in Nodes : m \in Reads(j) => j \in Joined
    BY <1>3, <2>1, OnlyReader
  <2> QED
    BY <1>1, <1>3, <1>4, <1>5, <2>2, EarlyNode DEF Awaited
<1>11. \A n \in 1 .. 2 : n = 1 \/ n = 2
  OBVIOUS
<1>12. \A n \in 1 .. 3 : n = 1 \/ n = 2 \/ n = 3
  OBVIOUS
<1>13. ChainOf(s)
  BY <1>4, <1>5, <1>7, <1>8, <1>9, <1>10, <1>11, <1>12 DEF ChainOf
<1> QED
  BY <1>7, <1>13

(* What a node completes has been deferred, and nobody else waits for it, or
   its value is kept. *)
LEMMA ChainFacts ==
    ASSUME Known, AtNode
    PROVE  /\ ChainOf(Chain(pos)) /\ pos \in Joined
           /\ \A x \in Joined : (x = pos \/ Early(x)) /\ Chain(pos)[1] <= x
           /\ \A n \in 1 .. (Len(Chain(pos)) - 1) : Chain(pos)[n] \in Joined \ {pos}
<1>1. ChainOf(Chain(pos))
  <2>1. CASE Chain(pos) = <<pos>>
    <3>1. PICK s : s = Chain(pos)
      OBVIOUS
    <3>2. Len(s) = 1 /\ s[1] = pos /\ pos \in Nat
      BY <2>1, <3>1, AtNodeFacts
    <3>3. ChainOf(s)
      BY <2>1, <3>1, <3>2 DEF ChainOf
    <3> QED
      BY <3>1, <3>3
  <2> QED
    BY <2>1, ChainCases, UpChainOf, GateChainOf, InjectChainOf, MoeChainOf
<1>2. PICK s : s = Chain(pos)
  OBVIOUS
<1>3. /\ Len(s) \in Nat \ {0} /\ s[Len(s)] = pos
      /\ \A n \in 1 .. (Len(s) - 1) : Early(s[n])
      /\ \A n \in 1 .. Len(s) : s[1] <= s[n]
  BY <1>1, <1>2 DEF ChainOf
<1>4. Joined = {s[n] : n \in 1 .. Len(s)}
  BY <1>2 DEF Joined, Together
<1>5. \A n \in 1 .. Len(s) : n = Len(s) \/ n \in 1 .. (Len(s) - 1)
  BY <1>3
<1>6. pos \in Joined
  BY <1>3, <1>4
<1>7. \A x \in Joined : (x = pos \/ Early(x)) /\ s[1] <= x
  BY <1>3, <1>4, <1>5
<1>8. ASSUME NEW n \in 1 .. (Len(s) - 1) PROVE s[n] \in Joined \ {pos}
  <2>1. n \in 1 .. Len(s)
    BY <1>3
  <2>2. s[n] # pos
    BY <1>3 DEF Early
  <2> QED
    BY <1>4, <2>1, <2>2
<1> QED
  BY <1>1, <1>2, <1>6, <1>7, <1>8

(* A copy's source is still strided after the step, wherever the cursor is. *)
LEMMA StepCopies ==
    ASSUME Known, AtNode, UNCHANGED <<graph, setup>>,
           \A j \in 1 .. (pos - 1) : tensors'[j].dense = DenseAt(j, rows),
           ReuseWorkspace => tensors'[pos].dense = DenseAt(pos, rows),
           \A j \in Nodes : j > pos => tensors'[j].dense = tensors[j].dense,
           \A i \in Computable : tensors'[i].st # 0 => tensors'[i].rows = rows,
           \A i \in Nodes : i > pos /\ tensors'[i].st # 0 => tensors[i].st # 0
    PROVE  CopiesAreStrided'
<1>1. PlanTypeOK /\ ExecInv /\ Served(graph, setup) /\ phase = "run"
  BY DEF Known, PlanInv, AtNode
<1>2. /\ Nodes = 1 .. Len(graph.ops) /\ Len(graph.ops) \in Nat /\ pos \in Nodes /\ pos \in Nat
  BY AtNodeFacts
<1>3. ASSUME NEW i \in Nodes, OnDevice, Op(i) \in {"reshape", "contiguous"},
             tensors'[i].st # 0, ~ViewAt(i, tensors'[i].rows)
      PROVE  ~tensors'[Source(i)].dense
  <2>1. PICK s : s = Source(i)
    OBVIOUS
  <2>2. s \in Nodes /\ s \in 1 .. (i - 1) /\ ~Bound(i)
    BY <1>1, <1>3, <2>1, ServedSource
  <2>3. i \in Computable /\ i \in Nat /\ s \in Nat /\ s < i
    BY <1>2, <2>2 DEF Computable
  <2>4. tensors'[i].rows = rows /\ ~ViewAt(i, rows)
    BY <1>3, <2>3
  <2>5. ~DenseAt(s, rows)
    BY <1>3, <2>1, <2>4 DEF ViewAt
  <2>6. CASE s < pos
    <3>1. s \in 1 .. (pos - 1)
      BY <1>2, <2>2, <2>6
    <3> QED
      BY <2>1, <2>5, <3>1
  <2>7. CASE s >= pos
    <3>1. i > pos /\ i >= pos
      BY <1>2, <2>3, <2>7
    <3>2. tensors[i].st # 0
      BY <1>3, <3>1
    <3>3. ReuseWorkspace /\ tensors[i].rows = rows
      BY <1>1, <2>3, <3>1, <3>2 DEF ExecInv, Ahead, ShapedTensors, Running
    <3>4. CASE s = pos
      BY <2>1, <2>5, <3>3, <3>4
    <3>5. CASE s > pos
      <4>1. ~tensors[s].dense
        BY <1>1, <1>3, <2>1, <2>4, <3>2, <3>3 DEF ExecInv, CopiesAreStrided
      <4> QED
        BY <2>1, <2>2, <3>5, <4>1
    <3> QED
      BY <1>2, <2>3, <2>7, <3>4, <3>5
  <2> QED
    BY <1>2, <2>3, <2>6, <2>7
<1> QED
  BY <1>3, GraphStays, ShapesStay DEF CopiesAreStrided

(* What a node computes itself is contiguous. *)
LEMMA OwnDense ==
    ASSUME NEW i, NEW r, ~ViewAt(i, r)
    PROVE  DenseAt(i, r) = TRUE
  BY DEF ViewAt, DenseAt, StridedResult, StridedTarget

LEMMA DeferredOps ==
    ASSUME Known, AtNode, Defers(pos)
    PROVE  /\ Op(pos) \in {"matmul", "sigmoid", "inject", "moe"} /\ ~ViewAt(pos, rows)
           /\ DefersUp(pos) => Op(pos) = "matmul"
           /\ DefersGate(pos) => Op(pos) = "sigmoid"
           /\ DefersInject(pos) => Op(pos) = "inject"
           /\ mode # "stop"
<1>1. PlanTypeOK /\ RunInv /\ ChainBooks /\ phase = "run" /\ pos \in Nodes
  BY AtNodeFacts DEF Known, PlanInv, DeferInv, ExecInv, AtNode
<1>2. /\ DefersUp(pos) => Op(pos) = "matmul"
      /\ GatePlanned(pos + 1) => Op(pos) = "sigmoid"
      /\ DefersInject(pos) => Op(pos) = "inject"
      /\ DefersMoe(pos) => Op(pos) = "moe"
  BY <1>1, DeferralsApart
<1>3. /\ Nodes = 1 .. Len(graph.ops) /\ Len(graph.ops) \in Nat /\ pos \in Nodes /\ pos \in Nat
  BY AtNodeFacts
<1>4. ASSUME waiting.up # 0, pos = waiting.up + 1 PROVE Op(pos) = "sigmoid" /\ mode # "stop"
  <2>1. PICK u \in Nodes : UpAwaited(u)
    <3>1. ~NothingAwaited
      BY <1>4 DEF NothingAwaited, NoneWaiting
    <3>2. \A g : ~GateAwaited(g)
      BY <1>4 DEF GateAwaited
    <3>3. \A m, c : ~MoeAwaited(m, c)
      BY <1>4 DEF MoeAwaited
    <3>4. \A p, m, c : ~InjectAwaited(p, m, c)
      BY <1>4 DEF InjectAwaited
    <3> QED
      BY <1>1, <3>1, <3>2, <3>3, <3>4 DEF RunInv
  <2>2. waiting.up = u /\ UpPlanned(u + 2) /\ u \in Nat /\ (u + 2) - 1 = u + 1
    BY <1>3, <2>1 DEF UpAwaited
  <2>3. Op(u + 1) = "sigmoid"
    BY <1>1, <2>2, UpShape
  <2>4. mode # "stop"
    BY <1>1, <1>4 DEF ChainBooks, NoneWaiting
  <2> QED
    BY <1>4, <2>2, <2>3, <2>4
<1>5. DefersGate(pos) => Op(pos) = "sigmoid"
  BY <1>2, <1>4 DEF DefersGate
<1>6. FusionOn => mode # "stop"
  BY DEF FusionOn
<1>7. mode # "stop"
  BY <1>4, <1>6 DEF Defers, DefersUp, DefersGate, DefersInject, DefersMoe
<1>8. Op(pos) \in {"matmul", "sigmoid", "inject", "moe"}
  BY <1>2, <1>5 DEF Defers
<1>9. ~ViewAt(pos, rows)
  BY <1>8 DEF ViewAt
<1> QED
  BY <1>2, <1>5, <1>7, <1>8, <1>9

LEMMA DeferNodeExec ==
    ASSUME Known, DeferNode
    PROVE  ExecInv'
<1>1. PICK w : w = Placed(pos)
  OBVIOUS
<1>2. /\ AtNode /\ Defers(pos) /\ phase = "run"
      /\ w.tensors[pos].st # 0 \/ DefersUp(pos) \/ DefersGate(pos)
      /\ tensors' = w.tensors /\ pool' = w.pool /\ holder' = w.holder
      /\ waiting' = [gate   |-> IF DefersGate(pos) THEN pos ELSE waiting.gate,
                     up     |-> IF DefersUp(pos) THEN pos ELSE waiting.up,
                     inject |-> IF DefersInject(pos) THEN pos ELSE waiting.inject,
                     moe    |-> IF DefersMoe(pos) THEN pos ELSE waiting.moe]
      /\ pos' = pos + 1
      /\ UNCHANGED <<planVars, phase, content, seen, computed, last, rows, pass,
                     failed, key, mode>>
  BY <1>1 DEF DeferNode, AtNode
<1>3. UNCHANGED <<graph, setup, stage, lastUse, keep, reclaims>>
  BY <1>2 DEF planVars
<1>4. PlanInv /\ PlanTypeOK /\ ExecInv /\ Served(graph, setup)
  BY DEF Known, PlanInv
<1>5. /\ pos \in Computable /\ pos \in Nodes /\ ~Bound(pos) /\ pos \notin computed /\ pos \in Nat
      /\ Len(graph.ops) \in Nat /\ Nodes = 1 .. Len(graph.ops) /\ pos <= Len(graph.ops)
      /\ rows \in setup.rows
  BY <1>2, AtNodeFacts
<1>6. /\ Op(pos) \in {"matmul", "sigmoid", "inject", "moe"} /\ ~ViewAt(pos, rows)
      /\ DefersUp(pos) => Op(pos) = "matmul"
      /\ DefersGate(pos) => Op(pos) = "sigmoid"
      /\ DefersInject(pos) => Op(pos) = "inject"
      /\ mode # "stop"
  BY <1>2, DeferredOps
<1>7. /\ Storage(w, Nodes)
      /\ \A j \in Nodes : j # pos => tensors'[j] = tensors[j]
      /\ tensors'[pos].rows = rows /\ tensors'[pos].dense = TRUE
      /\ tensors[pos].st # 0 => tensors'[pos].st = tensors[pos].st
      /\ \A b \in Out(pool) : b \in Out(pool') /\ holder'[b] = holder[b]
  <2>1. Ready(w)
    BY <1>1, <1>2, PlacedKeeps
  <2> QED
    BY <1>2, <2>1 DEF Ready
<1>8. /\ \A i \in computed : i \in Nodes /\ i # pos /\ tensors'[i] = tensors[i]
      /\ \A i \in Nodes : Bound(i) => i \in Nodes /\ i # pos /\ tensors'[i] = tensors[i]
  BY <1>4, <1>5, <1>7 DEF ExecInv, Counters
<1>9. \A i \in Nodes : tensors[i].st \in Buffers => tensors[i].st \in Out(pool)
  <2>1. \A i \in Nodes : Settled(Workspace, i)
    BY <1>2, <1>4 DEF ExecInv, Stored, Storage, Live
  <2> QED
    BY <1>4, <2>1, WorkspaceKnown DEF Settled
<1>10. Counters'
  <2>1. waiting' \in [{"gate", "up", "inject", "moe"} -> 0 .. Len(graph.ops)]
    <3>1. waiting \in [{"gate", "up", "inject", "moe"} -> 0 .. Len(graph.ops)]
          /\ pos \in 0 .. Len(graph.ops)
      BY <1>4, <1>5 DEF ExecInv, Counters
    <3>2. waiting.gate \in 0 .. Len(graph.ops) /\ waiting.up \in 0 .. Len(graph.ops)
          /\ waiting.inject \in 0 .. Len(graph.ops) /\ waiting.moe \in 0 .. Len(graph.ops)
      BY <3>1
    <3> QED
      BY <1>2, <3>1, <3>2
  <2>2. pos' \in 1 .. (Len(graph.ops) + 1)
    BY <1>2, <1>5
  <2> QED
    BY <1>2, <1>3, <1>4, <2>1, <2>2, GraphStays DEF ExecInv, Counters
<1>11. Stored'
  <2>1. w \in Spaces
    BY <1>4, <1>7, StorageParts
  <2>2. Live' = Nodes
    BY <1>2, <1>3, GraphStays DEF Live
  <2> QED
    BY <1>2, <1>3, <1>7, <2>1, <2>2, StoredNext
<1>12. BoundTensors'
  <2>1. \A i \in InputNodes : i \in Nodes /\ Bound(i)
    BY DEF InputNodes, Bound, IsInput, BoundOps
  <2> QED
    BY <1>2, <1>3, <1>4, <1>8, <2>1, GraphStays DEF ExecInv, BoundTensors
<1>13. \A i \in Computable : tensors'[i].st # 0 => tensors'[i].rows = rows
  <2>1. ASSUME NEW i \in Computable, i # pos, tensors'[i].st # 0 PROVE tensors'[i].rows = rows
    BY <1>2, <1>4, <1>7, <2>1 DEF ExecInv, ShapedTensors, Running, Computable
  <2> QED
    BY <1>7, <2>1
<1>14. \A j \in 1 .. (pos - 1) : /\ j \in Nodes /\ j # pos /\ tensors'[j] = tensors[j]
                                 /\ tensors'[j].dense = DenseAt(j, rows)
                                 /\ ~Bound(j) => tensors'[j].rows = rows
  BY <1>2, <1>4, <1>5, <1>7 DEF ExecInv, ShapedTensors, Running
<1>15. DenseAt(pos, rows) = TRUE
  BY <1>6, OwnDense
<1>16. CopiesAreStrided'
  <2>1. \A j \in Nodes : j > pos => j # pos /\ tensors'[j] = tensors[j]
    BY <1>5, <1>7
  <2> QED
    BY <1>2, <1>3, <1>7, <1>13, <1>14, <1>15, <2>1, StepCopies
<1>17. KeptStorage' /\ StaleInputs'
  BY <1>2 DEF KeptStorage, StaleInputs
<1>18. ShapedTensors'
  <2>1. \A i \in 1 .. (pos' - 1) : i = pos \/ i \in 1 .. (pos - 1)
    BY <1>2, <1>5
  <2>2. \A i \in 1 .. (pos' - 1) : tensors'[i].dense = DenseAt(i, rows)
                                    /\ (~Bound(i) => tensors'[i].rows = rows)
    BY <1>7, <1>14, <1>15, <2>1
  <2>3. \A i \in 1 .. (pos' - 1) : tensors'[i].dense = DenseAt(i, rows)'
                                    /\ (~Bound(i)' => tensors'[i].rows = rows')
    BY <1>2, <1>3, <2>2, GraphStays, ShapesStay
  <2>4. \A i \in Computable' : tensors'[i].st # 0 => tensors'[i].rows = rows'
    BY <1>2, <1>3, <1>13, GraphStays
  <2> QED
    BY <2>3, <2>4 DEF ShapedTensors
<1>19. Ahead'
  <2>1. \A i \in Computable : i >= pos + 1 => i >= pos /\ i # pos /\ i \in Nodes
    BY <1>5 DEF Computable
  <2> QED
    BY <1>2, <1>3, <1>4, <1>7, <2>1, GraphStays, ShapesStay, ReuseStays DEF ExecInv, Ahead, Running
<1>20. ComputedHolders'
  <2>1. ASSUME NEW i \in computed, tensors'[i].st \in Buffers
        PROVE  holder'[tensors'[i].st] \in computed
    <3>1. tensors'[i] = tensors[i] /\ holder[tensors[i].st] \in computed
      BY <1>2, <1>4, <1>8, <2>1 DEF ExecInv, ComputedHolders, Running
    <3> QED
      BY <1>7, <1>8, <1>9, <2>1, <3>1
  <2> QED
    BY <1>2, <2>1 DEF ComputedHolders
<1>21. FreedWhenDue'
  <2>1. ASSUME ~ReuseWorkspace, NEW i \in Nodes, Released(i),
               \A j \in 1 .. lastUse[i] : j \in computed
        PROVE  tensors'[i].st = 0
    <3>1. tensors[i].st = 0
      BY <1>2, <1>4, <2>1 DEF ExecInv, FreedWhenDue, Running
    <3>2. i # pos
      <4>1. stage = "ready" /\ PlanSparesReaders
        BY <1>2, <1>4, InvariantSpares DEF ExecInv, Books
      <4>2. lastUse[i] >= i /\ lastUse[i] \in Nat
        BY <1>4, <1>5, <2>1, <4>1 DEF PlanSparesReaders, PlanTypeOK
      <4>3. i \in 1 .. lastUse[i]
        BY <1>5, <4>2
      <4> QED
        BY <1>5, <2>1, <4>3
    <3> QED
      BY <1>7, <3>1, <3>2
  <2> QED
    BY <1>2, <1>3, <2>1, GraphStays, ReuseStays DEF FreedWhenDue, Released
<1>22. Values'
  <2>1. ASSUME NEW x \in computed, Needed(x) PROVE Intact(x)'
    <3>1. Intact(x) /\ x \in Nodes /\ tensors'[x] = tensors[x]
      BY <1>2, <1>4, <1>8, <2>1 DEF ExecInv, Values
    <3>2. tensors[x].st \in Buffers => tensors[x].st \in Out(pool')
      BY <1>7, <1>9, <3>1
    <3>3. tensors[x].st \in Buffers => tensors[x].st \in pool'.active
      BY <3>2 DEF Out
    <3> QED
      BY <1>2, <3>1, <3>3 DEF Intact
  <2>2. \A x : Needed(x)' <=> Needed(x)
    BY <1>2, <1>3, GraphStays DEF Needed
  <2> QED
    BY <1>2, <2>1, <2>2 DEF Values
<1>23. Books'
  <2>1. computed \subseteq {i \in Nodes : Bound(i)} \union 1 .. (pos' - 1)
    <3>1. computed \subseteq {i \in Nodes : Bound(i)} \union 1 .. (pos - 1)
      BY <1>2, <1>4 DEF ExecInv, Books, Running
    <3>2. 1 .. (pos - 1) \subseteq 1 .. (pos' - 1)
      BY <1>2, <1>5
    <3> QED
      BY <3>1, <3>2
  <2> QED
    BY <1>2, <1>3, <1>4, <2>1, GraphStays DEF ExecInv, Books, Running
<1>24. ChainBooks'
  <2>1. ChainBooks
    BY <1>4 DEF ExecInv
  <2>2. Awaited' \subseteq Awaited \union {pos}
    BY <1>2 DEF Awaited
  <2>3. Awaited' \intersect computed = {}
    BY <1>2, <1>5, <2>1, <2>2 DEF ChainBooks
  <2>4. waiting'.inject # 0 => tensors'[waiting'.inject].st # 0
    <3>1. CASE DefersInject(pos)
      <4>1. waiting'.inject = pos /\ w.tensors[pos].st # 0
        BY <1>2, <1>6, <3>1
      <4> QED
        BY <1>2, <4>1
    <3>2. CASE ~DefersInject(pos)
      <4>1. waiting'.inject = waiting.inject
        BY <1>2, <3>2
      <4>2. waiting.inject # 0 => waiting.inject \in Nodes /\ tensors[waiting.inject].st # 0
        BY <1>2, <1>4, <1>5, <2>1 DEF ChainBooks, ExecInv, Counters
      <4> QED
        BY <1>7, <4>1, <4>2
    <3> QED
      BY <3>1, <3>2
  <2>5. waiting'.moe # 0 => \E c \in Nodes : MoePlanned(waiting'.moe, c)
    <3>1. CASE DefersMoe(pos)
      BY <1>2, <3>1 DEF DefersMoe
    <3>2. CASE ~DefersMoe(pos)
      BY <1>2, <2>1, <3>2 DEF ChainBooks
    <3> QED
      BY <3>1, <3>2
  <2>6. \E c \in Nodes : TRUE
    BY <1>5
  <2> QED
    BY <1>2, <1>3, <1>6, <2>3, <2>4, <2>5, GraphStays, ShapesStay DEF ChainBooks
<1> QED
  BY <1>10, <1>11, <1>12, <1>16, <1>17, <1>18, <1>19, <1>20, <1>21, <1>22, <1>23, <1>24 DEF ExecInv

\* The workspace w when the node and what it completes have their storage.
Stocked(w) ==
    /\ Storage(w, Nodes)
    /\ \A j \in Nodes : j \notin Joined => w.tensors[j] = tensors[j]
    /\ \A j \in Nodes : j # pos => /\ w.tensors[j].rows = tensors[j].rows
                                   /\ w.tensors[j].dense = tensors[j].dense
    /\ \A j \in Nodes : j # pos /\ tensors[j].st # 0 => w.tensors[j] = tensors[j]
    /\ w.tensors[pos].rows = rows /\ w.tensors[pos].dense = TRUE
    /\ ViewAt(pos, rows) => w.tensors[pos].st = 0
    /\ \A b \in Out(pool) : b \in Out(w.pool) /\ w.holder[b] = holder[b]

LEMMA WithStorageStocks ==
    ASSUME Known, AtNode, NEW m \in 1 .. Len(Chain(pos))
    PROVE  Stocked(WithStorage(pos, m))
<1>1. PlanTypeOK /\ ExecInv /\ phase = "run"
  BY DEF Known, PlanInv, AtNode
<1>2. PICK w : w = Placed(pos)
  OBVIOUS
<1>3. Ready(w)
  BY <1>2, PlacedKeeps
<1>4. /\ pos \in Nodes /\ pos \in Nat /\ rows \in 1 .. MaxBytes /\ Nodes = 1 .. Len(graph.ops)
      /\ Len(graph.ops) \in Nat
  BY AtNodeFacts
<1>5. PICK L \in Nat : L = Len(Chain(pos))
  BY ChainFacts DEF ChainOf
<1>6. m \in Nat \ {0} /\ \A n \in 1 .. (m - 1) : n \in 1 .. (L - 1)
  BY <1>5
<1>7. PICK X : X = Joined \ {pos}
  OBVIOUS
<1>8. \A x \in X : Early(x)
  BY <1>7, ChainFacts
<1>9. X \in SUBSET Computable /\ X \subseteq Nodes
  BY <1>8 DEF Early, Computable
<1>10. \A n \in 1 .. (m - 1) : Chain(pos)[n] \in X
  BY <1>5, <1>6, <1>7, ChainFacts
<1>11. ASSUME NEW x \in X PROVE w.tensors[x].rows = rows /\ ~ViewAt(x, rows)
  <2>1. /\ x \in Nodes /\ x # pos /\ x \in 1 .. (pos - 1) /\ ~Bound(x)
        /\ Op(x) \in {"matmul", "sigmoid", "inject", "moe"}
    BY <1>8, <1>9 DEF Early, Computable
  <2>2. tensors[x].rows = rows
    BY <1>1, <2>1 DEF ExecInv, ShapedTensors, Running
  <2>3. w.tensors[x] = tensors[x]
    BY <1>3, <2>1 DEF Ready
  <2> QED
    BY <2>1, <2>2, <2>3 DEF ViewAt
<1>12. PICK q : q = WithStorage(pos, m)
  OBVIOUS
<1>13. Storage(q, Nodes) /\ Extends(w, q, X)
  <2>1. Storage(w, Nodes) /\ \A x \in X : w.tensors[x].rows = rows /\ ~ViewAt(x, rows)
    BY <1>3, <1>11 DEF Ready
  <2> QED
    BY <1>1, <1>2, <1>4, <1>6, <1>9, <1>10, <1>12, <2>1, WithStorageKeeps
<1>14. /\ \A j \in Nodes : j \notin X \/ w.tensors[j].st # 0 => q.tensors[j] = w.tensors[j]
       /\ \A j \in Nodes : q.tensors[j].rows = w.tensors[j].rows
                           /\ q.tensors[j].dense = w.tensors[j].dense
       /\ \A b \in Out(w.pool) : b \in Out(q.pool) /\ q.holder[b] = w.holder[b]
  BY <1>13 DEF Extends
<1>15. /\ \A j \in Nodes : j # pos => w.tensors[j] = tensors[j]
       /\ w.tensors[pos].rows = rows /\ w.tensors[pos].dense = TRUE
       /\ ViewAt(pos, rows) => w.tensors[pos].st = 0
       /\ \A b \in Out(pool) : b \in Out(w.pool) /\ w.holder[b] = holder[b]
  BY <1>3 DEF Ready
<1>16. pos \in Joined /\ pos \notin X
  BY <1>7, ChainFacts
<1>17. \A j \in Nodes : j \notin Joined => q.tensors[j] = tensors[j]
  BY <1>7, <1>14, <1>15, <1>16
<1>18. \A j \in Nodes : j # pos /\ tensors[j].st # 0 => q.tensors[j] = tensors[j]
  BY <1>14, <1>15
<1>19. q.tensors[pos] = w.tensors[pos]
  BY <1>4, <1>14, <1>16
<1>20. Stocked(q)
  BY <1>13, <1>14, <1>15, <1>17, <1>18, <1>19 DEF Stocked
<1> QED
  BY <1>12, <1>20

\* What an attempt at the node may leave behind.
Attempted(w) ==
    /\ Storage(w, Nodes)
    /\ \A j \in Nodes : j > pos => w.tensors[j] = tensors[j]
    /\ \A j \in Nodes : Bound(j) => w.tensors[j] = tensors[j]
    /\ \A j \in Nodes : j # pos => w.tensors[j].dense = tensors[j].dense
    /\ w.tensors[pos].dense \in {tensors[pos].dense, TRUE}
    /\ \A j \in Computable : w.tensors[j].st # 0 => w.tensors[j].rows = rows

LEMMA EveryAttempt ==
    ASSUME Known, AtNode, NEW w \in {Workspace, Placed(pos), WithStorage(pos, Len(Chain(pos)))}
    PROVE  Attempted(w) /\ (w # Workspace => w.tensors[pos].dense = TRUE)
<1>1. PlanTypeOK /\ ExecInv /\ phase = "run"
  BY DEF Known, PlanInv, AtNode
<1>2. /\ pos \in Nodes /\ pos \in Nat /\ ~Bound(pos) /\ Nodes = 1 .. Len(graph.ops)
      /\ Len(graph.ops) \in Nat
  BY AtNodeFacts
<1>3. \A j \in Computable : j \in Nodes /\ (tensors[j].st # 0 => tensors[j].rows = rows)
  BY <1>1 DEF ExecInv, ShapedTensors, Running, Computable
<1>4. CASE w = Workspace
  <2>1. Storage(w, Nodes) /\ w.tensors = tensors
    BY <1>1, <1>4, WorkspaceKnown DEF Live
  <2> QED
    BY <1>3, <1>4, <2>1 DEF Attempted
<1>5. CASE w = Placed(pos)
  <2>1. Ready(w)
    BY <1>5, PlacedKeeps
  <2>2. /\ Storage(w, Nodes) /\ \A j \in Nodes : j # pos => w.tensors[j] = tensors[j]
        /\ w.tensors[pos].rows = rows /\ w.tensors[pos].dense = TRUE
    BY <2>1 DEF Ready
  <2>3. \A j \in Nodes : j > pos \/ Bound(j) => j # pos
    BY <1>2
  <2> QED
    BY <1>3, <2>2, <2>3 DEF Attempted
<1>6. CASE w = WithStorage(pos, Len(Chain(pos)))
  <2>1. Len(Chain(pos)) \in 1 .. Len(Chain(pos))
    BY ChainFacts DEF ChainOf
  <2>2. Stocked(w)
    BY <1>6, <2>1, WithStorageStocks
  <2>3. /\ Storage(w, Nodes) /\ \A j \in Nodes : j \notin Joined => w.tensors[j] = tensors[j]
        /\ \A j \in Nodes : j # pos => /\ w.tensors[j].rows = tensors[j].rows
                                       /\ w.tensors[j].dense = tensors[j].dense
        /\ w.tensors[pos].rows = rows /\ w.tensors[pos].dense = TRUE
    BY <2>2 DEF Stocked
  <2>4. \A j \in Nodes : j > pos \/ Bound(j) => j \notin Joined
    <3>1. ASSUME NEW j \in Joined, j > pos \/ Bound(j) PROVE FALSE
      <4>1. j = pos \/ (j \in 1 .. (pos - 1) /\ ~Bound(j))
        BY <3>1, ChainFacts DEF Early, Computable
      <4> QED
        BY <1>2, <3>1, <4>1
    <3> QED
      BY <3>1
  <2>5. ASSUME NEW j \in Computable, w.tensors[j].st # 0 PROVE w.tensors[j].rows = rows
    <3>1. CASE j \in Joined /\ j # pos
      <4>1. j \in 1 .. (pos - 1) /\ ~Bound(j) /\ j \in Nodes
        BY <3>1, ChainFacts DEF Early, Computable
      <4>2. tensors[j].rows = rows
        BY <1>1, <4>1 DEF ExecInv, ShapedTensors, Running
      <4> QED
        BY <2>3, <3>1, <4>1, <4>2
    <3>2. CASE j = pos
      BY <2>3, <3>2
    <3>3. CASE j \notin Joined
      BY <1>3, <2>3, <2>5, <3>3
    <3> QED
      BY <3>1, <3>2, <3>3
  <2> QED
    BY <2>3, <2>4, <2>5 DEF Attempted
<1> QED
  BY <1>4, <1>5, <1>6

LEMMA FailNodeExec ==
    ASSUME Known, FailNode
    PROVE  ExecInv'
<1>1. AtNode /\ setup.mayFail
  BY DEF FailNode
<1>2. PICK w \in {Workspace, Placed(pos), WithStorage(pos, Len(Chain(pos)))} :
          tensors' = w.tensors /\ pool' = Flushed(w.pool) /\ holder' = w.holder
  BY DEF FailNode
<1>3. /\ failed' = TRUE /\ phase' = "over"
      /\ UNCHANGED <<planVars, content, seen, computed, pos, last, waiting, rows,
                     pass, key, mode>>
  BY DEF FailNode
<1>4. UNCHANGED <<graph, setup, stage, lastUse, keep, reclaims>>
  BY <1>3 DEF planVars
<1>5. PlanTypeOK /\ ExecInv /\ Served(graph, setup) /\ phase = "run"
  BY <1>1 DEF Known, PlanInv, AtNode
<1>6. /\ pos \in Nodes /\ pos \in Nat /\ Nodes = 1 .. Len(graph.ops) /\ Len(graph.ops) \in Nat
      /\ rows \in setup.rows
      /\ \A s \in 1 .. (pos - 1) : tensors[s].dense = DenseAt(s, rows)
  BY <1>1, AtNodeFacts
<1>7. Attempted(w) /\ (w # Workspace => w.tensors[pos].dense = TRUE)
  BY <1>1, <1>2, EveryAttempt
<1>8. /\ Storage(w, Nodes)
      /\ \A j \in Nodes : j > pos => tensors'[j] = tensors[j]
      /\ \A j \in Nodes : Bound(j) => tensors'[j] = tensors[j]
      /\ \A j \in Nodes : j # pos => tensors'[j].dense = tensors[j].dense
      /\ \A j \in Computable : tensors'[j].st # 0 => tensors'[j].rows = rows
  BY <1>2, <1>7 DEF Attempted
<1>9. Counters'
  BY <1>3, <1>4, <1>5, GraphStays DEF ExecInv, Counters
<1>10. Stored'
  <2>1. PICK p : p = Flushed(w.pool)
    OBVIOUS
  <2>2. PoolBooks(p) /\ Out(p) = Out(w.pool) /\ p.size = w.pool.size
    BY <1>8, <2>1, FlushSettles DEF Storage
  <2>3. PICK q : q = [pool |-> p, holder |-> w.holder, tensors |-> w.tensors]
    OBVIOUS
  <2>4. Storage(q, Nodes)
    BY <1>5, <1>8, <2>2, <2>3, PoolSwapped
  <2>5. q \in Spaces
    BY <1>5, <2>4, StorageParts
  <2>6. pool' = q.pool /\ holder' = q.holder /\ tensors' = q.tensors
    BY <1>2, <2>1, <2>3
  <2>7. Live' = Nodes
    BY <1>3, <1>4, GraphStays DEF Live
  <2> QED
    BY <1>4, <2>4, <2>5, <2>6, <2>7, StoredNext
<1>11. BoundTensors'
  <2>1. \A i \in InputNodes : i \in Nodes /\ Bound(i)
    BY DEF InputNodes, Bound, IsInput, BoundOps
  <2> QED
    BY <1>3, <1>4, <1>5, <1>8, <2>1, GraphStays DEF ExecInv, BoundTensors
<1>12. CopiesAreStrided'
  <2>1. CASE w = Workspace
    <3>1. tensors' = tensors
      BY <1>2, <2>1 DEF Workspace
    <3> QED
      BY <1>4, <1>5, <3>1, GraphStays, ShapesStay DEF ExecInv, CopiesAreStrided
  <2>2. CASE w # Workspace
    <3>1. tensors'[pos].dense = TRUE
      BY <1>2, <1>7, <2>2
    <3>2. ReuseWorkspace => DenseAt(pos, rows) = TRUE
      <4>1. ReuseWorkspace => setup.rows \subseteq {1}
        BY <1>1, <1>5 DEF Served, ReuseWorkspace, SameShape
      <4>2. ReuseWorkspace => rows = 1
        BY <1>6, <4>1
      <4> QED
        BY <4>2 DEF DenseAt
    <3>3. \A j \in 1 .. (pos - 1) : tensors'[j].dense = DenseAt(j, rows)
      <4>1. \A j \in 1 .. (pos - 1) : j \in Nodes /\ j # pos
        BY <1>6
      <4> QED
        BY <1>6, <1>8, <4>1
    <3> QED
      BY <1>1, <1>4, <1>8, <3>1, <3>2, <3>3, StepCopies
  <2> QED
    BY <2>1, <2>2
<1>13. KeptStorage' /\ StaleInputs' /\ Ahead' /\ ComputedHolders' /\ FreedWhenDue' /\ ChainBooks'
       /\ Values'
  BY <1>3 DEF KeptStorage, StaleInputs, Ahead, ComputedHolders, FreedWhenDue, Running, ChainBooks,
     Values
<1>14. ShapedTensors'
  BY <1>3, <1>4, <1>8, GraphStays DEF ShapedTensors, Running
<1>15. Books'
  <2>1. ~setup.reuseSame
    BY <1>1, <1>5 DEF Served
  <2> QED
    BY <1>1, <1>3, <1>4, <1>5, <2>1, GraphStays DEF ExecInv, Books, Running
<1> QED
  BY <1>9, <1>10, <1>11, <1>12, <1>13, <1>14, <1>15 DEF ExecInv

(* Everything before a node that runs has its value, or gets it with the node. *)
LEMMA BeforeChain ==
    ASSUME Known, AtNode, ~Defers(pos)
    PROVE  /\ \A i \in 1 .. (pos - 1) : i \in computed \union Joined
           /\ \A i \in 1 .. pos : i < Chain(pos)[1] => i \in computed
           /\ NothingAwaited \/ Len(Chain(pos)) # 1
<1>1. PlanTypeOK /\ RunInv
  BY DEF Known, PlanInv, DeferInv, AtNode
<1>2. pos \in Nat
  BY AtNodeFacts
<1>3. /\ \A i \in 1 .. (pos - 1) : i \in computed \union Joined
      /\ NothingAwaited \/ Len(Chain(pos)) # 1
  BY <1>1, ChainCompletes DEF NothingAwaited, DoneBut, Joined
<1>4. ASSUME NEW i \in 1 .. pos, i < Chain(pos)[1] PROVE i \in computed
  <2>1. Chain(pos)[1] <= pos /\ \A x \in Joined : x \in Nat /\ Chain(pos)[1] <= x
    BY <1>2, ChainFacts DEF Early
  <2>2. Chain(pos)[1] \in Nat
    <3>1. PICK s : s = Chain(pos)
      OBVIOUS
    <3>2. s[1] \in {s[n] : n \in 1 .. Len(s)}
      BY <3>1, ChainFacts DEF ChainOf
    <3>3. s[1] \in Joined
      BY <3>1, <3>2 DEF Joined, Together
    <3> QED
      BY <2>1, <3>1, <3>3
  <2>3. i \in 1 .. (pos - 1) /\ i \notin Joined
    BY <1>2, <1>4, <2>1, <2>2
  <2> QED
    BY <1>3, <2>3
<1> QED
  BY <1>3, <1>4

\* The workspace z when the node's kernel, or its view, has been made.
Made(z) ==
    /\ Storage(z, Nodes)
    /\ \A j \in Nodes : j \notin Joined => z.tensors[j] = tensors[j]
    /\ \A j \in Nodes : j # pos => /\ z.tensors[j].rows = tensors[j].rows
                                   /\ z.tensors[j].dense = tensors[j].dense
    /\ \A j \in Nodes : j # pos /\ tensors[j].st # 0 => z.tensors[j] = tensors[j]
    /\ z.tensors[pos].rows = rows /\ z.tensors[pos].dense = DenseAt(pos, rows)
    /\ z.tensors[pos].st # 0
    /\ ViewAt(pos, rows) => /\ Joined = {pos} /\ z.tensors[pos].st = tensors[Source(pos)].st
                            /\ Source(pos) \in computed /\ Intact(Source(pos))
    /\ \A b \in Out(pool) : b \in Out(z.pool) /\ z.holder[b] = holder[b]

LEMMA KernelMakes ==
    ASSUME Known, AtNode, NEW w, Stocked(w), w.tensors[pos].st # 0, ~ViewAt(pos, rows)
    PROVE  Made(w)
<1>1. DenseAt(pos, rows) = TRUE
  BY OwnDense
<1> QED
  BY <1>1 DEF Stocked, Made

LEMMA ViewMakes ==
    ASSUME Known, AtNode, ~Defers(pos), NEW w, Stocked(w), ViewAt(pos, rows), NEW z,
           z = PutTensor(w, pos, ViewOf(pos, Operand(tensors, pos)))
    PROVE  Made(z)
<1>1. PlanTypeOK /\ ExecInv /\ Served(graph, setup) /\ phase = "run"
  BY DEF Known, PlanInv, AtNode
<1>2. /\ pos \in Computable /\ pos \in Nodes /\ pos \in Nat /\ pos \notin computed /\ ~Bound(pos)
      /\ rows \in 1 .. MaxBytes /\ MaxBytes \in Nat
      /\ \A s \in 1 .. (pos - 1) : tensors[s].dense = DenseAt(s, rows)
  BY AtNodeFacts
<1>3. PICK s : s = Source(pos)
  OBVIOUS
<1>4. Op(pos) \in {"reshape", "permute", "slice", "contiguous"}
  BY DEF ViewAt
<1>5. /\ s \in Nodes /\ s \in Reads(pos) /\ s \in 1 .. (pos - 1) /\ s # pos
      /\ Operand(tensors, pos) = tensors[s]
  BY <1>1, <1>2, <1>3, <1>4, ServedSource
<1>6. Joined = {pos}
  BY <1>4, ChainFacts DEF Early
<1>7. s \in computed
  BY <1>5, <1>6, BeforeChain
<1>8. Intact(s)
  <2>1. Needed(s)
    BY <1>2, <1>5 DEF Needed
  <2> QED
    BY <1>1, <1>7, <2>1 DEF ExecInv, Values
<1>9. tensors[s] \in Tensor /\ tensors \in [Nodes -> Tensor]
  BY <1>1, <1>5, WorkspaceKnown
<1>10. /\ Storage(w, Nodes) /\ w.tensors[pos].st = 0 /\ w.tensors[s] = tensors[s]
       /\ \A j \in Nodes : j \notin Joined => w.tensors[j] = tensors[j]
       /\ \A j \in Nodes : j # pos => /\ w.tensors[j].rows = tensors[j].rows
                                      /\ w.tensors[j].dense = tensors[j].dense
       /\ \A j \in Nodes : j # pos /\ tensors[j].st # 0 => w.tensors[j] = tensors[j]
       /\ \A b \in Out(pool) : b \in Out(w.pool) /\ w.holder[b] = holder[b]
  BY <1>5, <1>6 DEF Stocked
<1>11. PICK t : t = ViewOf(pos, tensors[s])
  OBVIOUS
<1>12. tensors[s].dense = DenseAt(s, rows)
  BY <1>2, <1>5
<1>13. /\ t \in Tensor /\ t.st = tensors[s].st /\ t.pooled = tensors[s].pooled /\ t.rows = rows
       /\ t.dense = IF Op(pos) \in {"permute", "slice"} THEN tensors[s].dense /\ rows = 1
                    ELSE tensors[s].dense
  <2>1. PICK d : d = IF Op(pos) \in {"permute", "slice"} THEN tensors[s].dense /\ rows = 1
                     ELSE tensors[s].dense
    OBVIOUS
  <2>2. d \in BOOLEAN /\ rows \in 0 .. MaxBytes
    <3>1. rows \in 0 .. MaxBytes /\ tensors[s].dense \in BOOLEAN
      BY <1>2, <1>9 DEF Tensor
    <3>2. (tensors[s].dense /\ rows = 1) \in BOOLEAN
      OBVIOUS
    <3> QED
      BY <2>1, <3>1, <3>2
  <2>3. t = [tensors[s] EXCEPT !.rows = rows, !.dense = d]
    BY <1>11, <2>1 DEF ViewOf
  <2> QED
    BY <1>9, <2>1, <2>2, <2>3 DEF Tensor
<1>14. t.dense = DenseAt(pos, rows)
  <2>1. CASE Op(pos) \in {"permute", "slice"}
    <3>1. DenseAt(pos, rows) = (rows = 1)
      BY <2>1 DEF DenseAt
    <3>2. rows = 1 => DenseAt(s, rows) = TRUE
      BY DEF DenseAt
    <3> QED
      BY <1>12, <1>13, <2>1, <3>1, <3>2
  <2>2. CASE Op(pos) \notin {"permute", "slice"} /\ ~StridedResult(pos)
    <3>1. DenseAt(pos, rows) = TRUE
      BY <2>2 DEF DenseAt
    <3>2. DenseAt(s, rows) = TRUE
      BY <1>3, <2>2 DEF ViewAt, DenseAt
    <3> QED
      BY <1>12, <1>13, <2>2, <3>1, <3>2
  <2>3. CASE Op(pos) \notin {"permute", "slice"} /\ StridedResult(pos)
    <3>1. DenseAt(pos, rows) = (rows = 1)
      BY <2>3 DEF DenseAt
    <3>2. Op(s) = "slice"
      BY <1>3, <2>3 DEF StridedResult, StridedTarget
    <3>3. DenseAt(s, rows) = (rows = 1)
      BY <3>2 DEF DenseAt
    <3> QED
      BY <1>12, <1>13, <2>3, <3>1, <3>3
  <2> QED
    BY <2>1, <2>2, <2>3
<1>15. t.st \in Buffers => t.rows = tensors[s].rows
  <2>1. CASE ~Bound(s)
    BY <1>1, <1>5, <1>13, <2>1 DEF ExecInv, ShapedTensors, Running
  <2>2. CASE IsInput(s)
    BY <1>1, <1>5, <1>13, <2>2 DEF ExecInv, BoundTensors, InputNodes
  <2>3. CASE Bound(s) /\ ~IsInput(s)
    <3>1. tensors[s].st = NBuffers + s
      BY <1>1, <1>5, <2>3 DEF ExecInv, BoundTensors, External
    <3>2. s \in Nat /\ s >= 1 /\ NBuffers \in Nat
      BY <1>2, <1>5, BuffersAreNat
    <3> QED
      BY <1>13, <3>1, <3>2 DEF Buffers
  <2> QED
    BY <2>1, <2>2, <2>3
<1>16. z = PutTensor(w, pos, t)
  BY <1>5, <1>11
<1>17. Storage(z, Nodes)
  BY <1>1, <1>2, <1>3, <1>10, <1>13, <1>15, <1>16, Viewed
<1>18. z.pool = w.pool /\ z.holder = w.holder /\ z.tensors[pos] = t
       /\ \A j \in Nodes : j # pos => z.tensors[j] = w.tensors[j]
  <2>1. w.tensors \in [Nodes -> Tensor]
    BY <1>1, <1>10, StorageParts
  <2> QED
    BY <1>2, <1>16, <2>1 DEF PutTensor
<1>19. tensors[s].st # 0
  BY <1>8 DEF Intact
<1>20. \A j \in Nodes : j \notin Joined => j # pos
  BY <1>6
<1> QED
  BY <1>3, <1>6, <1>7, <1>8, <1>10, <1>13, <1>14, <1>17, <1>18, <1>19, <1>20 DEF Made

LEMMA FirstOfChain ==
    ASSUME Known, AtNode
    PROVE  Chain(pos)[1] \in Nat /\ Chain(pos)[1] <= pos /\ pos \in Nat /\ Joined \subseteq Nat
           /\ pos \in Joined
<1>1. Chain(pos)[1] <= pos /\ pos \in Nat /\ pos \in Joined
      /\ \A x \in Joined : x \in Nat /\ Chain(pos)[1] <= x
  BY AtNodeFacts, ChainFacts DEF Early
<1>2. PICK s : s = Chain(pos)
  OBVIOUS
<1>3. s[1] \in {s[n] : n \in 1 .. Len(s)}
  BY <1>2, ChainFacts DEF ChainOf
<1>4. s[1] \in Joined
  BY <1>2, <1>3 DEF Joined, Together
<1> QED
  BY <1>1, <1>2, <1>4

(* What is due: the plan's batches since the first node of the chain. *)
LEMMA DueFacts ==
    ASSUME Known, AtNode, NEW i \in DueAfter(pos)
    PROVE  /\ i \in Nodes /\ i \in Computable /\ Released(i) /\ ~ReuseWorkspace
           /\ lastUse[i] \in Nat /\ Chain(pos)[1] <= lastUse[i] /\ lastUse[i] <= pos
           /\ i \in 1 .. pos /\ i <= lastUse[i]
<1>1. ~ReuseWorkspace
  BY DEF DueAfter
<1>2. PICK j \in Chain(pos)[1] .. pos : i \in Batch(j)
  BY <1>1 DEF DueAfter
<1>3. i \in Nodes /\ Released(i) /\ lastUse[i] = j
  BY <1>2 DEF Batch
<1>4. Chain(pos)[1] \in Nat /\ Chain(pos)[1] <= pos /\ pos \in Nat
  BY FirstOfChain
<1>5. i \in Computable
  BY <1>3 DEF Released, Computable, Bound
<1>6. stage = "ready" /\ PlanSparesReaders
  BY InvariantSpares DEF Known, ExecInv, Books, AtNode
<1>7. lastUse[i] >= i
  BY <1>3, <1>6 DEF PlanSparesReaders
<1>8. i \in Nat /\ i >= 1
  BY <1>3, AtNodeFacts
<1> QED
  BY <1>1, <1>2, <1>3, <1>4, <1>5, <1>7, <1>8

LEMMA DueIfReleased ==
    ASSUME Known, AtNode, ~ReuseWorkspace, NEW i \in Nodes, Released(i), lastUse[i] \in Nat,
           Chain(pos)[1] <= lastUse[i], lastUse[i] <= pos
    PROVE  i \in DueAfter(pos)
<1>1. Chain(pos)[1] \in Nat /\ pos \in Nat
  BY FirstOfChain
<1>2. lastUse[i] \in Chain(pos)[1] .. pos /\ i \in Batch(lastUse[i])
  BY <1>1 DEF Batch
<1> QED
  BY <1>2 DEF DueAfter

(* What is due is told into views and owners, and no view outlives its source. *)
LEMMA DueReturnable ==
    ASSUME Known, AtNode, ~Defers(pos), NEW z, Made(z), NEW D, D = DueAfter(pos),
           NEW B, B = {i \in D : BorrowedView(z.tensors, i)},
           NEW F, F = B \union Materialized(z.tensors, D \ B)
    PROVE  Returnable(z, D, B, F)
<1>1. PlanTypeOK /\ ExecInv /\ Served(graph, setup) /\ phase = "run"
  BY DEF Known, PlanInv, AtNode
<1>2. /\ pos \in Computable /\ pos \in Nodes /\ pos \in Nat /\ pos \notin computed
      /\ Nodes = 1 .. Len(graph.ops) /\ Len(graph.ops) \in Nat
      /\ \A s \in 1 .. (pos - 1) : tensors[s].dense = DenseAt(s, rows)
  BY AtNodeFacts
<1>3. /\ Storage(z, Nodes)
      /\ \A j \in Nodes : j \notin Joined => z.tensors[j] = tensors[j]
      /\ \A j \in Nodes : j # pos => /\ z.tensors[j].rows = tensors[j].rows
                                     /\ z.tensors[j].dense = tensors[j].dense
      /\ \A j \in Nodes : j # pos /\ tensors[j].st # 0 => z.tensors[j] = tensors[j]
      /\ z.tensors[pos].rows = rows
  BY DEF Made
<1>4. \A i \in D : /\ i \in Nodes /\ i \in Computable /\ Released(i) /\ ~ReuseWorkspace
                   /\ i \in 1 .. pos /\ lastUse[i] \in Nat /\ lastUse[i] <= pos
  BY DueFacts
<1>5. \A j \in Computable : j \in Nodes /\ j \in Nat /\ ~Bound(j)
  BY <1>2 DEF Computable
<1>6. ASSUME NEW i \in D, z.tensors[i].st # 0
      PROVE  z.tensors[i].rows = rows /\ (BorrowedView(z.tensors, i) <=> ViewAt(i, rows))
  <2>1. z.tensors[i].rows = rows
    <3>1. CASE i = pos
      BY <1>3, <3>1
    <3>2. CASE i # pos
      <4>1. i \in 1 .. (pos - 1) /\ ~Bound(i) /\ i \in Nodes
        BY <1>2, <1>4, <1>5, <3>2
      <4>2. tensors[i].rows = rows
        BY <1>1, <4>1 DEF ExecInv, ShapedTensors, Running
      <4> QED
        BY <1>3, <3>2, <4>1, <4>2
    <3> QED
      BY <3>1, <3>2
  <2>2. \A s \in 1 .. (i - 1) : s \in 1 .. (pos - 1) /\ s \in Nodes /\ s # pos
    BY <1>2, <1>4
  <2>3. \A s \in 1 .. (i - 1) : z.tensors[s].dense = DenseAt(s, rows)
    BY <1>2, <1>3, <2>2
  <2>4. i \in Computable
    BY <1>4
  <2> QED
    BY <1>1, <1>3, <1>6, <2>1, <2>3, <2>4, BorrowedAsBuilt
<1>7. ASSUME NEW j \in Computable, z.tensors[j].st # 0, ViewAt(j, z.tensors[j].rows),
      Source(j) \in D
      PROVE  j \in D
  <2>1. PICK s \in D : s = Source(j)
    BY <1>7
  <2>2. Borrows(j) /\ j \in Nodes
    BY <1>1, <1>5, <1>7, ViewSource
  <2>3. stage = "ready" /\ PlanSparesReaders
    BY <1>1, InvariantSpares DEF Known, ExecInv, Books
  <2>4. Released(j) /\ lastUse[s] >= lastUse[j]
    BY <1>4, <2>1, <2>2, <2>3 DEF PlanSparesReaders
  <2>5. lastUse[j] \in Nat /\ lastUse[j] >= j
    BY <1>1, <1>2, <2>2, <2>3, <2>4 DEF PlanSparesReaders, PlanTypeOK
  <2>6. lastUse[j] <= pos /\ lastUse[s] \in Nat /\ ~ReuseWorkspace
    BY <1>2, <1>4, <2>1, <2>4, <2>5
  <2>7. Chain(pos)[1] \in Nat
    BY FirstOfChain
  <2>8. CASE Chain(pos)[1] <= lastUse[j]
    BY <2>2, <2>4, <2>5, <2>6, <2>8, DueIfReleased
  <2>9. CASE lastUse[j] < Chain(pos)[1]
    <3>1. \A k \in 1 .. lastUse[j] : k \in 1 .. pos /\ k < Chain(pos)[1]
      BY <1>2, <2>5, <2>6, <2>7, <2>9
    <3>2. \A k \in 1 .. lastUse[j] : k \in computed
      BY <3>1, BeforeChain
    <3>3. tensors[j].st = 0
      BY <1>1, <2>2, <2>4, <2>6, <3>2 DEF ExecInv, FreedWhenDue, Running
    <3>4. j \in 1 .. lastUse[j]
      BY <1>5, <2>2, <2>5, <1>2
    <3>5. j \in computed
      BY <3>2, <3>4
    <3>6. j \notin Joined
      BY <1>2, <3>5, ChainFacts DEF Early
    <3> QED
      BY <1>3, <1>7, <2>2, <3>3, <3>6
  <2> QED
    BY <2>5, <2>7, <2>8, <2>9
<1>8. ASSUME NEW i \in D, z.tensors[i].st # 0, i \notin B PROVE i \in Materialized(z.tensors, D \ B)
  <2>1. i \in Nodes /\ i \in Computable /\ ~Bound(i) /\ z.tensors[i].rows = rows /\ ~ViewAt(i, rows)
    BY <1>4, <1>5, <1>6, <1>8
  <2>2. Settled(z, i)
    BY <1>3, <2>1 DEF Storage
  <2>3. z.tensors[i].st \in Buffers
    BY <1>8, <2>1, <2>2 DEF Settled
  <2>4. z.tensors[i].pooled /\ z.tensors[i].rows >= 1 /\ rows \in Nat
    BY <2>1, <2>2, <2>3, AtNodeFacts DEF Settled
  <2>5. z.tensors[i].rows > 0
    BY <2>1, <2>4
  <2> QED
    BY <1>8, <2>4, <2>5 DEF Materialized
<1>9. B \subseteq D /\ F \subseteq D
  BY DEF Materialized
<1>10. \A i \in D : z.tensors[i].st # 0 => i \in F
  BY <1>8
<1>11. \A i \in D : z.tensors[i].st # 0 => (i \in B <=> ViewAt(i, z.tensors[i].rows))
  BY <1>6
<1>12. D \subseteq Computable
  BY <1>4
<1> QED
  BY <1>7, <1>9, <1>10, <1>11, <1>12 DEF Returnable

-----------------------------------------------------------------------------
(* A node runs. *)

\* The workspace z the node made, what it wrote there, and what was left, q.
Ran(z, W, q) ==
    /\ Made(z) /\ GaveBack(z, DueAfter(pos), q)
    /\ tensors' = q.tensors /\ pool' = q.pool /\ holder' = z.holder
    /\ W \subseteq Joined /\ \A x \in W : z.tensors[x].st # 0
    /\ IF ViewAt(pos, rows) THEN W = {} ELSE pos \in W
    /\ \A x \in Joined : ~ViewAt(pos, rows) /\ Op(x) # "moe" /\ z.tensors[x].st # 0 => x \in W
    /\ \A b \in Buffers : (\A x \in W : z.tensors[x].st # b) => content'[b] = content[b]
    /\ \A i \in W \union {pos} : seen'[i] = Seeing(z.tensors, content', i)
    /\ \A i \in Nodes : i \notin W /\ i # pos => seen'[i] = seen[i]

LEMMA RunNodeRan ==
    ASSUME Known, RunNode
    PROVE  \E z, W, q : Ran(z, W, q)
<1>1. AtNode /\ ~Defers(pos)
  BY DEF RunNode
<1>2. PICK m \in 1 .. Len(Chain(pos)) :
         LET w == WithStorage(pos, m)
             source == Operand(tensors, pos)
             view == IsView(pos, source)
             ts == IF view THEN [w.tensors EXCEPT ![pos] = ViewOf(pos, source)] ELSE w.tensors
             written == IF view THEN {} ELSE Written(pos, m, ts)
             due == DueAfter(pos)
             borrowed == {i \in due : BorrowedView(ts, i)} IN
         /\ view \/ ts[pos].st # 0
         /\ content' = [b \in Buffers |->
                IF \E x \in written : ts[x].st = b
                THEN <<CHOOSE x \in written : ts[x].st = b, pass>> ELSE content[b]]
         /\ seen' = [i \in Nodes |->
                IF i \in written \union {pos} THEN Seeing(ts, content', i) ELSE seen[i]]
         /\ tensors' = Forgotten(ts, borrowed \union Materialized(ts, due \ borrowed))
         /\ pool' = Freed(w.pool, ts, due \ borrowed, TRUE)
         /\ holder' = w.holder
  BY DEF RunNode
<1>3. PICK w : w = WithStorage(pos, m)
  OBVIOUS
<1>4. PICK s : s = Operand(tensors, pos)
  OBVIOUS
<1>5. IsView(pos, s) <=> ViewAt(pos, rows)
  BY <1>1, <1>4, AtNodeFacts
<1>6. PICK ts : ts = IF IsView(pos, s) THEN [w.tensors EXCEPT ![pos] = ViewOf(pos, s)]
                     ELSE w.tensors
  OBVIOUS
<1>7. PICK W : W = IF IsView(pos, s) THEN {} ELSE Written(pos, m, ts)
  OBVIOUS
<1>8. PICK D : D = DueAfter(pos)
  OBVIOUS
<1>9. PICK B : B = {i \in D : BorrowedView(ts, i)}
  OBVIOUS
<1>10. /\ IsView(pos, s) \/ ts[pos].st # 0
       /\ content' = [b \in Buffers |->
                IF \E x \in W : ts[x].st = b
                THEN <<CHOOSE x \in W : ts[x].st = b, pass>> ELSE content[b]]
       /\ seen' = [i \in Nodes |->
                IF i \in W \union {pos} THEN Seeing(ts, content', i) ELSE seen[i]]
       /\ tensors' = Forgotten(ts, B \union Materialized(ts, D \ B))
       /\ pool' = Freed(w.pool, ts, D \ B, TRUE)
       /\ holder' = w.holder
  BY <1>2, <1>3, <1>4, <1>6, <1>7, <1>8, <1>9
<1>11. Stocked(w)
  BY <1>1, <1>3, WithStorageStocks
<1>12. PICK z : z = IF IsView(pos, s) THEN PutTensor(w, pos, ViewOf(pos, s)) ELSE w
  OBVIOUS
<1>13. z.tensors = ts /\ z.pool = w.pool /\ z.holder = w.holder
  BY <1>6, <1>12 DEF PutTensor
<1>14. Made(z)
  <2>1. CASE IsView(pos, s)
    BY <1>1, <1>4, <1>5, <1>11, <1>12, <2>1, ViewMakes
  <2>2. CASE ~IsView(pos, s)
    <3>1. z = w /\ w.tensors[pos].st # 0
      BY <1>6, <1>10, <1>12, <2>2
    <3> QED
      BY <1>1, <1>5, <1>11, <2>2, <3>1, KernelMakes
  <2> QED
    BY <2>1, <2>2
<1>15. PICK F : F = B \union Materialized(z.tensors, D \ B)
  OBVIOUS
<1>16. B = {i \in D : BorrowedView(z.tensors, i)}
  BY <1>9, <1>13
<1>17. Returnable(z, D, B, F)
  BY <1>1, <1>8, <1>14, <1>15, <1>16, DueReturnable
<1>18. PICK q : q = [pool |-> Freed(z.pool, z.tensors, D \ B, TRUE), holder |-> z.holder,
                     tensors |-> Forgotten(z.tensors, F)]
  OBVIOUS
<1>19. GaveBack(z, D, q)
  <2>1. PlanTypeOK /\ Served(graph, setup)
    BY DEF Known, PlanInv
  <2>2. Storage(z, Nodes)
    BY <1>14 DEF Made
  <2> QED
    BY <1>17, <1>18, <2>1, <2>2, GivenBack
<1>20. tensors' = q.tensors /\ pool' = q.pool /\ holder' = z.holder
  BY <1>10, <1>13, <1>15, <1>18
<1>21. /\ W \subseteq Joined /\ \A x \in W : z.tensors[x].st # 0
       /\ \A x \in Joined : ~ViewAt(pos, rows) /\ Op(x) # "moe" /\ z.tensors[x].st # 0 => x \in W
  BY <1>5, <1>7, <1>13 DEF Written, Joined
<1>22. IF ViewAt(pos, rows) THEN W = {} ELSE pos \in W
  <2>1. CASE ViewAt(pos, rows)
    BY <1>5, <1>7, <2>1
  <2>2. CASE ~ViewAt(pos, rows)
    <3>1. pos \in Joined /\ (Op(pos) = "moe" => Chain(pos) = <<pos>>)
      BY <1>1, ChainFacts DEF ChainOf
    <3>2. ts[pos].st # 0 /\ W = Written(pos, m, ts)
      BY <1>5, <1>7, <1>10, <2>2
    <3>3. pos \in W
      BY <3>1, <3>2 DEF Written, Joined
    <3> QED
      BY <2>2, <3>3
  <2> QED
    BY <2>1, <2>2
<1>23. \A b \in Buffers : (\A x \in W : z.tensors[x].st # b) => content'[b] = content[b]
  BY <1>10, <1>13
<1>24. W \union {pos} \subseteq Nodes
  BY <1>1, <1>21, ChainFacts, AtNodeFacts DEF Early, Computable
<1>25. /\ \A i \in W \union {pos} : seen'[i] = Seeing(z.tensors, content', i)
       /\ \A i \in Nodes : i \notin W /\ i # pos => seen'[i] = seen[i]
  BY <1>10, <1>13, <1>24
<1>26. Ran(z, W, q)
  BY <1>8, <1>14, <1>19, <1>20, <1>21, <1>22, <1>23, <1>25 DEF Ran
<1> QED
  BY <1>26

LEMMA RanStep ==
    ASSUME Known, RunNode, NEW z, NEW W, NEW q, Ran(z, W, q)
    PROVE  /\ AtNode /\ ~Defers(pos) /\ phase = "run" /\ PlanTypeOK /\ ExecInv
           /\ Served(graph, setup)
           /\ UNCHANGED <<graph, setup, stage, lastUse, keep, reclaims, phase, last, rows, pass,
                          failed, key, mode>>
           /\ computed' = computed \union Joined /\ pos' = pos + 1
           /\ waiting' = (IF Len(Chain(pos)) = 1 THEN waiting ELSE NoneWaiting)
           /\ Joined \subseteq Nodes \ computed /\ \A x \in Joined : ~Bound(x) /\ x \in 1 .. pos
           /\ \A j \in Nodes : /\ tensors'[j].dense = z.tensors[j].dense
                               /\ tensors'[j].rows = z.tensors[j].rows
                               /\ tensors'[j].st = 0 \/ tensors'[j] = z.tensors[j]
           /\ \A j \in Nodes : j \notin DueAfter(pos) => tensors'[j] = z.tensors[j]
           /\ \A j \in DueAfter(pos) : tensors'[j].st = 0
           /\ \A j \in Nodes : j \notin Joined => z.tensors[j] = tensors[j]
<1>1. AtNode /\ ~Defers(pos)
  BY DEF RunNode
<1>2. phase = "run" /\ PlanTypeOK /\ ExecInv /\ Served(graph, setup)
  BY <1>1 DEF Known, PlanInv, AtNode
<1>3. /\ UNCHANGED <<planVars, phase, last, rows, pass, failed, key, mode>>
      /\ computed' = computed \union Joined /\ pos' = pos + 1
      /\ waiting' = (IF Len(Chain(pos)) = 1 THEN waiting ELSE NoneWaiting)
  BY DEF RunNode, Joined
<1>4. UNCHANGED <<graph, setup, stage, lastUse, keep, reclaims>>
  BY <1>3 DEF planVars
<1>5. pos \in Nodes /\ pos \notin computed /\ ~Bound(pos) /\ pos \in Nat
      /\ Nodes = 1 .. Len(graph.ops)
      /\ Len(graph.ops) \in Nat
  BY <1>1, AtNodeFacts
<1>6. ASSUME NEW x \in Joined PROVE x \in Nodes /\ x \notin computed /\ ~Bound(x) /\ x \in 1 .. pos
  <2>1. x = pos \/ Early(x)
    BY <1>1, ChainFacts
  <2>2. CASE x = pos
    BY <1>5, <2>2
  <2>3. CASE Early(x)
    BY <1>5, <2>3 DEF Early, Computable
  <2> QED
    BY <2>1, <2>2, <2>3
<1>7. GaveBack(z, DueAfter(pos), q) /\ tensors' = q.tensors
  BY DEF Ran
<1>8. /\ \A j \in Nodes : /\ tensors'[j].dense = z.tensors[j].dense
                          /\ tensors'[j].rows = z.tensors[j].rows
                          /\ tensors'[j].st = 0 \/ tensors'[j] = z.tensors[j]
      /\ \A j \in Nodes : j \notin DueAfter(pos) => tensors'[j] = z.tensors[j]
      /\ \A j \in DueAfter(pos) : tensors'[j].st = 0
  BY <1>7 DEF GaveBack
<1>9. \A j \in Nodes : j \notin Joined => z.tensors[j] = tensors[j]
  BY DEF Ran, Made
<1> QED
  BY <1>1, <1>2, <1>3, <1>4, <1>6, <1>8, <1>9

LEMMA RanStored ==
    ASSUME Known, RunNode, NEW z, NEW W, NEW q, Ran(z, W, q)
    PROVE  Counters' /\ Stored' /\ BoundTensors'
<1>1. /\ AtNode /\ phase = "run" /\ PlanTypeOK /\ ExecInv
      /\ UNCHANGED <<graph, setup, phase, last, rows, pass, failed, key, mode>>
      /\ computed' = computed \union Joined /\ pos' = pos + 1
      /\ waiting' = (IF Len(Chain(pos)) = 1 THEN waiting ELSE NoneWaiting)
      /\ Joined \subseteq Nodes /\ \A x \in Joined : ~Bound(x)
      /\ \A j \in Nodes : j \notin DueAfter(pos) => tensors'[j] = z.tensors[j]
      /\ \A j \in Nodes : j \notin Joined => z.tensors[j] = tensors[j]
  BY RanStep
<1>2. pos \in Nodes /\ pos \in Nat /\ Nodes = 1 .. Len(graph.ops) /\ Len(graph.ops) \in Nat
  BY <1>1, AtNodeFacts
<1>3. Counters'
  <2>1. waiting' \in [{"gate", "up", "inject", "moe"} -> 0 .. Len(graph.ops)]
    <3>1. NoneWaiting \in [{"gate", "up", "inject", "moe"} -> 0 .. Len(graph.ops)]
      BY <1>2 DEF NoneWaiting
    <3> QED
      BY <1>1, <3>1 DEF ExecInv, Counters
  <2>2. pos' \in 1 .. (Len(graph.ops) + 1)
    BY <1>1, <1>2
  <2>3. computed' \subseteq Nodes
    BY <1>1 DEF ExecInv, Counters
  <2> QED
    BY <1>1, <2>1, <2>2, <2>3, GraphStays DEF ExecInv, Counters
<1>4. Stored'
  <2>1. Storage(q, Nodes) /\ q.holder = z.holder /\ pool' = q.pool /\ tensors' = q.tensors
        /\ holder' = z.holder
    BY DEF Ran, GaveBack
  <2>2. q \in Spaces
    BY <1>1, <2>1, StorageParts
  <2>3. Live' = Nodes
    BY <1>1, GraphStays DEF Live
  <2> QED
    BY <1>1, <2>1, <2>2, <2>3, StoredNext
<1>5. \A i \in Nodes : Bound(i) => tensors'[i] = tensors[i]
  <2>1. \A i \in DueAfter(pos) : ~Bound(i)
    BY <1>1, DueFacts DEF Computable
  <2> QED
    BY <1>1, <2>1
<1>6. BoundTensors'
  <2>1. \A i \in InputNodes : i \in Nodes /\ Bound(i)
    BY DEF InputNodes, Bound, IsInput, BoundOps
  <2> QED
    BY <1>1, <1>5, <2>1, GraphStays DEF ExecInv, BoundTensors
<1> QED
  BY <1>3, <1>4, <1>6

LEMMA RanShapes ==
    ASSUME Known, RunNode, NEW z, NEW W, NEW q, Ran(z, W, q)
    PROVE  CopiesAreStrided' /\ ShapedTensors' /\ Ahead'
<1>1. /\ AtNode /\ phase = "run" /\ PlanTypeOK /\ ExecInv
      /\ UNCHANGED <<graph, setup, phase, last, rows, pass, failed, key, mode>>
      /\ pos' = pos + 1 /\ \A x \in Joined : x \in 1 .. pos
      /\ \A j \in Nodes : /\ tensors'[j].dense = z.tensors[j].dense
                          /\ tensors'[j].rows = z.tensors[j].rows
                          /\ tensors'[j].st = 0 \/ tensors'[j] = z.tensors[j]
      /\ \A j \in Nodes : j \notin Joined => z.tensors[j] = tensors[j]
  BY RanStep
<1>2. /\ pos \in Nodes /\ pos \in Nat /\ Nodes = 1 .. Len(graph.ops) /\ Len(graph.ops) \in Nat
      /\ \A s \in 1 .. (pos - 1) : tensors[s].dense = DenseAt(s, rows)
  BY <1>1, AtNodeFacts
<1>3. /\ \A j \in Nodes : j # pos => /\ z.tensors[j].rows = tensors[j].rows
                                     /\ z.tensors[j].dense = tensors[j].dense
      /\ z.tensors[pos].rows = rows /\ z.tensors[pos].dense = DenseAt(pos, rows)
  BY DEF Ran, Made
<1>4. \A j \in Nodes : j > pos => /\ j # pos /\ j \notin Joined /\ z.tensors[j] = tensors[j]
                                  /\ tensors'[j].st = 0 \/ tensors'[j] = tensors[j]
                                  /\ tensors'[j].dense = tensors[j].dense
  BY <1>1, <1>2
<1>5. \A j \in 1 .. (pos - 1) : j \in Nodes /\ j # pos /\ tensors'[j].dense = DenseAt(j, rows)
  BY <1>1, <1>2, <1>3
<1>6. tensors'[pos].dense = DenseAt(pos, rows) /\ tensors'[pos].rows = rows
  BY <1>1, <1>2, <1>3
<1>7. \A j \in 1 .. (pos - 1) : ~Bound(j) => tensors'[j].rows = rows
  BY <1>1, <1>2, <1>3, <1>5 DEF ExecInv, ShapedTensors, Running
<1>8. ASSUME NEW i \in Computable, tensors'[i].st # 0 PROVE tensors'[i].rows = rows
  <2>1. i \in Nodes /\ ~Bound(i) /\ i \in Nat
    BY <1>2 DEF Computable
  <2>2. CASE i < pos
    <3>1. i \in 1 .. (pos - 1)
      BY <1>2, <2>1, <2>2
    <3> QED
      BY <1>7, <2>1, <3>1
  <2>3. CASE i = pos
    BY <1>6, <2>3
  <2>4. CASE i > pos
    <3>1. tensors'[i] = tensors[i] /\ tensors[i].st # 0
      BY <1>4, <1>8, <2>1, <2>4
    <3> QED
      BY <1>1, <3>1 DEF ExecInv, ShapedTensors, Running
  <2> QED
    BY <1>2, <2>1, <2>2, <2>3, <2>4
<1>9. CopiesAreStrided'
  BY <1>1, <1>4, <1>5, <1>6, <1>8, StepCopies
<1>10. ShapedTensors'
  <2>1. \A i \in 1 .. (pos' - 1) : i = pos \/ i \in 1 .. (pos - 1)
    BY <1>1, <1>2
  <2>2. \A i \in 1 .. (pos' - 1) : tensors'[i].dense = DenseAt(i, rows)
                                    /\ (~Bound(i) => tensors'[i].rows = rows)
    BY <1>5, <1>6, <1>7, <2>1
  <2>3. \A i \in 1 .. (pos' - 1) : tensors'[i].dense = DenseAt(i, rows)'
                                    /\ (~Bound(i)' => tensors'[i].rows = rows')
    BY <1>1, <2>2, GraphStays, ShapesStay
  <2>4. \A i \in Computable' : tensors'[i].st # 0 => tensors'[i].rows = rows'
    BY <1>1, <1>8, GraphStays
  <2> QED
    BY <2>3, <2>4 DEF ShapedTensors
<1>11. Ahead'
  <2>1. \A i \in Computable : i >= pos + 1 => i >= pos /\ i > pos /\ i \in Nodes
    BY <1>2 DEF Computable
  <2>2. \A i \in Computable : i >= pos + 1 /\ tensors'[i].st # 0
        => ReuseWorkspace /\ ~ViewAt(i, rows)
    BY <1>1, <1>4, <2>1 DEF ExecInv, Ahead, Running
  <2> QED
    BY <1>1, <2>2, GraphStays, ShapesStay, ReuseStays DEF Ahead
<1> QED
  BY <1>9, <1>10, <1>11

\* What the node and its chain computed themselves, they hold.
LEMMA JoinedOwn ==
    ASSUME Known, RunNode, NEW z, NEW W, NEW q, Ran(z, W, q),
           NEW y \in Joined, y # pos \/ ~ViewAt(pos, rows), z.tensors[y].st # 0
    PROVE  z.tensors[y].st \in Buffers /\ z.holder[z.tensors[y].st] = y
<1>1. AtNode /\ phase = "run" /\ ExecInv /\ y \in Nodes /\ ~Bound(y)
  BY RanStep
<1>2. Storage(z, Nodes) /\ z.tensors[pos].rows = rows
      /\ \A j \in Nodes : j # pos => z.tensors[j].rows = tensors[j].rows
  BY DEF Ran, Made
<1>3. z.tensors[y].rows = rows /\ ~ViewAt(y, rows)
  <2>1. CASE y = pos
    BY <1>2, <2>1
  <2>2. CASE y # pos
    <3>1. y \in 1 .. (pos - 1) /\ Op(y) \in {"matmul", "sigmoid", "inject", "moe"}
      BY <1>1, <2>2, ChainFacts DEF Early
    <3>2. tensors[y].rows = rows
      BY <1>1, <3>1 DEF ExecInv, ShapedTensors, Running
    <3> QED
      BY <1>1, <1>2, <2>2, <3>1, <3>2 DEF ViewAt
  <2> QED
    BY <2>1, <2>2
<1>4. Settled(z, y)
  BY <1>1, <1>2 DEF Storage
<1> QED
  BY <1>1, <1>3, <1>4 DEF Settled

LEMMA HeldAlready ==
    ASSUME Known, RunNode, NEW z, NEW W, NEW q, Ran(z, W, q),
           NEW i \in computed, tensors[i].st \in Buffers
    PROVE  /\ i \in Nodes /\ tensors[i].st \in Out(pool)
           /\ z.holder[tensors[i].st] \in computed
<1>1. phase = "run" /\ PlanTypeOK /\ ExecInv
  BY RanStep
<1>2. i \in Nodes
  BY <1>1 DEF ExecInv, Counters
<1>3. Settled(Workspace, i)
  BY <1>1, <1>2 DEF ExecInv, Stored, Storage, Live
<1>4. tensors[i].st \in Out(pool)
  BY <1>1, <1>3, WorkspaceKnown DEF Settled
<1>5. z.holder[tensors[i].st] = holder[tensors[i].st]
  BY <1>4 DEF Ran, Made
<1>6. holder[tensors[i].st] \in computed
  BY <1>1 DEF ExecInv, ComputedHolders, Running
<1> QED
  BY <1>2, <1>4, <1>5, <1>6

LEMMA RanHolders ==
    ASSUME Known, RunNode, NEW z, NEW W, NEW q, Ran(z, W, q)
    PROVE  ComputedHolders'
<1>1. /\ AtNode /\ phase = "run" /\ PlanTypeOK /\ ExecInv
      /\ computed' = computed \union Joined
      /\ Joined \subseteq Nodes \ computed
      /\ \A j \in Nodes : tensors'[j].st = 0 \/ tensors'[j] = z.tensors[j]
      /\ \A j \in Nodes : j \notin Joined => z.tensors[j] = tensors[j]
  BY RanStep
<1>2. holder' = z.holder
  BY DEF Ran
<1>3. 0 \notin Buffers
  BY BuffersAreNat DEF Buffers
<1>4. ASSUME NEW i \in computed, tensors'[i].st \in Buffers
      PROVE  holder'[tensors'[i].st] \in computed'
  <2>1. i \in Nodes
    BY <1>1 DEF ExecInv, Counters
  <2>2. tensors'[i] = tensors[i]
    BY <1>1, <1>3, <1>4, <2>1
  <2> QED
    BY <1>1, <1>2, <1>4, <2>2, HeldAlready
<1>5. ASSUME NEW i \in Joined, tensors'[i].st \in Buffers
      PROVE  holder'[tensors'[i].st] \in computed'
  <2>1. tensors'[i] = z.tensors[i] /\ z.tensors[i].st # 0 /\ i \in Nodes
    BY <1>1, <1>3, <1>5
  <2>2. CASE i # pos \/ ~ViewAt(pos, rows)
    BY <1>1, <1>2, <2>1, <2>2, JoinedOwn
  <2>3. CASE i = pos /\ ViewAt(pos, rows)
    <3>1. PICK s : s = Source(pos)
      OBVIOUS
    <3>2. z.tensors[i].st = tensors[s].st /\ s \in computed
      BY <2>3, <3>1 DEF Ran, Made
    <3> QED
      BY <1>1, <1>2, <1>5, <2>1, <3>2, HeldAlready
  <2> QED
    BY <2>2, <2>3
<1> QED
  BY <1>1, <1>4, <1>5 DEF ComputedHolders

LEMMA RanFreed ==
    ASSUME Known, RunNode, NEW z, NEW W, NEW q, Ran(z, W, q)
    PROVE  FreedWhenDue'
<1>1. /\ AtNode /\ ~Defers(pos) /\ phase = "run" /\ PlanTypeOK /\ ExecInv
      /\ UNCHANGED <<graph, setup, stage, lastUse, keep, reclaims, phase, rows, key>>
      /\ computed' = computed \union Joined
      /\ Joined \subseteq Nodes \ computed /\ \A x \in Joined : x \in 1 .. pos
      /\ \A j \in Nodes : tensors'[j].st = 0 \/ tensors'[j] = z.tensors[j]
      /\ \A j \in DueAfter(pos) : tensors'[j].st = 0
      /\ \A j \in Nodes : j \notin Joined => z.tensors[j] = tensors[j]
  BY RanStep
<1>2. stage = "ready" /\ PlanSparesReaders /\ LastUseComputed
  BY <1>1, InvariantSpares DEF Known, ExecInv, Books
<1>3. /\ pos \in Nat /\ Nodes = 1 .. Len(graph.ops) /\ Len(graph.ops) \in Nat
      /\ Chain(pos)[1] \in Nat
  BY <1>1, AtNodeFacts, FirstOfChain
<1>4. ASSUME ~ReuseWorkspace, NEW i \in Nodes, Released(i),
             \A j \in 1 .. lastUse[i] : j \in computed \union Joined
      PROVE  tensors'[i].st = 0
  <2>1. lastUse[i] \in Nat /\ lastUse[i] >= i /\ i \in Nat /\ i >= 1 /\ ~Bound(i)
    BY <1>1, <1>2, <1>3, <1>4 DEF PlanSparesReaders, PlanTypeOK, Released, Bound
  <2>2. i \in 1 .. lastUse[i] /\ lastUse[i] \in 1 .. lastUse[i]
    BY <2>1
  <2>3. CASE \A j \in 1 .. lastUse[i] : j \in computed
    <3>1. tensors[i].st = 0
      BY <1>1, <1>4, <2>3 DEF ExecInv, FreedWhenDue, Running
    <3>2. i \notin Joined
      BY <1>1, <2>2, <2>3
    <3> QED
      BY <1>1, <3>1, <3>2
  <2>4. CASE \E j \in 1 .. lastUse[i] : j \notin computed
    <3>1. PICK j \in 1 .. lastUse[i] : j \in Joined
      BY <1>4, <2>4
    <3>2. Chain(pos)[1] <= j
      BY <1>1, <3>1, ChainFacts
    <3>3. Chain(pos)[1] <= lastUse[i]
      BY <1>3, <2>1, <3>1, <3>2
    <3>4. ~Bound(lastUse[i])
      BY <1>2, <2>1 DEF LastUseComputed
    <3>5. lastUse[i] \in computed \union Joined
      BY <1>4, <2>2
    <3>6. lastUse[i] <= pos
      <4>1. computed \subseteq {k \in Nodes : Bound(k)} \union 1 .. (pos - 1)
        BY <1>1 DEF ExecInv, Books, Running
      <4> QED
        BY <1>1, <1>3, <2>1, <3>4, <3>5, <4>1
    <3>7. i \in DueAfter(pos)
      BY <1>1, <1>4, <2>1, <3>3, <3>6, DueIfReleased
    <3> QED
      BY <1>1, <3>7
  <2> QED
    BY <2>3, <2>4
<1> QED
  BY <1>1, <1>4, GraphStays, ReuseStays DEF FreedWhenDue, Released

\* What somebody may still need is not due.
LEMMA NeededNotDue ==
    ASSUME Known, RunNode, NEW z, NEW W, NEW q, Ran(z, W, q), NEW x \in Nodes,
           \/ Exposed(x) \/ (mode = "stop" /\ x = last)
           \/ \E j \in Nodes \ (computed \union Joined) : x \in Reads(j)
    PROVE  x \notin DueAfter(pos)
<1>1. /\ AtNode /\ ~Defers(pos) /\ phase = "run" /\ PlanTypeOK /\ ExecInv /\ Served(graph, setup)
  BY RanStep
<1>2. stage = "ready" /\ PlanSparesReaders /\ LastUseComputed
  BY <1>1, InvariantSpares DEF Known, ExecInv, Books
<1>3. pos \in Nat /\ Nodes = 1 .. Len(graph.ops) /\ Len(graph.ops) \in Nat
  BY <1>1, AtNodeFacts
<1>4. SUFFICES ASSUME x \in DueAfter(pos) PROVE FALSE
  OBVIOUS
<1>5. Released(x) /\ lastUse[x] \in Nat /\ lastUse[x] <= pos
  BY <1>1, <1>4, DueFacts
<1>6. CASE Exposed(x)
  BY <1>2, <1>5, <1>6 DEF PlanSparesReaders, Exposed
<1>7. CASE mode = "stop" /\ x = last
  <2>1. "stop" \in setup.modes /\ last \in FirstStateful
    BY <1>1, <1>7 DEF ExecInv, Books, Running
  <2>2. ~setup.conservative
    BY <1>1, <2>1 DEF Served
  <2>3. \E i \in Nodes : Stateful(i)
    BY <2>1 DEF FirstStateful
  <2>4. Unplannable
    BY <2>2, <2>3 DEF Unplannable
  <2> QED
    BY <1>2, <1>5, <2>4 DEF LastUseComputed, Released
<1>8. CASE \E j \in Nodes \ (computed \union Joined) : x \in Reads(j)
  <2>1. PICK j \in Nodes : j \notin computed \union Joined /\ x \in Reads(j)
    BY <1>8
  <2>2. lastUse[x] >= j
    BY <1>2, <1>5, <2>1 DEF PlanSparesReaders
  <2>3. j = pos \/ j \in 1 .. (pos - 1)
    BY <1>3, <1>5, <2>1, <2>2
  <2> QED
    BY <1>1, <2>1, <2>3, BeforeChain, FirstOfChain
<1> QED
  BY <1>6, <1>7, <1>8

LEMMA RanValues ==
    ASSUME Known, RunNode, NEW z, NEW W, NEW q, Ran(z, W, q)
    PROVE  Values'
<1>1. /\ AtNode /\ phase = "run" /\ phase' = "run" /\ PlanTypeOK /\ ExecInv
      /\ UNCHANGED <<graph, setup, last, mode>>
      /\ computed' = computed \union Joined
      /\ Joined \subseteq Nodes \ computed
      /\ \A j \in Nodes : j \notin DueAfter(pos) => tensors'[j] = z.tensors[j]
      /\ \A j \in Nodes : j \notin Joined => z.tensors[j] = tensors[j]
  BY RanStep
<1>2. /\ tensors' = q.tensors /\ pool' = q.pool /\ Storage(q, Nodes)
      /\ W \subseteq Joined /\ z.tensors[pos].st # 0
      /\ IF ViewAt(pos, rows) THEN W = {} ELSE pos \in W
      /\ \A y \in W : z.tensors[y].st # 0
      /\ \A b \in Buffers : (\A y \in W : z.tensors[y].st # b) => content'[b] = content[b]
      /\ \A i \in W \union {pos} : seen'[i] = Seeing(z.tensors, content', i)
      /\ \A i \in Nodes : i \notin W /\ i # pos => seen'[i] = seen[i]
      /\ \A i \in Joined : ~ViewAt(pos, rows) /\ Op(i) # "moe" /\ z.tensors[i].st # 0 => i \in W
      /\ \A j \in Nodes : j # pos /\ tensors[j].st # 0 => z.tensors[j] = tensors[j]
  BY DEF Ran, Made, GaveBack
<1>3. pos \in Joined /\ pos \in Nodes /\ pos \notin computed
  BY <1>1, AtNodeFacts, FirstOfChain
<1>4. \A i \in Nodes : tensors'[i].st \in Buffers => tensors'[i].st \in pool'.active
  <2>1. \A i \in Nodes : Settled(q, i)
    BY <1>2 DEF Storage
  <2> QED
    BY <1>2, <2>1 DEF Settled, Out
<1>5. Buffers' = Buffers
  BY DEF Buffers
<1>6. ASSUME NEW i \in W \union {pos}, i \notin DueAfter(pos) PROVE Intact(i)'
  <2>1. i \in Nodes /\ z.tensors[i].st # 0 /\ tensors'[i] = z.tensors[i]
    BY <1>1, <1>2, <1>3, <1>6
  <2>3. seen'[i] = Seeing(z.tensors, content', i)
    BY <1>2
  <2>4. seen'[i] = [st |-> z.tensors[i].st, content |-> Content(content', z.tensors[i].st)]
    BY <2>3 DEF Seeing
  <2>2. seen'[i].st = tensors'[i].st /\ seen'[i].content = Content(content', tensors'[i].st)
    BY <2>1, <2>4
  <2> QED
    BY <1>4, <1>5, <2>1, <2>2 DEF Intact, Content
<1>7. ASSUME NEW x \in computed, Needed(x), x \notin DueAfter(pos) PROVE Intact(x)'
  <2>1. x \in Nodes /\ Intact(x)
    BY <1>1, <1>7 DEF ExecInv, Counters, Values
  <2>2. x \notin Joined /\ x \notin W /\ x # pos
    BY <1>1, <1>2, <1>3
  <2>3. tensors'[x] = tensors[x] /\ seen'[x] = seen[x]
    BY <1>1, <1>2, <1>7, <2>1, <2>2
  <2>4. Content(content', tensors[x].st) = Content(content, tensors[x].st)
    <3>1. CASE tensors[x].st \in Buffers
      <4>1. z.holder[tensors[x].st] \in computed
        BY <3>1, HeldAlready
      <4>2. ASSUME NEW y \in W PROVE z.tensors[y].st # tensors[x].st
        <5>1. y \in Joined /\ ~ViewAt(pos, rows) /\ z.tensors[y].st # 0
          BY <1>2
        <5>2. z.holder[z.tensors[y].st] = y /\ y \notin computed
          BY <1>1, <5>1, JoinedOwn
        <5> QED
          BY <4>1, <5>2
      <4>3. content'[tensors[x].st] = content[tensors[x].st]
        BY <1>2, <3>1, <4>2
      <4> QED
        BY <4>3 DEF Content
    <3>2. CASE tensors[x].st \notin Buffers
      BY <3>2 DEF Content
    <3> QED
      BY <3>1, <3>2
  <2> QED
    BY <1>4, <1>5, <2>1, <2>3, <2>4 DEF Intact, Content
<1>8. ASSUME NEW x \in computed', Needed(x)' PROVE Intact(x)'
  <2>1. \/ Exposed(x) \/ (mode = "stop" /\ x = last)
        \/ \E j \in Nodes \ (computed \union Joined) : x \in Reads(j)
    BY <1>1, <1>8, GraphStays DEF Needed
  <2>2. x \in Nodes
    BY <1>1 DEF ExecInv, Counters
  <2>3. x \notin DueAfter(pos)
    BY <2>1, <2>2, NeededNotDue
  <2>4. CASE x \in computed
    <3>1. Needed(x)
      BY <2>1 DEF Needed
    <3> QED
      BY <1>7, <2>3, <2>4, <3>1
  <2>5. CASE x = pos
    BY <1>6, <2>3, <2>5
  <2>6. CASE x \in Joined /\ x # pos
    <3>1. Early(x)
      BY <1>1, <2>6, ChainFacts
    <3>2. Op(x) = "inject" /\ tensors[x].st # 0
      BY <2>1, <3>1 DEF Early
    <3>3. ~ViewAt(pos, rows)
      BY <3>1 DEF Early, ViewAt
    <3>4. z.tensors[x].st # 0
      BY <1>2, <2>2, <2>6, <3>2
    <3>5. x \in W
      BY <1>2, <2>6, <3>2, <3>3, <3>4
    <3> QED
      BY <1>6, <2>3, <3>5
  <2> QED
    BY <1>1, <2>4, <2>5, <2>6
<1> QED
  BY <1>1, <1>8 DEF Values

LEMMA RanBooks ==
    ASSUME Known, RunNode, NEW z, NEW W, NEW q, Ran(z, W, q)
    PROVE  Books' /\ ChainBooks'
<1>1. /\ AtNode /\ ~Defers(pos) /\ phase = "run" /\ PlanTypeOK /\ ExecInv
      /\ UNCHANGED <<graph, setup, stage, phase, last, rows, pass, failed, key, mode>>
      /\ computed' = computed \union Joined /\ pos' = pos + 1
      /\ waiting' = (IF Len(Chain(pos)) = 1 THEN waiting ELSE NoneWaiting)
      /\ Joined \subseteq Nodes /\ \A x \in Joined : x \in 1 .. pos
  BY RanStep
<1>2. pos \in Nat
  BY <1>1, AtNodeFacts
<1>3. computed' \subseteq {i \in Nodes : Bound(i)} \union 1 .. (pos' - 1)
  <2>1. computed \subseteq {i \in Nodes : Bound(i)} \union 1 .. (pos - 1)
    BY <1>1 DEF ExecInv, Books, Running
  <2>2. 1 .. (pos - 1) \subseteq 1 .. (pos' - 1) /\ 1 .. pos = 1 .. (pos' - 1)
    BY <1>1, <1>2
  <2> QED
    BY <1>1, <2>1, <2>2
<1>4. {i \in Nodes : Bound(i)} \subseteq computed'
  BY <1>1 DEF ExecInv, Books, Running
<1>5. Books'
  BY <1>1, <1>3, <1>4, GraphStays DEF ExecInv, Books, Running
<1>6. waiting' = NoneWaiting
  BY <1>1, BeforeChain DEF NothingAwaited
<1>7. 0 \notin computed'
  <2>1. Nodes = 1 .. Len(graph.ops) /\ Len(graph.ops) \in Nat
    BY <1>1, AtNodeFacts
  <2>2. 0 \notin Nodes
    BY <2>1
  <2> QED
    BY <1>1, <2>2 DEF ExecInv, Counters
<1>8. /\ waiting'.inject = 0 /\ waiting'.moe = 0 /\ waiting'.gate = 0 /\ waiting'.up = 0
      /\ NoneWaiting' = NoneWaiting
  BY <1>6 DEF NoneWaiting
<1>9. Awaited' \intersect computed' = {}
  BY <1>7, <1>8 DEF Awaited
<1> QED
  BY <1>5, <1>6, <1>8, <1>9 DEF ChainBooks

LEMMA RunNodeExec ==
    ASSUME Known, RunNode
    PROVE  ExecInv'
<1>1. PICK z, W, q : Ran(z, W, q)
  BY RunNodeRan
<1>2. Counters' /\ Stored' /\ BoundTensors'
  BY <1>1, RanStored
<1>3. CopiesAreStrided' /\ ShapedTensors' /\ Ahead'
  BY <1>1, RanShapes
<1>4. ComputedHolders' /\ FreedWhenDue' /\ Values' /\ Books' /\ ChainBooks'
  BY <1>1, RanHolders, RanFreed, RanValues, RanBooks
<1>5. KeptStorage' /\ StaleInputs'
  <2>1. phase' = "run"
    BY <1>1, RanStep
  <2> QED
    BY <2>1 DEF KeptStorage, StaleInputs
<1> QED
  BY <1>2, <1>3, <1>4, <1>5 DEF ExecInv

-----------------------------------------------------------------------------
(* The invariant. *)

LEMMA NullTensor ==
    ASSUME PlanTypeOK
    PROVE  /\ Null \in Tensor
           /\ \A i \in Nodes : [st |-> External(i), pooled |-> FALSE, rows |-> 1,
                dense |-> TRUE] \in Tensor
                               /\ External(i) \notin Buffers /\ External(i) # 0
<1>1. NBuffers \in Nat /\ MaxBytes \in Nat /\ MaxBytes >= 1
  BY BuffersAreNat, PoolAssumption
<1>2. Nodes = 1 .. Len(graph.ops) /\ Len(graph.ops) \in Nat
  BY Loaded
<1>3. Null \in Tensor
  BY <1>1, <1>2 DEF Null, Tensor
<1>4. ASSUME NEW i \in Nodes
      PROVE  /\ [st |-> External(i), pooled |-> FALSE, rows |-> 1, dense |-> TRUE] \in Tensor
             /\ External(i) \notin Buffers /\ External(i) # 0
  <2>1. External(i) \in 0 .. (NBuffers + Len(graph.ops))
    BY <1>1, <1>2 DEF External
  <2>2. External(i) \notin Buffers /\ External(i) # 0
    BY <1>1, <1>2 DEF External, Buffers
  <2> QED
    BY <1>1, <2>1, <2>2 DEF Tensor
<1> QED
  BY <1>3, <1>4

LEMMA InitStored ==
    ASSUME Init, PlanTypeOK
    PROVE  Stored
<1>1. /\ tensors = [i \in Nodes |->
             IF Op(i) \in {"constant", "cache"}
             THEN [st |-> External(i), pooled |-> FALSE, rows |-> 1, dense |-> TRUE] ELSE Null]
      /\ pool = EmptyPool /\ holder = [b \in Buffers |-> 0] /\ phase = "idle"
  BY DEF Init
<1>2. Workspace.pool = pool /\ Workspace.holder = holder /\ Workspace.tensors = tensors
  BY DEF Workspace
<1>3. tensors \in [Nodes -> Tensor]
  BY <1>1, NullTensor
<1>4. PoolBooks(pool) /\ Out(pool) = {}
  BY <1>1, EmptyPoolBooks
<1>5. Workspace \in Spaces
  <2>1. pool \in PoolRecords
    BY <1>4 DEF PoolBooks, PoolRecords
  <2>2. holder \in [Buffers -> Nodes \union {0}]
    BY <1>1
  <2> QED
    BY <1>3, <2>1, <2>2 DEF Workspace, Spaces
<1>6. ASSUME NEW i \in Live PROVE Settled(Workspace, i)
  <2>1. i \in Nodes /\ ~Bound(i)
    BY <1>1, <1>6 DEF Live, Computable
  <2>2. tensors[i] = Null
    BY <1>1, <2>1 DEF Bound, BoundOps
  <2>3. tensors[i].st = 0 /\ 0 \notin Buffers
    BY <2>2, BuffersAreNat DEF Null, Buffers
  <2> QED
    BY <1>2, <2>1, <2>3 DEF Settled
<1> QED
  BY <1>2, <1>4, <1>5, <1>6 DEF Stored, Storage

LEMMA InitKnown ==
    ASSUME Init, CasesServed
    PROVE  Known
<1>1. PlanInv /\ PlanTypeOK
  BY PlanInitInv DEF Init, PlanInv
<1>2. Served(graph, setup)
  BY <1>1 DEF CasesServed, PlanTypeOK
<1>3. reclaims = FALSE /\ stage = "inspect"
      /\ lastUse = [i \in DOMAIN graph.ops |-> 0]
  BY DEF Init, PlanInit
<1>4. Nodes = 1 .. Len(graph.ops) /\ Len(graph.ops) \in Nat /\ MaxBytes \in Nat
  BY <1>1, Loaded, PoolAssumption
<1>5. LastUseComputed
  BY <1>3 DEF LastUseComputed, Nodes
<1>6. DeferInv
  BY DEF Init, DeferInv
<1>7. /\ phase = "idle" /\ computed = {} /\ pos = 1 /\ last = 0 /\ waiting = NoneWaiting
      /\ rows = 0 /\ pass = 0 /\ failed = FALSE /\ key = 0 /\ mode = "whole"
      /\ tensors = [i \in Nodes |->
             IF Op(i) \in {"constant", "cache"}
             THEN [st |-> External(i), pooled |-> FALSE, rows |-> 1, dense |-> TRUE] ELSE Null]
      /\ pool = EmptyPool
  BY DEF Init
<1>8. Counters
  <2>1. NoneWaiting \in [{"gate", "up", "inject", "moe"} -> 0 .. Len(graph.ops)]
    BY <1>4 DEF NoneWaiting
  <2>2. setup.passes \in Nat
    BY <1>1, ExecutionAssumption DEF PlanTypeOK
  <2>3. computed \subseteq Nodes /\ pos \in 1 .. (Len(graph.ops) + 1)
        /\ last \in 0 .. Len(graph.ops)
    BY <1>4, <1>7
  <2>4. rows \in 0 .. MaxBytes /\ key \in 0 .. MaxBytes /\ pass \in 0 .. setup.passes
    BY <1>4, <1>7, <2>2
  <2>5. failed \in BOOLEAN /\ mode \in {"whole", "stop", "segment"}
        /\ phase \in {"idle", "bound", "run", "suspended", "over"}
    BY <1>7
  <2> QED
    BY <1>7, <2>1, <2>3, <2>4, <2>5 DEF Counters
<1>9. \A i \in Nodes : tensors[i].dense
  BY <1>7 DEF Null
<1>10. \A i \in Computable : tensors[i].st = 0
  BY <1>7 DEF Computable, Bound, BoundOps, Null
<1>11. \A i \in InputNodes : tensors[i].st = 0
  BY <1>7 DEF InputNodes, IsInput, Null
<1>12. BoundTensors
  <2>1. ASSUME NEW i \in Nodes, Bound(i), ~IsInput(i)
        PROVE  tensors[i].st = External(i) /\ ~tensors[i].pooled
    BY <1>7, <2>1 DEF Bound, BoundOps, IsInput
  <2> QED
    BY <1>7, <1>9, <2>1 DEF BoundTensors
<1>13. CopiesAreStrided
  <2>1. \A i \in Nodes : Op(i) \in {"reshape", "contiguous"} => i \in Computable
    BY DEF Computable, Bound, BoundOps
  <2> QED
    BY <1>10, <2>1 DEF CopiesAreStrided
<1>14. KeptStorage /\ StaleInputs
  <2>1. Out(pool) = {}
    BY <1>7, EmptyPoolBooks
  <2> QED
    BY <1>10, <2>1 DEF KeptStorage, StaleInputs
<1>15. ShapedTensors /\ Ahead /\ ComputedHolders /\ FreedWhenDue /\ Values /\ Books /\ ChainBooks
  BY <1>7 DEF ShapedTensors, Ahead, ComputedHolders, FreedWhenDue, Values, Books, ChainBooks,
     Running
<1>16. ExecInv
  BY <1>1, <1>8, <1>12, <1>13, <1>14, <1>15, InitStored DEF ExecInv
<1> QED
  BY <1>1, <1>2, <1>5, <1>6, <1>16 DEF Known

LEMMA PlanKeeps ==
    ASSUME PlanInv, [Next]_vars
    PROVE  PlanInv'
<1>1. PlanNext \/ UNCHANGED planVars
  BY StepsOfThePlan DEF vars
<1>2. CASE PlanNext
  BY <1>2, InspectInv, CountUsesInv, LengthenInv, ProtectInv, RetainInv DEF PlanNext
<1>3. CASE UNCHANGED planVars
  BY <1>3, PlanStutterInv
<1> QED
  BY <1>1, <1>2, <1>3

LEMMA DeferKeeps ==
    ASSUME PlanTypeOK, DeferInv, [Next]_vars
    PROVE  DeferInv'
  BY StartKeeps, PassInputKeeps, DeferNodeKeeps, RunNodeKeeps, EndPassKeeps, PausedKeeps
     DEF Next

LEMMA ExecKeeps ==
    ASSUME Known, [Next]_vars
    PROVE  ExecInv'
<1>1. CASE Prepare
  BY <1>1, PrepareExec DEF Prepare
<1>2. CASE \E r \in setup.rows : BindInputs(r)
  BY <1>2, BindInputsExec
<1>3. CASE BeginWhole \/ BeginStopped \/ BeginSegment
  BY <1>3, StartExec
<1>4. CASE PassInput \/ DeferNode \/ RunNode \/ FailNode
  BY <1>4, PassInputExec, DeferNodeExec, RunNodeExec, FailNodeExec
<1>5. CASE EndPass \/ Resume \/ Abandon
  BY <1>5, EndPassExec, ResumeExec, AbandonExec
<1>6. CASE Finish \/ ReleaseBuffers
  BY <1>6, FinishExec, ReleaseBuffersExec
<1>7. CASE UNCHANGED vars
  BY <1>7, StutterExec
<1> QED
  BY <1>1, <1>2, <1>3, <1>4, <1>5, <1>6, <1>7 DEF Next

LEMMA KnownKeeps ==
    ASSUME Known, [Next]_vars
    PROVE  Known'
<1>1. PlanInv /\ PlanTypeOK /\ DeferInv /\ Served(graph, setup) /\ LastUseComputed
  BY DEF Known, PlanInv
<1>2. PlanNext \/ UNCHANGED planVars
  BY StepsOfThePlan DEF vars
<1>3. UNCHANGED <<graph, setup>>
  BY <1>2 DEF PlanNext, Inspect, CountUses, Lengthen, Protect, Retain, planVars
<1>4. Served(graph, setup)'
  BY <1>1, <1>3 DEF Served
<1>5. PlanInv' /\ LastUseComputed' /\ DeferInv' /\ ExecInv'
  BY <1>1, <1>2, PlanKeeps, LastUseKeeps, DeferKeeps, ExecKeeps
<1> QED
  BY <1>4, <1>5 DEF Known

LEMMA AlwaysKnown == CasesServed /\ Spec => []Known
<1>1. CasesServed /\ Init => Known
  BY InitKnown
<1>2. Known /\ [Next]_vars => Known'
  BY KnownKeeps
<1> QED
  BY <1>1, <1>2, PTL DEF Spec

(***************************************************************************)
(* What execute_graph_impl and the engine record - tensors, pool, cursors  *)
(* and keys - stays typed, through every plan, fusion, failure and         *)
(* suspension of a context the program builds (CasesServed).               *)
(***************************************************************************)
THEOREM ExecutionTypeCorrect == CasesServed /\ Spec => []TypeOK
<1>1. Known => TypeOK
  <2> SUFFICES ASSUME Known PROVE TypeOK
    OBVIOUS
  <2>1. PlanTypeOK /\ ExecInv /\ Counters
    BY DEF Known, PlanInv, ExecInv
  <2>2. /\ tensors \in [Nodes -> Tensor] /\ pool \in PoolRecords
        /\ holder \in [Buffers -> Nodes \union {0}]
    BY <2>1, WorkspaceKnown
  <2>3. pass \in 0 .. MaxPasses
    <3>1. setup.passes \in 0 .. MaxPasses /\ MaxPasses \in Nat
      BY <2>1, ExecutionAssumption DEF PlanTypeOK
    <3> QED
      BY <2>1, <3>1 DEF Counters
  <2>4. \A i \in Nodes :
           /\ tensors[i].st \in 0 .. (NBuffers + Len(graph.ops))
           /\ tensors[i].pooled \in BOOLEAN /\ tensors[i].dense \in BOOLEAN
           /\ tensors[i].rows \in 0 .. MaxBytes
    BY <2>2 DEF Tensor
  <2>5. pool.active \subseteq Buffers /\ pool.size \in [Buffers -> Sizes]
    BY <2>2 DEF PoolRecords
  <2> QED
    BY <2>1, <2>2, <2>3, <2>4, <2>5 DEF TypeOK, Counters
<1> QED
  BY <1>1, AlwaysKnown, PTL

(***************************************************************************)
(* No buffer is returned twice, by the wrong pool or in the wrong bucket,  *)
(* and each one out is held by the tensor it was acquired for: a pass's    *)
(* start, its release batches and the engine's cleanup take the same nodes *)
(* for views, in every context with CasesServed.                           *)
(***************************************************************************)
THEOREM BuffersHaveOneOwner == CasesServed /\ Spec => []OwnersAreExact
<1>1. Known => OwnersAreExact
  <2> SUFFICES ASSUME Known PROVE OwnersAreExact
    OBVIOUS
  <2>1. PlanTypeOK /\ ExecInv
    BY DEF Known, PlanInv
  <2>2. PoolBooks(pool) /\ Storage(Workspace, Live) /\ Workspace.pool = pool
        /\ Workspace.holder = holder /\ Workspace.tensors = tensors
    BY <2>1, WorkspaceKnown
  <2>3. ASSUME NEW b \in Out(pool) PROVE tensors[holder[b]].st = b /\ holder[b] # 0
    <3>1. holder[b] \in Live /\ tensors[holder[b]].st = b
      BY <2>2 DEF Storage
    <3>2. 0 \notin Nodes /\ Live \subseteq Nodes
      BY <2>1, Loaded DEF Live, Computable
    <3> QED
      BY <3>1, <3>2
  <2>4. ~pool.misuse
    BY <2>2 DEF PoolBooks
  <2> QED
    BY <2>3, <2>4 DEF OwnersAreExact, Out
<1> QED
  BY <1>1, AlwaysKnown, PTL

(***************************************************************************)
(* Through every deferral, fusion, view, release and reuse of the          *)
(* executor, a computed tensor somebody still needs has its storage,       *)
(* nothing else was written there, and what was written fits.  CasesServed *)
(* excludes a failed pass before a reuse of the workspace, which breaks it *)
(* (WorkspaceHasItsShape).                                                 *)
(***************************************************************************)
THEOREM NeededValuesSurvive == CasesServed /\ Spec => []LiveValuesIntact
<1>1. Known => LiveValuesIntact
  <2> SUFFICES ASSUME Known, InPass, NEW x \in computed
               PROVE  Fits(x) /\ (Needed(x) => Intact(x))
    BY DEF LiveValuesIntact
  <2>1. PlanTypeOK /\ ExecInv /\ phase # "idle"
    BY DEF Known, PlanInv, InPass
  <2>2. x \in Nodes
    BY <2>1 DEF ExecInv, Counters
  <2>3. Settled(Workspace, x) /\ Workspace.pool = pool /\ Workspace.tensors = tensors
    BY <2>1, <2>2, WorkspaceKnown DEF Storage, Live
  <2>4. Fits(x)
    BY <2>3 DEF Settled, Fits
  <2>5. Needed(x) => Intact(x)
    BY <2>1 DEF ExecInv, Values, InPass
  <2> QED
    BY <2>4, <2>5
<1> QED
  BY <1>1, AlwaysKnown, PTL
=============================================================================
