--------------------------- MODULE DagGeneration ---------------------------
(* Generation of DAG workflows (pkg/generator/dag_generation.go).  A DAG is  *)
(* a list of nodes; a node has branches, which are lists of their own.  In   *)
(* this module a DAG is a sequence of lists, the first of which is the list   *)
(* the driver walks, and a node's branches are indices into it.  Lists are    *)
(* made of placeholders, and a queue of the nodes that have a function but no *)
(* child yet drives the assignment.                                          *)
EXTENDS Integers, Sequences, FiniteSets

CONSTANTS MaxWidth, MaxDepth  \* bounds on configured and on sampled shapes

ASSUME DagAssumption == MaxWidth \in Nat \ {0} /\ MaxDepth \in Nat \ {0}

VARIABLES
  dagPC,          \* "off", "shape", "build" or "done"
  numFunctions,   \* len(functions)
  dataset,        \* EnableDAGDataset
  width, depth,   \* shape of the DAG being built
  stages,         \* number of nodes at each depth, as drawn
  widthList,      \* nodes that each depth still lacks
  functionIndex,  \* the next function to be used
  dag,            \* the lists of the DAG being built
  nodeQueue,      \* positions <<list, place>> in it
  totalDAGList    \* the finished DAGs

dagVars == <<dagPC, numFunctions, dataset, width, depth, stages, widthList, functionIndex,
             dag, nodeQueue, totalDAGList>>

Node(f, d) == [function |-> f, depth |-> d, branches |-> <<>>]
Placeholder == Node(-1, -1)
Place(e) == dag[e[1]][e[2]]

\* The nodes of a DAG, as positions.
Places(lists) == UNION {{<<l, k>> : k \in 1 .. Len(lists[l])} : l \in 1 .. Len(lists)}

\* The root forgotten.
MaxSize_NoRoot(w, d) == (d - 1) * w

\* The most functions that a DAG of this shape can need.
MaxSize(w, d) == (d - 1) * w + 1

DagInit ==
  /\ dagPC = "off" /\ dataset \in BOOLEAN
  /\ width \in 1 .. MaxWidth /\ depth \in 1 .. MaxDepth
  /\ stages = <<>> /\ widthList = <<>> /\ functionIndex = 0
  /\ dag = <<>> /\ nodeQueue = <<>> /\ totalDAGList = <<>>

(* getDAGStats draws shapes until one fits the functions, and after ten      *)
(* tries makes a chain of all functions.                                    *)
Shapes == (1 .. MaxWidth) \X (1 .. MaxDepth)
Fits(s) == MaxSize(s[1], s[2]) <= numFunctions
getDAGStats ==
  {s \in Shapes : Fits(s)} \cup (IF \A s \in Shapes : Fits(s) THEN {} ELSE {<<1, numFunctions>>})

\* The shape of the next DAG.
NextShape == IF dataset THEN getDAGStats ELSE {<<width, depth>>}

(* generateNodeDistribution: never fewer nodes than the stage before; the    *)
(* last stage has maxWidth.  Sequences start at 1, so stage i has depth      *)
(* i - 1.                                                                    *)
generateNodeDistribution(w, d) ==
  {s \in [1 .. d -> 1 .. w] :
     /\ s[1] = 1 /\ s[d] = w
     /\ \A i \in 2 .. d - 1 : s[i] >= s[i - 1]}

Finish(lists, s) ==
  Append(totalDAGList, [lists |-> lists, width |-> s[1], depth |-> s[2], stages |-> stages'])

(* One iteration of GenerateDAGs up to the queue of createDAGWorkflow.       *)
StartDAG ==
  /\ dagPC = "shape"
  /\ \E s \in NextShape :
       /\ numFunctions - functionIndex >= MaxSize(s[1], s[2])
       /\ width' = s[1] /\ depth' = s[2]
       /\ functionIndex' = functionIndex + 1
       /\ IF s[2] = 1
          THEN /\ stages' = <<1>>
               /\ totalDAGList' = Finish(<<<<Node(functionIndex, 0)>>>>, s)
               /\ UNCHANGED <<dagPC, widthList, dag, nodeQueue>>
          ELSE /\ stages' \in generateNodeDistribution(s[1], s[2])
               /\ widthList' = [i \in 1 .. s[2] |-> stages'[i] - 1]
               /\ dag' = <<[i \in 1 .. s[2] |-> IF i = 1 THEN Node(functionIndex, 0) ELSE Placeholder]>>
               /\ nodeQueue' = <<<<1, 1>>>>
               /\ dagPC' = "build"
               /\ UNCHANGED totalDAGList
  /\ UNCHANGED <<numFunctions, dataset>>

NoMoreDAGs ==
  /\ dagPC = "shape"
  /\ \E s \in NextShape :
       /\ numFunctions - functionIndex < MaxSize(s[1], s[2])
       /\ width' = s[1] /\ depth' = s[2]
  /\ dagPC' = "done"
  /\ UNCHANGED <<numFunctions, dataset, stages, widthList, functionIndex, dag, nodeQueue, totalDAGList>>

\* Always a random number of branches.
additionalBranches_Random(node, rest) == 0 .. widthList[node.depth + 2]

(* addBranches: the last node of a stage gets all branches that the next      *)
(* stage still lacks, others any number of them.  It is the last one if the   *)
(* queue goes on, after the rest, with the next stage, to which its child     *)
(* belongs.                                                                  *)
additionalBranches(node, rest) ==
  LET missing == widthList[node.depth + 2] IN
  IF rest # <<>> /\ Place(rest[1]).depth = node.depth THEN 0 .. missing ELSE {missing}

\* Functions given to branches are not counted.
UsedBy_ChildOnly(n) == 1

\* The functions that a node uses for its child and n branches.
UsedBy(n) == 1 + n

(* createNewBranch: placeholders down to the last stage, the first one is     *)
(* given a function.                                                         *)
createNewBranch(node, f) ==
  [i \in 1 .. depth - (node.depth + 1) |-> IF i = 1 THEN Node(f, node.depth + 1) ELSE Placeholder]

(* A node of the last stage has no child.                                    *)
SkipLeaf ==
  /\ dagPC = "build" /\ nodeQueue # <<>>
  /\ Place(nodeQueue[1]).depth = depth - 1
  /\ nodeQueue' = Tail(nodeQueue)
  /\ UNCHANGED <<dagPC, numFunctions, dataset, width, depth, stages, widthList, functionIndex,
                 dag, totalDAGList>>

(* The child that continues the list of the node, and branches.              *)
AddChildren ==
  /\ dagPC = "build" /\ nodeQueue # <<>>
  /\ LET e == nodeQueue[1]
         l == e[1]
         k == e[2]
         node == Place(e)
         rest == Tail(nodeQueue)
     IN
     /\ node.depth # depth - 1
     /\ \E n \in additionalBranches(node, rest) :
          LET new == [b \in 1 .. n |-> createNewBranch(node, functionIndex + b)]
              ids == [b \in 1 .. n |-> Len(dag) + b]
          IN
          /\ widthList' = [i \in DOMAIN widthList |->
                             IF i >= node.depth + 2 THEN widthList[i] - n ELSE widthList[i]]
          /\ dag' = [dag EXCEPT ![l] = [@ EXCEPT ![k].branches = ids,
                                                 ![k + 1] = Node(functionIndex, node.depth + 1)]] \o new
          /\ nodeQueue' = Append(rest, <<l, k + 1>>) \o [b \in 1 .. n |-> <<ids[b], 1>>]
          /\ functionIndex' = functionIndex + UsedBy(n)
  /\ UNCHANGED <<dagPC, numFunctions, dataset, width, depth, stages, totalDAGList>>

EndDAG ==
  /\ dagPC = "build" /\ nodeQueue = <<>>
  /\ dagPC' = "shape"
  /\ stages' = stages
  /\ totalDAGList' = Finish(dag, <<width, depth>>)
  /\ dag' = <<>>
  /\ UNCHANGED <<numFunctions, dataset, width, depth, widthList, functionIndex, nodeQueue>>

GenerateDAGs == StartDAG \/ NoMoreDAGs \/ SkipLeaf \/ AddChildren \/ EndDAG

(***************************************************************************)
(* Properties                                                              *)
(***************************************************************************)
(* A finished DAG has the shape that was asked for (what                     *)
(* TestGenerateMultipleDAGs measures with GetDAGShape): as many lists as      *)
(* its width, a first list as long as its depth, each stage as many nodes as  *)
(* were drawn, and no placeholder, on which invokeFunction would fail.        *)
DagShapeRight ==
  \A i \in 1 .. Len(totalDAGList) :
    LET d == totalDAGList[i]
        depthOf(p) == d.lists[p[1]][p[2]].depth
    IN
    /\ Len(d.lists) = d.width \/ d.depth = 1
    /\ Len(d.lists[1]) = d.depth
    /\ \A j \in 1 .. d.depth : Cardinality({p \in Places(d.lists) : depthOf(p) = j - 1}) = d.stages[j]
    /\ \A l \in 1 .. Len(d.lists) : d.lists[l][Len(d.lists[l])].depth = d.depth - 1
    /\ \A p \in Places(d.lists) : depthOf(p) >= 0

(* docs/configuration.md:57 "The generated DAGs consist of unique functions": *)
(* no function is in two places, in one DAG or in two, and none is looked up  *)
(* beyond the end of the list of functions.                                  *)
FunctionsUnique ==
  LET all == [i \in 1 .. Len(totalDAGList) |-> totalDAGList[i].lists] \o <<dag>>
      places == UNION {{<<i, p[1], p[2]>> : p \in Places(all[i])} : i \in 1 .. Len(all)}
      f(q) == all[q[1]][q[2]][q[3]].function
  IN
  \A q \in places :
    f(q) # -1 => f(q) < numFunctions /\ \A r \in places \ {q} : f(r) # f(q)
=============================================================================
