-------------------------- MODULE Parameters_proofs --------------------------
(* The tree of parameters is correct for any number of ids, labels and      *)
(* values; paths lead where they should, at any depth, and so do the lists  *)
(* about parameters.  The invariant of the tree does not depend on what     *)
(* getParameter finds: whoever uses it looks at parameters that exist, or   *)
(* changes nothing.                                                         *)
EXTENDS ParameterLists, Recursion, FiniteSetTheorems

USE ParametersAssumption

\* A value that setAtomValue stores fits the parameter; one that does not exist
\* is not created.
LEMMA SetValueTypes ==
    ASSUME TypeOK, NEW i, NEW atom \in Atom, setAtomValue(i, atom)
    PROVE  /\ DOMAIN params' = DOMAIN params
           /\ params' \in [DOMAIN params -> Parameter]
           /\ \A j \in DOMAIN params :
                 /\ params'[j].value \in Values(params'[j].type)
                 /\ params'[j].label = params[j].label
                 /\ params'[j].parent = params[j].parent
                 /\ params'[j].type = params[j].type
<1> DEFINE v == IF params[i].type # "t" THEN atom ELSE IF atom > 0 THEN 1 ELSE 0
<1>1. /\ params' = [params EXCEPT ![i].value = v]
      /\ \/ params[i].type \in {"f", "i", "t"} /\ atom \in Number
         \/ params[i].type = "s" /\ atom \in Symbol
  BY DEF setAtomValue
<1>2. CASE i \notin DOMAIN params
  <2>1. params' = params
    BY <1>1, <1>2, Zenon DEF TypeOK
  <2> QED BY <2>1 DEF TypeOK
<1>3. CASE i \in DOMAIN params
  <2>1. v \in Values(params[i].type) /\ v \in Value
    BY <1>1, <1>3 DEF Values, Value, Atom
  <2>2. params[i] \in Parameter
    BY <1>3 DEF TypeOK
  <2>3. params' = [params EXCEPT ![i] = [params[i] EXCEPT !.value = v]]
    BY <1>1
  <2> HIDE DEF v
  <2>4. [params[i] EXCEPT !.value = v] \in Parameter
    BY <2>1, <2>2 DEF Parameter
  <2> QED BY <1>3, <2>1, <2>2, <2>3, <2>4 DEF TypeOK, Parameter
<1> QED BY <1>2, <1>3

\* The conjuncts of the invariant, which is inductive as it is.
Inv == TypeOK /\ TreeInv /\ ClientsInformed

\* Values change; the tree does not.
LEMMA ValueChange ==
    ASSUME Inv, dirty' \in {dirty, {}}, exposing' = exposing,
           DOMAIN params' = DOMAIN params, params' \in [DOMAIN params -> Parameter],
           \A j \in DOMAIN params :
              /\ params'[j].value \in Values(params'[j].type)
              /\ params'[j].label = params[j].label
              /\ params'[j].parent = params[j].parent
              /\ params'[j].type = params[j].type
    PROVE  Inv'
<1>1. TypeOK'
  BY DEF Inv, TypeOK, Idle
<1>2. Rooted'
  BY DEF Inv, TreeInv, Rooted, IsGroup
<1>3. Distinct'
  BY DEF Inv, TreeInv, Distinct, IsGroup
<1>4. Descends'
  BY DEF Inv, TreeInv, Descends, IsGroup, Idle
<1>5. ClientsInformed'
  BY DEF Inv, TypeOK, ClientsInformed, IsGroup
<1> QED
  BY <1>1, <1>2, <1>3, <1>4, <1>5 DEF Inv, TreeInv

\* Nothing changes but what expose does next, in a group that exists.
LEMMA QuietStep ==
    ASSUME Inv, params' = params, dirty' \in {dirty, {}},
           \/ exposing' \in {exposing, NotExposing}
           \/ /\ exposing' \in Exposing /\ exposing'.path # <<>>
              /\ exposing'.group # NULL => exposing'.group \in DOMAIN params /\ IsGroup(exposing'.group)
    PROVE  Inv'
<1>1. TypeOK'
  BY DEF Inv, TypeOK, Idle
<1>2. Rooted' /\ Distinct'
  BY DEF Inv, TreeInv, Rooted, Distinct, IsGroup
<1>3. Descends'
  BY DEF Inv, TreeInv, Descends, IsGroup, Idle
<1>4. ClientsInformed'
  BY DEF Inv, ClientsInformed, IsGroup
<1> QED
  BY <1>1, <1>2, <1>3, <1>4 DEF Inv, TreeInv

\* A parameter is added at the end of a path, in a group that exists.
LEMMA PutKeepsTree ==
    ASSUME Inv, NEW i \in Free, NEW p \in Parameter, Put(i, p),
           p.parent # NULL => p.parent \in DOMAIN params /\ IsGroup(p.parent),
           \A j \in DOMAIN params :
              params[j].label = p.label /\ params[j].parent = p.parent
                 => ~(IsGroup(j) <=> p.type = "group")
    PROVE  Rooted' /\ Distinct'
<1>1. /\ DOMAIN params' = DOMAIN params \cup {i} /\ i \notin DOMAIN params
      /\ params'[i] = p /\ \A j \in DOMAIN params : params'[j] = params[j]
  BY DEF Put, Free
<1>2. \A j \in DOMAIN params : params[j].parent # i
  <2>1. i # NULL
    BY ParametersAssumption DEF Free
  <2> QED
    BY <1>1, <2>1 DEF Inv, TreeInv, Rooted
<1>3. ASSUME NEW S \in SUBSET DOMAIN params', S # {}
      PROVE  \E j \in S : params'[j].parent \notin S
  <2>1. CASE S \ {i} = {}
    <3>1. S = {i} /\ p.parent # i
      BY <1>1, <1>3, <2>1, ParametersAssumption DEF Free
    <3> QED
      BY <1>1, <3>1
  <2>2. CASE S \ {i} # {}
    <3>1. PICK j \in S \ {i} : params[j].parent \notin S \ {i}
      BY <1>1, <2>2 DEF Inv, TreeInv, Rooted
    <3>2. params'[j] = params[j] /\ params[j].parent # i
      BY <1>1, <1>2
    <3> QED
      BY <3>1, <3>2
  <2> QED
    BY <2>1, <2>2
<1>4. Rooted'
  BY <1>1, <1>3 DEF Inv, TreeInv, Rooted, IsGroup
<1>5. Distinct'
  BY <1>1 DEF Inv, TreeInv, Distinct, IsGroup
<1> QED
  BY <1>4, <1>5

\* What exposing says of the path that is left.
LEMMA PathLeft ==
    ASSUME TypeOK, ~Idle
    PROVE  /\ exposing.path \in Seq(Atom) /\ Len(exposing.path) \in Nat \ {0}
           /\ Head(exposing.path) \in Atom
           /\ Len(exposing.path) > 1 => Tail(exposing.path) \in Seq(Atom) /\ Tail(exposing.path) # <<>>
           /\ exposing.group \in Id \cup {NULL}
<1>1. exposing \in Exposing /\ exposing.path # <<>>
  BY DEF TypeOK
<1>2. exposing.path \in Seq(Atom) /\ exposing.group \in Id \cup {NULL}
  BY <1>1 DEF Exposing
<1>3. Len(exposing.path) \in Nat \ {0} /\ Head(exposing.path) \in Atom
  BY <1>1, <1>2
<1>4. ASSUME NEW path \in Seq(Atom), Len(path) > 1
      PROVE  Tail(path) \in Seq(Atom) /\ Tail(path) # <<>>
  <2>1. Tail(path) \in Seq(Atom) /\ Len(Tail(path)) = Len(path) - 1
    BY <1>4
  <2> QED
    BY <1>4, <2>1
<1> QED
  BY <1>2, <1>3, <1>4

LEMMA GroupsStep == Inv /\ createGroups => Inv'
<1> SUFFICES ASSUME Inv, createGroups PROVE Inv'
  OBVIOUS
<1> DEFINE found == rcp_server_find_group(Head(exposing.path), exposing.group)
<1>1. TypeOK /\ ~Idle /\ Len(exposing.path) > 1 /\ Head(exposing.path) \in Symbol
  BY DEF Inv, createGroups
<1>2. ASSUME NEW g \in Id \cup {NULL}, Descend(g)
      PROVE  /\ exposing' \in Exposing /\ exposing'.path # <<>>
             /\ exposing'.group = g
  BY <1>1, <1>2, PathLeft DEF Descend, Exposing
<1>3. ASSUME NEW g \in found, Descend(g), UNCHANGED <<params, dirty>>
      PROVE  Inv'
  <2>1. g \in DOMAIN params /\ IsGroup(g) /\ g \in Id
    BY <1>1, <1>3 DEF rcp_server_find_group, rcp_manager_find_parameter, TypeOK
  <2> QED
    BY <1>2, <1>3, <2>1, QuietStep
<1>4. ASSUME Descend(NULL), UNCHANGED <<params, dirty>>
      PROVE  Inv'
  BY <1>2, <1>4, QuietStep
<1>5. ASSUME NEW g \in Free, found = {}, Put(g, NewGroup), dirty' = dirty \cup {g}, Descend(g)
      PROVE  Inv'
  <2> DEFINE p == NewGroup
  <2>1. /\ p.label = Head(exposing.path) /\ p.parent = exposing.group
        /\ p.type = "group" /\ p.value = NULL
    BY DEF NewGroup
  <2>2. p \in Parameter /\ p.value \in Values(p.type)
    BY <1>1, PathLeft DEF NewGroup, Parameter, Label, Value, Values
  <2>3. p.parent # NULL => p.parent \in DOMAIN params /\ IsGroup(p.parent)
    BY <1>1, <2>1 DEF Inv, TreeInv, Descends
  <2>4. ASSUME NEW j \in DOMAIN params, params[j].label = p.label, params[j].parent = p.parent
        PROVE  ~IsGroup(j)
    BY <1>5, <2>1, <2>4 DEF rcp_server_find_group, rcp_manager_find_parameter
  <2> HIDE DEF p
  <2>5. Rooted' /\ Distinct'
    BY <1>5, <2>1, <2>2, <2>3, <2>4, PutKeepsTree DEF p
  <2>6. /\ DOMAIN params' = DOMAIN params \cup {g} /\ g \in Id /\ g \notin DOMAIN params
        /\ params' = [j \in DOMAIN params \cup {g} |-> IF j = g THEN p ELSE params[j]]
        /\ params'[g] = p /\ \A j \in DOMAIN params : params'[j] = params[j]
    BY <1>5 DEF Put, Free, p
  <2>7. TypeOK'
    BY <1>1, <1>2, <1>5, <2>2, <2>6 DEF TypeOK, Idle
  <2>8. Descends'
    BY <1>2, <1>5, <2>1, <2>6 DEF Descends, IsGroup
  <2>9. ClientsInformed'
    <3>1. \A j \in DOMAIN params : params[j].parent # g
      <4>1. g # NULL
        BY <2>6, ParametersAssumption
      <4> QED
        BY <2>6, <4>1 DEF Inv, TreeInv, Rooted
    <3>2. p.parent # g
      BY <2>3, <2>6, ParametersAssumption
    <3>3. g \in dirty' /\ IsGroup(g)'
      BY <1>5, <2>1, <2>6 DEF IsGroup
    <3>4. dirty \subseteq DOMAIN params
      BY <1>1 DEF TypeOK
    <3> QED
      BY <1>5, <2>6, <3>1, <3>2, <3>3, <3>4 DEF Inv, ClientsInformed, IsGroup
  <2> QED
    BY <2>5, <2>7, <2>8, <2>9 DEF Inv, TreeInv
<1> HIDE DEF found
<1> QED
  BY <1>3, <1>4, <1>5 DEF createGroups, found

LEMMA ExposeStep == Inv /\ expose => Inv'
<1> SUFFICES ASSUME Inv, expose PROVE Inv'
  OBVIOUS
<1>1. TypeOK /\ ~Idle /\ dirty' = {} /\ exposing' = NotExposing
  BY DEF Inv, expose, Update
<1>2. CASE params' = params
  BY <1>1, <1>2, QuietStep
<1>3. ASSUME NEW i \in Free, NEW type \in Type, Put(i, NewParameter(type))
      PROVE  Inv'
  <2> DEFINE p == NewParameter(type)
  <2>1. /\ p.label = GetAsString(Head(exposing.path)) /\ p.parent = exposing.group
        /\ p.type = type /\ p.value = Default(type)
    BY DEF NewParameter
  <2>2. Default(type) \in Values(type) /\ Default(type) \in Value
    BY ParametersAssumption DEF Default, Values, Value, ValueType
  <2>3. p \in Parameter
    BY <1>1, <2>2, PathLeft DEF NewParameter, Parameter, GetAsString, Label
  <2>4. p.parent # NULL => p.parent \in DOMAIN params /\ IsGroup(p.parent)
    BY <1>1, <2>1 DEF Inv, TreeInv, Descends
  <2>5. ASSUME NEW j \in DOMAIN params
        PROVE  ~(params[j].label = p.label /\ params[j].parent = p.parent)
    BY <2>1, <2>5 DEF expose, rcp_manager_find_parameter
  <2> HIDE DEF p
  <2>6. Rooted' /\ Distinct'
    BY <1>3, <2>3, <2>4, <2>5, PutKeepsTree DEF p
  <2>7. /\ DOMAIN params' = DOMAIN params \cup {i} /\ i \in Id
        /\ params' = [j \in DOMAIN params \cup {i} |-> IF j = i THEN p ELSE params[j]]
        /\ params'[i] = p /\ \A j \in DOMAIN params : params'[j] = params[j]
    BY <1>3 DEF Put, Free, p
  <2>8. TypeOK'
    BY <1>1, <2>1, <2>2, <2>3, <2>7 DEF TypeOK, Idle
  <2>9. Descends' /\ ClientsInformed'
    BY <1>1 DEF Descends, Idle, ClientsInformed
  <2> QED
    BY <2>6, <2>8, <2>9 DEF Inv, TreeInv
<1> QED
  BY <1>2, <1>3 DEF expose

\* What is below a parameter goes with it: of what stays, the group stays.
LEMMA RemoveStep == ASSUME NEW n, Inv, removeParameter(n) PROVE Inv'
<1> DEFINE i == Int16(n)
<1>1. /\ params' = [j \in DOMAIN params \ Below(i) |-> params[j]]
      /\ Idle /\ dirty' = {} /\ exposing' = exposing
  BY DEF removeParameter, Update
<1> HIDE DEF i
<1>2. /\ DOMAIN params' \subseteq DOMAIN params
      /\ \A j \in DOMAIN params' : params'[j] = params[j]
  BY <1>1
<1>3. ASSUME NEW j \in DOMAIN params', params[j].parent # NULL
      PROVE  params[j].parent \in DOMAIN params'
  <2>1. params[j].parent \in DOMAIN params
    BY <1>2, <1>3 DEF Inv, TreeInv, Rooted
  <2>2. CASE params[j].parent \in Below(i)
    <3>1. j \in Below(i)
      BY <1>2, <2>2 DEF Below
    <3> QED
      BY <1>1, <3>1
  <2> QED
    BY <1>1, <2>1, <2>2
<1>4. TypeOK'
  BY <1>1, <1>2 DEF Inv, TypeOK, Idle
<1>5. Rooted'
  <2>1. \A j \in DOMAIN params' : params'[j].parent # NULL =>
           params'[j].parent \in DOMAIN params' /\ params'[params'[j].parent].type = "group"
    BY <1>2, <1>3 DEF Inv, TreeInv, Rooted, IsGroup
  <2>2. ASSUME NEW S \in SUBSET DOMAIN params', S # {} PROVE \E j \in S : params'[j].parent \notin S
    BY <1>2, <2>2 DEF Inv, TreeInv, Rooted
  <2> QED
    BY <2>1, <2>2 DEF Rooted, IsGroup
<1>6. Distinct'
  BY <1>2 DEF Inv, TreeInv, Distinct, IsGroup
<1>7. Descends' /\ ClientsInformed'
  BY <1>1 DEF Descends, Idle, ClientsInformed
<1> QED
  BY <1>4, <1>5, <1>6, <1>7 DEF Inv, TreeInv

LEMMA SetValueStep == ASSUME NEW i, NEW atom \in Atom, Inv, SetValue(i, atom) PROVE Inv'
<1>1. TypeOK /\ setAtomValue(i, atom) /\ dirty' = {} /\ exposing' = exposing
  BY DEF Inv, SetValue, Update
<1> QED
  BY <1>1, SetValueTypes, ValueChange

\* The messages that address a value.
LEMMA InputStep ==
    ASSUME NEW label, NEW args \in Seq(Atom), Inv, m_any(label, args)
    PROVE  Inv'
<1>1. PICK p \in rcp_manager_find_parameter(label, NULL) : _input(p, args)
  BY DEF m_any
<1>2. args # <<>> => Last(args) \in Atom
  BY DEF Last
<1>3. ASSUME NEW i, args # <<>>, SetValue(i, Last(args)) PROVE Inv'
  BY <1>2, <1>3, SetValueStep
<1>4. ASSUME NEW atom \in Atom, SetValue(p, atom) PROVE Inv'
  BY <1>4, SetValueStep
<1>5. CASE Update /\ UNCHANGED <<params, exposing>>
  BY <1>5, QuietStep DEF Update
<1>6. CASE Len(args) > 1 /\ \E i \in getParameter(Front(args), p) : SetValue(i, Last(args))
  <2>1. args # <<>>
    BY <1>6
  <2> QED
    BY <1>3, <1>6, <2>1
<1> QED
  BY <1>1, <1>3, <1>4, <1>5, <1>6 DEF _input, Addressed

\* A path is a sequence of atoms that has one.
LEMMA PathsAreSequences ==
    ASSUME NEW path \in Path
    PROVE  path \in Seq(Atom) /\ path # <<>> /\ Tail(path) \in Seq(Atom)
<1>1. PICK k \in 1 .. MaxDepth : path \in [1 .. k -> Symbol \cup {CHOOSE m \in Number : TRUE}]
  BY DEF Path
<1>2. Symbol \cup {CHOOSE m \in Number : TRUE} \subseteq Atom
  BY ParametersAssumption DEF Atom
<1>3. path \in [1 .. k -> Atom] /\ k \in Nat \ {0}
  BY <1>1, <1>2, ParametersAssumption
<1>4. path \in Seq(Atom) /\ Len(path) = k
  BY <1>3
<1> QED
  BY <1>3, <1>4

LEMMA InvariantStep == Inv /\ [Next]_vars => Inv'
<1> SUFFICES ASSUME Inv, [Next]_vars PROVE Inv'
  OBVIOUS
<1>1. \A path \in Path : path \in Seq(Atom) /\ path # <<>> /\ Tail(path) \in Seq(Atom)
  BY PathsAreSequences
<1>2. ASSUME NEW path \in Path, exposeParameter(path) PROVE Inv'
  <2>1. exposing' \in Exposing /\ exposing'.path # <<>> /\ exposing'.group = NULL
    BY <1>1, <1>2 DEF exposeParameter, Exposing
  <2> QED
    BY <1>2, <2>1, QuietStep DEF exposeParameter
<1>3. ASSUME NEW path \in Path, removeParameterList(path) PROVE Inv'
  BY <1>3, RemoveStep DEF removeParameterList
<1>4. ASSUME NEW n \in Number, removeParameter(n) PROVE Inv'
  BY <1>4, RemoveStep
<1>5. ASSUME NEW path, NEW types, SetOption(path, types) PROVE Inv'
  BY <1>5, QuietStep DEF SetOption, Update
<1>6. ASSUME NEW path \in Path, m_any(Head(path), Tail(path)) PROVE Inv'
  BY <1>1, <1>6, InputStep
<1>7. ASSUME NEW n \in Number, NEW atom \in Atom, m_list(n, atom) PROVE Inv'
  BY <1>7, SetValueStep DEF m_list
<1>8. CASE Messages
  BY <1>2, <1>3, <1>4, <1>5, <1>6, <1>7, <1>8
     DEF Messages, parameterSetReadonly, parameterSetOrder, parameterSetMinMax
<1>9. CASE exposeFails
  BY <1>9, QuietStep DEF exposeFails
<1>10. ASSUME NEW i \in Id, NEW value \in Value, parameterUpdate(i, value) PROVE Inv'
  <2>1. /\ i \in DOMAIN params /\ params \in [DOMAIN params -> Parameter]
        /\ \A j \in DOMAIN params : params[j].value \in Values(params[j].type)
    BY <1>10 DEF Inv, TypeOK, parameterUpdate
  <2>2. params' = [params EXCEPT ![i] = [params[i] EXCEPT !.value = value]]
    BY <1>10 DEF parameterUpdate
  <2>3. [params[i] EXCEPT !.value = value] \in Parameter
    BY <2>1 DEF Parameter
  <2>4. \A j \in DOMAIN params :
           /\ params'[j].value \in Values(params'[j].type)
           /\ params'[j].label = params[j].label
           /\ params'[j].parent = params[j].parent
           /\ params'[j].type = params[j].type
    BY <1>10, <2>1, <2>2 DEF parameterUpdate, Parameter
  <2> QED
    BY <1>10, <2>1, <2>2, <2>3, <2>4, ValueChange DEF parameterUpdate
<1>11. CASE UNCHANGED vars
  BY <1>11, QuietStep DEF vars
<1> QED
  BY <1>8, <1>9, <1>10, <1>11, GroupsStep, ExposeStep DEF Next

\* The invariant of the tree of parameters.
THEOREM Invariant == Spec => []Inv
<1>1. Init => Inv
  BY DEF Init, Inv, TypeOK, TreeInv, Rooted, Distinct, Descends, ClientsInformed, Idle
<1> QED
  BY <1>1, InvariantStep, PTL DEF Spec

\* Values stay of the type their parameter was exposed with, whatever the patch sends and
\* whatever comes from the network (ParameterServerClientBase.cpp:75-122).
THEOREM TypeCorrect == Spec => []TypeOK
<1>1. Inv => TypeOK
  BY DEF Inv
<1> QED
  BY <1>1, Invariant, PTL

\* Every parameter is in a group that exists, up to the top, and the labels in a
\* group are distinct but for one group beside one value.
THEOREM TreeCorrect == Spec => []TreeInv
<1>1. Inv => TreeInv
  BY DEF Inv
<1> QED
  BY <1>1, Invariant, PTL

\* Whatever order of messages, failed ones included: the clients know of all but
\* groups without anything in them that they know.
THEOREM ClientsAreInformed == Spec => []ClientsInformed
<1>1. Inv => ClientsInformed
  BY DEF Inv
<1> QED
  BY <1>1, Invariant, PTL

-----------------------------------------------------------------------------
\* What getParameter finds label by label, f[k] after k of them.
FindsBy(f, path, group) ==
    /\ f[0] = {Found(NULL, group)}
    /\ \A k \in 1 .. Len(path) :
          f[k] = UNION {{Found(i, g.last_group) : i \in rcp_manager_find_parameter(path[k], g.last_group)} :
                            g \in f[k - 1]}

LEMMA FoundFollows ==
    ASSUME TypeOK, NEW T, NEW path \in Seq(T), NEW group \in Id \cup {NULL}
    PROVE  \E f : FindsBy(f, path, group)
                  /\ getParameter(path, group) = {g.param : g \in f[Len(path)]} \ {NULL}
<1> DEFINE n == Len(path)
           F == [param : Id \cup {NULL}, last_group : Id \cup {NULL}]
           X == SUBSET F
           next(k, S) == UNION {{Found(i, g.last_group) : i \in rcp_manager_find_parameter(path[k], g.last_group)} :
                                   g \in S}
           step == [k \in 1 .. n |-> [S \in X |-> next(k, S)]]
           found(f) == f = [k \in 0 .. n |-> IF k = 0 THEN {Found(NULL, group)} ELSE next(k, f[k - 1])]
<1>0. n \in Nat
  OBVIOUS
<1>1. {Found(NULL, group)} \in X
  BY DEF Found
<1>2. ASSUME NEW k \in 1 .. n, NEW S \in X
      PROVE  next(k, S) \in X
  <2>1. ASSUME NEW g \in S, NEW i \in rcp_manager_find_parameter(path[k], g.last_group)
        PROVE  Found(i, g.last_group) \in F
    <3>1. i \in Id /\ g \in F
      BY <2>1 DEF rcp_manager_find_parameter, TypeOK
    <3> QED BY <3>1 DEF Found
  <2>2. ASSUME NEW y \in next(k, S)
        PROVE  y \in F
    <3>1. PICK g \in S : y \in {Found(i, g.last_group) : i \in rcp_manager_find_parameter(path[k], g.last_group)}
      BY <2>2
    <3>2. PICK i \in rcp_manager_find_parameter(path[k], g.last_group) : y = Found(i, g.last_group)
      BY <3>1
    <3> HIDE DEF F
    <3> QED BY <2>1, <3>2
  <2> HIDE DEF F, next
  <2> QED BY <2>2
<1> HIDE DEF next
<1>3. step \in [1 .. n -> [X -> X]]
  <2> HIDE DEF X
  <2> QED BY <1>2
<1>4. PICK f \in [0 .. n -> X] : Follows(f, n, {Found(NULL, group)}, step)
  <2> HIDE DEF n, X, step
  <2> QED BY <1>0, <1>1, <1>3, RecursionExists
<1>5. ASSUME NEW k \in 1 .. n
      PROVE  f[k] = next(k, f[k - 1])
  <2>1. k - 1 \in 0 .. n /\ f[k] = step[k][f[k - 1]]
    <3> HIDE DEF step, X
    <3> QED BY <1>4 DEF Follows
  <2>2. f[k - 1] \in X
    <3> HIDE DEF X
    <3> QED BY <2>1
  <2> HIDE DEF X
  <2> QED BY <2>1, <2>2
<1>6. f[0] = {Found(NULL, group)}
  BY <1>4 DEF Follows
<1> HIDE DEF X, step
<1>7. found(f)
  <2>1. \A k \in 0 .. n : f[k] = IF k = 0 THEN {Found(NULL, group)} ELSE next(k, f[k - 1])
    BY <1>5, <1>6
  <2>2. f = [k \in 0 .. n |-> f[k]]
    OBVIOUS
  <2> HIDE DEF n
  <2> QED BY <2>1, <2>2, Zenon
<1> DEFINE h == CHOOSE f1 : found(f1)
<1>8. found(h)
  <2> HIDE DEF found
  <2> QED BY <1>7
<1>9. getParameter(path, group) = {g.param : g \in h[n]} \ {NULL}
  BY DEF getParameter, next
<1> HIDE DEF h
<1>10. h[0] = {Found(NULL, group)} /\ \A k \in 1 .. n : h[k] = next(k, h[k - 1])
  <2>1. \A k \in 0 .. n : h[k] = IF k = 0 THEN {Found(NULL, group)} ELSE next(k, h[k - 1])
    <3> HIDE DEF n
    <3> QED BY <1>8, Zenon
  <2>2. 0 \in 0 .. n /\ \A k \in 1 .. n : k \in 0 .. n /\ k # 0
    BY <1>0
  <2> HIDE DEF n
  <2> QED BY <2>1, <2>2, Zenon
<1>11. FindsBy(h, path, group)
  BY <1>10 DEF FindsBy, next
<1> QED BY <1>9, <1>11

\* i is what the first k labels of a path lead to from the top.
IsChain(chain, path, k, i) ==
    /\ chain \in [1 .. k -> DOMAIN params] /\ chain[k] = i
    /\ \A j \in 1 .. k :
          /\ params[chain[j]].label = path[j]
          /\ params[chain[j]].parent = IF j = 1 THEN NULL ELSE chain[j - 1]

LEMMA HasPrefix ==
    ASSUME NEW path \in Seq(Atom), NEW k \in 1 .. Len(path), NEW i
    PROVE  Has(SubSeq(path, 1, k), i) <=> \E chain : IsChain(chain, path, k, i)
<1> DEFINE s == SubSeq(path, 1, k)
           Chain(D, len) == \E chain \in [D -> DOMAIN params] :
                               /\ chain[len] = i
                               /\ \A j \in D :
                                     /\ params[chain[j]].label = s[j]
                                     /\ params[chain[j]].parent = IF j = 1 THEN NULL ELSE chain[j - 1]
<1>1. Len(s) = k /\ DOMAIN s = 1 .. k /\ \A j \in 1 .. k : s[j] = path[j]
  OBVIOUS
<1> HIDE DEF s
<1>2. Has(s, i) <=> Chain(DOMAIN s, Len(s))
  BY Zenon DEF Has
<1>3. Chain(DOMAIN s, Len(s)) <=> Chain(1 .. k, k)
  <2> HIDE DEF Chain
  <2> QED BY <1>1
<1>4. ASSUME NEW chain
      PROVE  IsChain(chain, path, k, i) <=> IsChain(chain, s, k, i)
  BY <1>1, Zenon DEF IsChain
<1>5. Chain(1 .. k, k) <=> \E chain : IsChain(chain, s, k, i)
  BY Zenon DEF IsChain
<1>6. Has(s, i) <=> \E chain : IsChain(chain, path, k, i)
  <2> HIDE DEF Chain
  <2> QED BY <1>2, <1>3, <1>4, <1>5, Zenon
<1> QED BY <1>6 DEF s

\* What is in a group has the path of the group and its own label.
LEMMA HasNext ==
    ASSUME NEW path \in Seq(Atom), NEW k \in 1 .. Len(path) - 1, NEW p \in DOMAIN params,
           Has(SubSeq(path, 1, k), p), NEW i \in DOMAIN params,
           params[i].label = path[k + 1], params[i].parent = p
    PROVE  Has(SubSeq(path, 1, k + 1), i)
<1>1. k \in 1 .. Len(path) /\ k + 1 \in 1 .. Len(path)
  OBVIOUS
<1>2. PICK chain : IsChain(chain, path, k, p)
  BY <1>1, HasPrefix
<1> DEFINE longer == [j \in 1 .. k + 1 |-> IF j = k + 1 THEN i ELSE chain[j]]
<1>3. longer \in [1 .. k + 1 -> DOMAIN params] /\ longer[k + 1] = i
  BY <1>2 DEF IsChain
<1>4. ASSUME NEW j \in 1 .. k + 1
      PROVE  /\ params[longer[j]].label = path[j]
             /\ params[longer[j]].parent = IF j = 1 THEN NULL ELSE longer[j - 1]
  <2>1. CASE j = k + 1
    BY <1>2, <2>1 DEF IsChain
  <2>2. CASE j # k + 1
    BY <1>2, <2>2 DEF IsChain
  <2> QED BY <2>1, <2>2
<1> HIDE DEF longer
<1>5. IsChain(longer, path, k + 1, i)
  BY <1>3, <1>4, Zenon DEF IsChain
<1> QED BY <1>1, <1>5, HasPrefix

\* A path leads to what has it.
LEMMA PathLeads ==
    ASSUME TypeOK, Rooted, NEW path \in Seq(Atom), path # <<>>, NEW i \in DOMAIN params, Has(path, i)
    PROVE  i \in getParameter(path, NULL)
<1> DEFINE n == Len(path)
<1>0. n \in Nat \ {0} /\ n \in 1 .. Len(path) /\ SubSeq(path, 1, n) = path
  OBVIOUS
<1>1. PICK f : FindsBy(f, path, NULL) /\ getParameter(path, NULL) = {g.param : g \in f[n]} \ {NULL}
  BY FoundFollows
<1>2. PICK chain : IsChain(chain, path, n, i)
  BY <1>0, HasPrefix
<1> DEFINE at(k) == IF k = 0 THEN NULL ELSE chain[k]
           S == {k \in 0 .. n : \E g \in f[k] : g.param = at(k) /\ (k < n => g.last_group = at(k))}
<1>3. 0 \in S
  <2>1. Found(NULL, NULL) \in f[0]
    BY <1>1 DEF FindsBy
  <2> QED BY <1>0, <2>1 DEF Found
<1>4. ASSUME NEW k \in 0 .. n - 1, k \in S
      PROVE  k + 1 \in S
  <2>1. k + 1 \in 1 .. n /\ (k + 1) - 1 = k /\ k < n
    BY <1>0
  <2>2. PICK g \in f[k] : g.last_group = at(k)
    BY <1>4, <2>1
  <2> DEFINE j == chain[k + 1]
  <2>3. j \in DOMAIN params /\ params[j].label = path[k + 1] /\ params[j].parent = at(k)
    BY <1>2, <2>1 DEF IsChain
  <2>4. j \in rcp_manager_find_parameter(path[k + 1], g.last_group)
    BY <2>2, <2>3 DEF rcp_manager_find_parameter
  <2>5. f[k + 1] = UNION {{Found(x, e.last_group) : x \in rcp_manager_find_parameter(path[k + 1], e.last_group)} :
                             e \in f[k]}
    BY <1>1, <2>1 DEF FindsBy
  <2>6. Found(j, g.last_group) \in f[k + 1]
    <3> DEFINE of(e) == {Found(x, e.last_group) : x \in rcp_manager_find_parameter(path[k + 1], e.last_group)}
    <3> HIDE DEF j
    <3>1. Found(j, g.last_group) \in of(g)
      BY <2>4
    <3>2. f[k + 1] = UNION {of(e) : e \in f[k]}
      BY <2>5
    <3> HIDE DEF of
    <3> QED BY <3>1, <3>2
  <2>7. j # NULL
    BY <2>3 DEF TypeOK
  <2>8. k + 1 < n => IsGroup(j)
    <3> SUFFICES ASSUME k + 1 < n PROVE IsGroup(j)
      OBVIOUS
    <3>1. k + 2 \in 1 .. n /\ k + 2 # 1 /\ (k + 2) - 1 = k + 1
      BY <1>0
    <3>2. chain[k + 2] \in DOMAIN params /\ params[chain[k + 2]].parent = j
      BY <1>2, <3>1 DEF IsChain
    <3> HIDE DEF j
    <3> QED BY <2>7, <3>2 DEF Rooted
  <2>9. Found(j, g.last_group).param = j /\ (k + 1 < n => Found(j, g.last_group).last_group = j)
    BY <2>7, <2>8 DEF Found
  <2>10. at(k + 1) = j /\ k + 1 \in 0 .. n
    BY <2>1
  <2> HIDE DEF j, at
  <2> QED BY <2>6, <2>9, <2>10
<1> HIDE DEF S
<1>5. 0 .. n \subseteq S
  <2> HIDE DEF n
  <2> QED BY <1>0, <1>3, <1>4, UpTo
<1>6. n \in S
  BY <1>0, <1>5
<1>7. PICK g \in f[n] : g.param = at(n)
  BY <1>6 DEF S
<1>8. at(n) = i /\ i # NULL
  BY <1>0, <1>2 DEF TypeOK, IsChain
<1> QED BY <1>1, <1>7, <1>8

\* What a path leads to has it, unless a parameter on the way is no group.
LEMMA PathFinds ==
    ASSUME TypeOK, NEW path \in Seq(Atom), path # <<>>, NEW i \in getParameter(path, NULL)
    PROVE  Has(path, i) \/ \E k \in 1 .. Len(path) - 1, v \in DOMAIN params :
                              ~IsGroup(v) /\ Has(SubSeq(path, 1, k), v)
<1> DEFINE n == Len(path)
           Beside(k) == \E j \in 1 .. k - 1, v \in DOMAIN params : ~IsGroup(v) /\ Has(SubSeq(path, 1, j), v)
           Leads(k, g) == /\ g.param \in DOMAIN params /\ Has(SubSeq(path, 1, k), g.param)
                          /\ IsGroup(g.param) => g.last_group = g.param
<1>0. n \in Nat \ {0} /\ SubSeq(path, 1, n) = path
  OBVIOUS
<1>1. PICK f : FindsBy(f, path, NULL) /\ getParameter(path, NULL) = {g.param : g \in f[n]} \ {NULL}
  BY FoundFollows
<1> DEFINE S == {k \in 0 .. n : \A g \in f[k] : IF k = 0 THEN g.last_group = NULL ELSE Beside(k) \/ Leads(k, g)}
<1>2. 0 \in S
  BY <1>0, <1>1 DEF FindsBy, Found
<1>3. ASSUME NEW k \in 0 .. n - 1, k \in S
      PROVE  k + 1 \in S
  <2>1. k + 1 \in 1 .. n /\ (k + 1) - 1 = k /\ k + 1 # 0 /\ k + 1 \in 0 .. n
    BY <1>0
  <2>2. ASSUME NEW h \in f[k + 1]
        PROVE  Beside(k + 1) \/ Leads(k + 1, h)
    <3>1. f[k + 1] = UNION {{Found(x, e.last_group) : x \in rcp_manager_find_parameter(path[k + 1], e.last_group)} :
                               e \in f[k]}
      BY <1>1, <2>1 DEF FindsBy
    <3>2. PICK g \in f[k] : \E x \in rcp_manager_find_parameter(path[k + 1], g.last_group) : h = Found(x, g.last_group)
      BY <2>2, <3>1
    <3>3. PICK x \in rcp_manager_find_parameter(path[k + 1], g.last_group) : h = Found(x, g.last_group)
      BY <3>2
    <3>4. /\ x \in DOMAIN params /\ params[x].label = path[k + 1] /\ params[x].parent = g.last_group
      BY DEF rcp_manager_find_parameter
    <3>5. h.param = x /\ (IsGroup(x) => h.last_group = x)
      BY <3>3, <3>4 DEF Found, TypeOK
    <3>6. CASE k = 0
      <4>1. params[x].parent = NULL /\ k + 1 = 1
        BY <1>3, <3>2, <3>4, <3>6
      <4>2. Has(SubSeq(path, 1, 1), x)
        <5>1. IsChain([j \in 1 .. 1 |-> x], path, 1, x)
          BY <3>4, <4>1 DEF IsChain
        <5>2. 1 \in 1 .. Len(path)
          BY <2>1, <4>1
        <5> QED BY <5>1, <5>2, HasPrefix
      <4> HIDE DEF Beside
      <4> QED BY <3>4, <3>5, <4>1, <4>2
    <3>7. CASE k > 0 /\ Beside(k)
      <4>1. 1 .. k - 1 \subseteq 1 .. (k + 1) - 1
        BY <1>0
      <4> QED BY <3>7, <4>1
    <3>8. CASE k > 0 /\ Leads(k, g)
      <4>1. CASE IsGroup(g.param)
        <5>1. k \in 1 .. n - 1
          BY <1>0, <3>8
        <5>2. Has(SubSeq(path, 1, k + 1), x)
          BY <3>4, <3>8, <4>1, <5>1, HasNext
        <5> HIDE DEF Beside
        <5> QED BY <3>4, <3>5, <5>2
      <4>2. CASE ~IsGroup(g.param)
        <5>1. k \in 1 .. (k + 1) - 1
          BY <3>8
        <5> QED BY <3>8, <4>2, <5>1
      <4> QED BY <4>1, <4>2
    <3> HIDE DEF Beside, Leads
    <3> QED BY <1>3, <3>2, <3>6, <3>7, <3>8
  <2> HIDE DEF Beside, Leads
  <2> QED BY <2>1, <2>2
<1> HIDE DEF S
<1>4. 0 .. n \subseteq S
  <2> HIDE DEF n
  <2> QED BY <1>0, <1>2, <1>3, UpTo
<1>5. n \in S /\ n # 0
  BY <1>0, <1>4
<1>6. PICK g \in f[n] : g.param = i
  BY <1>1
<1>7. Beside(n) \/ Leads(n, g)
  <2> HIDE DEF Beside, Leads
  <2> QED BY <1>5, <1>6 DEF S
<1> QED BY <1>0, <1>6, <1>7

\* A path of labels, however long, names the parameter that has it
\* (ParameterServerClientBase.cpp:741-762).
THEOREM PathsLead == Spec => []PathsResolve
<1>1. Inv => PathsResolve
  <2> SUFFICES ASSUME Inv, NEW path \in Path,
                      \A k \in DOMAIN path : path[k] \in Symbol
               PROVE  /\ \A i \in DOMAIN params : Has(path, i) => i \in getParameter(path, NULL)
                      /\ \A i \in getParameter(path, NULL) :
                            Has(path, i) \/ \E k \in 1 .. Len(path) - 1, v \in DOMAIN params :
                                                ~IsGroup(v) /\ Has(SubSeq(path, 1, k), v)
    BY DEF PathsResolve
  <2>1. path \in Seq(Atom) /\ path # <<>>
    BY PathsAreSequences
  <2>2. TypeOK /\ Rooted
    BY DEF Inv, TreeInv
  <2> QED BY <2>1, <2>2, PathLeads, PathFinds
<1> QED
  BY <1>1, Invariant, PTL

-----------------------------------------------------------------------------
\* What holds of a parameter when it holds of the group it is in holds of all.
LEMMA TreeInduction ==
    ASSUME Rooted, NEW S,
           \A j \in DOMAIN params : params[j].parent = NULL \/ params[j].parent \in S => j \in S
    PROVE  DOMAIN params \subseteq S
<1> DEFINE others == DOMAIN params \ S
<1> SUFFICES ASSUME others # {} PROVE FALSE
  OBVIOUS
<1>1. PICK j \in others : params[j].parent \notin others
  <2>1. others \in SUBSET DOMAIN params
    OBVIOUS
  <2> HIDE DEF others
  <2> QED BY <2>1 DEF Rooted
<1>2. params[j].parent # NULL /\ params[j].parent \notin S
  OBVIOUS
<1>3. params[j].parent \in DOMAIN params
  BY <1>2 DEF Rooted
<1> QED BY <1>1, <1>2, <1>3

\* The labels of getParents, reckoned for the parameters of a set.
LabelsUp(f, j) ==
    IF params[j].parent = NULL THEN <<>> ELSE <<params[params[j].parent].label>> \o f[params[j].parent]
Climbs(f, D) ==
    /\ D \subseteq DOMAIN params
    /\ \A j \in D : (params[j].parent # NULL => params[j].parent \in D) /\ f[j] = LabelsUp(f, j)

LEMMA ClimbsAgree ==
    ASSUME Rooted, NEW f, NEW D, Climbs(f, D), NEW g, NEW E, Climbs(g, E), NEW j \in D \cap E
    PROVE  f[j] = g[j]
<1> DEFINE S == {k \in DOMAIN params : k \in D \cap E => f[k] = g[k]}
<1>1. ASSUME NEW k \in DOMAIN params, params[k].parent = NULL \/ params[k].parent \in S
      PROVE  k \in S
  BY <1>1 DEF Climbs, LabelsUp
<1> HIDE DEF S
<1>2. DOMAIN params \subseteq S
  BY <1>1, TreeInduction
<1>3. j \in DOMAIN params
  BY DEF Climbs
<1> QED BY <1>2, <1>3 DEF S

LEMMA ClimbExists ==
    ASSUME Rooted, NEW j \in DOMAIN params
    PROVE  \E f, D : Climbs(f, D) /\ j \in D
<1> DEFINE S == {k \in DOMAIN params : \E f, D : Climbs(f, D) /\ k \in D}
<1>1. ASSUME NEW k \in DOMAIN params, params[k].parent = NULL \/ params[k].parent \in S
      PROVE  k \in S
  <2>1. CASE params[k].parent = NULL
    <3>1. Climbs([x \in {k} |-> <<>>], {k})
      BY <2>1 DEF Climbs, LabelsUp
    <3> QED BY <3>1
  <2>2. CASE params[k].parent # NULL
    <3> DEFINE g == params[k].parent
    <3>1. PICK f, D : Climbs(f, D) /\ g \in D
      BY <1>1, <2>2
    <3> DEFINE h == [x \in D \cup {k} |-> IF x \in D THEN f[x] ELSE <<params[g].label>> \o f[g]]
    <3>2. \A x \in D : x \in DOMAIN params /\ h[x] = f[x]
                       /\ (params[x].parent # NULL => params[x].parent \in D)
                       /\ f[x] = LabelsUp(f, x)
      BY <3>1 DEF Climbs
    <3>3. ASSUME NEW x \in D
          PROVE  h[x] = LabelsUp(h, x)
      BY <3>2 DEF LabelsUp
    <3>4. k \notin D => h[k] = LabelsUp(h, k)
      BY <2>2, <3>1, <3>2 DEF LabelsUp
    <3> HIDE DEF h
    <3>5. Climbs(h, D \cup {k})
      BY <3>1, <3>2, <3>3, <3>4 DEF Climbs
    <3> QED BY <3>5
  <2> QED BY <2>1, <2>2
<1> HIDE DEF S
<1>2. DOMAIN params \subseteq S
  BY <1>1, TreeInduction
<1> QED BY <1>2 DEF S

\* getParents is what its recursion says.
LEMMA ParentsUp ==
    ASSUME Rooted, NEW i \in DOMAIN params
    PROVE  getParents(i) = IF params[i].parent = NULL THEN <<>>
                           ELSE <<params[params[i].parent].label>> \o getParents(params[i].parent)
<1> DEFINE up(f) == f = [j \in DOMAIN params |->
                            LET g == params[j].parent IN IF g = NULL THEN <<>> ELSE <<params[g].label>> \o f[g]]
           part(j) == CHOOSE p : Climbs(p[1], p[2]) /\ j \in p[2]
           all == [j \in DOMAIN params |-> part(j)[1][j]]
<1>1. ASSUME NEW j \in DOMAIN params
      PROVE  Climbs(part(j)[1], part(j)[2]) /\ j \in part(j)[2]
  <2>1. PICK f, D : Climbs(f, D) /\ j \in D
    BY ClimbExists
  <2>2. <<f, D>>[1] = f /\ <<f, D>>[2] = D
    OBVIOUS
  <2>3. \E p : Climbs(p[1], p[2]) /\ j \in p[2]
    BY <2>1, <2>2, Zenon
  <2> QED BY <2>3, Zenon
<1> HIDE DEF part
<1>2. ASSUME NEW j \in DOMAIN params
      PROVE  all[j] = LabelsUp(all, j)
  <2>1. Climbs(part(j)[1], part(j)[2]) /\ j \in part(j)[2]
    BY <1>1
  <2>2. all[j] = LabelsUp(part(j)[1], j)
    BY <2>1 DEF Climbs
  <2>3. CASE params[j].parent = NULL
    BY <2>2, <2>3 DEF LabelsUp
  <2>4. CASE params[j].parent # NULL
    <3> DEFINE g == params[j].parent
    <3>1. g \in part(j)[2] /\ g \in DOMAIN params
      BY <2>1, <2>4 DEF Climbs
    <3>2. Climbs(part(g)[1], part(g)[2]) /\ g \in part(g)[2]
      BY <1>1, <3>1
    <3>3. part(g)[1][g] = part(j)[1][g]
      <4>1. g \in part(g)[2] \cap part(j)[2]
        BY <3>1, <3>2
      <4> HIDE DEF g
      <4> QED BY <2>1, <3>2, <4>1, ClimbsAgree
    <3>4. all[g] = part(j)[1][g]
      BY <3>1, <3>3
    <3> HIDE DEF all
    <3> QED BY <2>2, <3>4 DEF LabelsUp
  <2> QED BY <2>3, <2>4
<1>3. up(all)
  <2>1. all = [j \in DOMAIN params |-> all[j]]
    OBVIOUS
  <2> HIDE DEF all
  <2> QED BY <1>2, <2>1, Zenon DEF LabelsUp
<1> DEFINE h == CHOOSE f : up(f)
<1>4. up(h)
  <2> HIDE DEF up, all
  <2> QED BY <1>3
<1>5. \A j : getParents(j) = h[j]
  BY DEF getParents
<1> HIDE DEF h, all
<1>6. h[i] = IF params[i].parent = NULL THEN <<>> ELSE <<params[params[i].parent].label>> \o h[params[i].parent]
  BY <1>4, Zenon
<1> QED BY <1>5, <1>6

\* What joining sequences gives.
LEMMA Joined ==
    ASSUME NEW T, NEW x \in Seq(T), NEW y \in Seq(T)
    PROVE  /\ x \o y \in Seq(T) /\ Len(x \o y) = Len(x) + Len(y)
           /\ \A k \in 1 .. Len(x) : (x \o y)[k] = x[k]
           /\ \A k \in 1 .. Len(y) : (x \o y)[Len(x) + k] = y[k]
OBVIOUS

\* The groups j is in, from the top down to itself, with the labels of getParents.
Depth(j) == Len(getParents(j)) + 1
IsLine(chain, j) ==
    /\ chain \in [1 .. Depth(j) -> DOMAIN params] /\ chain[Depth(j)] = j
    /\ params[chain[1]].parent = NULL
    /\ \A k \in 2 .. Depth(j) : params[chain[k]].parent = chain[k - 1]
    /\ \A k \in 1 .. Depth(j) - 1 : getParents(j)[Depth(j) - k] = params[chain[k]].label

LEMMA LineExists ==
    ASSUME TypeOK, Rooted, NEW i \in DOMAIN params
    PROVE  getParents(i) \in Seq(Label) /\ \E chain : IsLine(chain, i)
<1> DEFINE S == {j \in DOMAIN params : getParents(j) \in Seq(Label) /\ \E chain : IsLine(chain, j)}
<1>1. ASSUME NEW j \in DOMAIN params, params[j].parent = NULL \/ params[j].parent \in S
      PROVE  j \in S
  <2>1. CASE params[j].parent = NULL
    <3>1. getParents(j) = <<>>
      BY <2>1, ParentsUp
    <3>2. getParents(j) \in Seq(Label) /\ Depth(j) = 1
      BY <3>1 DEF Depth
    <3>3. IsLine([k \in 1 .. 1 |-> j], j)
      BY <2>1, <3>2 DEF IsLine
    <3> QED BY <3>2, <3>3
  <2>2. CASE params[j].parent # NULL
    <3> DEFINE g == params[j].parent
               up == getParents(g)
               label == params[g].label
               n == Depth(g)
    <3>1. g \in DOMAIN params /\ up \in Seq(Label) /\ \E chain : IsLine(chain, g)
      BY <1>1, <2>2
    <3>2. PICK chain : IsLine(chain, g)
      BY <3>1
    <3>3. label \in Label
      BY <3>1 DEF TypeOK, Parameter
    <3>4. getParents(j) = <<label>> \o up
      BY <2>2, ParentsUp
    <3>5. n = Len(up) + 1 /\ n \in Nat \ {0}
      BY <3>1 DEF Depth
    <3> HIDE DEF up, label, n
    <3>6. /\ <<label>> \o up \in Seq(Label) /\ Len(<<label>> \o up) = n
          /\ (<<label>> \o up)[1] = label
          /\ \A k \in 1 .. n - 1 : (<<label>> \o up)[k + 1] = up[k]
      <4>1. <<label>> \in Seq(Label) /\ Len(<<label>>) = 1 /\ <<label>>[1] = label /\ up \in Seq(Label)
        BY <3>1, <3>3
      <4>2. \A k \in 1 .. Len(up) : (<<label>> \o up)[1 + k] = up[k]
        BY <4>1, Joined
      <4>3. /\ <<label>> \o up \in Seq(Label) /\ Len(<<label>> \o up) = 1 + Len(up)
            /\ (<<label>> \o up)[1] = label
        BY <4>1
      <4>4. \A k \in 1 .. n - 1 : k \in 1 .. Len(up) /\ 1 + k = k + 1
        BY <3>5, <4>1
      <4> QED BY <3>5, <4>2, <4>3, <4>4
    <3>7. Depth(j) = n + 1
      BY <3>4, <3>6 DEF Depth
    <3> DEFINE longer == [k \in 1 .. n + 1 |-> IF k = n + 1 THEN j ELSE chain[k]]
    <3>8. /\ chain \in [1 .. n -> DOMAIN params] /\ chain[n] = g /\ params[chain[1]].parent = NULL
          /\ \A k \in 2 .. n : params[chain[k]].parent = chain[k - 1]
          /\ \A k \in 1 .. n - 1 : up[n - k] = params[chain[k]].label
      BY <3>2 DEF IsLine, up, n
    <3>9. longer \in [1 .. n + 1 -> DOMAIN params] /\ longer[n + 1] = j
          /\ \A k \in 1 .. n : longer[k] = chain[k]
      BY <3>5, <3>8
    <3> HIDE DEF longer
    <3>10. ASSUME NEW k \in 2 .. n + 1
           PROVE  params[longer[k]].parent = longer[k - 1]
      <4>1. k - 1 \in 1 .. n
        BY <3>5
      <4>2. CASE k = n + 1
        <5>1. longer[k] = j /\ longer[k - 1] = chain[n]
          BY <3>5, <3>9, <4>1, <4>2
        <5> QED BY <3>8, <5>1
      <4>3. CASE k # n + 1
        <5>1. k \in 2 .. n /\ k \in 1 .. n
          BY <3>5, <4>3
        <5> QED BY <3>8, <3>9, <4>1, <5>1
      <4> QED BY <4>2, <4>3
    <3>11. ASSUME NEW k \in 1 .. n
           PROVE  getParents(j)[n + 1 - k] = params[longer[k]].label
      <4>1. CASE k = n
        <5>1. n + 1 - k = 1 /\ longer[k] = g
          BY <3>5, <3>8, <3>9, <4>1
        <5> QED BY <3>4, <3>6, <5>1 DEF label
      <4>2. CASE k # n
        <5>1. k \in 1 .. n - 1 /\ n - k \in 1 .. n - 1 /\ (n - k) + 1 = n + 1 - k
          BY <3>5, <4>2
        <5>2. getParents(j)[n + 1 - k] = up[n - k]
          BY <3>4, <3>6, <5>1
        <5> QED BY <3>8, <3>9, <5>1, <5>2
      <4> QED BY <4>1, <4>2
    <3>12. params[longer[1]].parent = NULL
      <4>1. 1 \in 1 .. n
        BY <3>5
      <4> QED BY <3>8, <3>9, <4>1
    <3>13. IsLine(longer, j)
      <4>1. (n + 1) - 1 = n
        BY <3>5
      <4> DEFINE d == Depth(j)
      <4>2. d = n + 1 /\ d - 1 = n
        BY <3>7, <4>1
      <4> HIDE DEF d
      <4>3. /\ longer \in [1 .. d -> DOMAIN params] /\ longer[d] = j
            /\ \A k \in 2 .. d : params[longer[k]].parent = longer[k - 1]
            /\ \A k \in 1 .. d - 1 : getParents(j)[d - k] = params[longer[k]].label
        BY <3>9, <3>10, <3>11, <4>2
      <4> QED BY <3>12, <4>3, Zenon DEF IsLine, d
    <3> QED BY <3>4, <3>6, <3>13
  <2> QED BY <2>1, <2>2
<1> HIDE DEF S
<1>2. DOMAIN params \subseteq S
  BY <1>1, TreeInduction
<1> QED BY <1>2 DEF S

-----------------------------------------------------------------------------
\* All that may be in a list.
Word ==
    Label \cup Value \cup Id \cup {0, 1, "[bang]", "[group]", "float", "int", "toggle", "bang", "string", "group"}
    \cup {"info", "id", "type", "readonly", "order", "value", "min", "max", "update", "add", "remove"}

LEMMA PartsOfLists ==
    ASSUME Inv, NEW i \in DOMAIN params
    PROVE  /\ Groups(i) \in Seq(Word) /\ Len(Groups(i)) = Len(getParents(i)) /\ Len(getParents(i)) \in Nat
           /\ params[i].label \in Word
           /\ ValueAtoms(i) \in Seq(Word)
           /\ Len(ValueAtoms(i)) = IF IsValue(i) THEN 1 ELSE 0
           /\ typeToString[params[i].type] \in Word
<1>1. TypeOK /\ Rooted
  BY DEF Inv, TreeInv
<1>2. params[i] \in Parameter /\ i \in Id
  BY <1>1 DEF TypeOK
<1>3. params[i].label \in Word /\ params[i].value \in Word
  BY <1>2 DEF Parameter, Word
<1>4. params[i].type \in {"f", "i", "t", "s", "b", "group"}
  BY <1>2, ParametersAssumption DEF Parameter, ValueType
<1>5. typeToString[params[i].type] \in Word
  BY <1>4 DEF typeToString, Word
<1>6. ValueAtoms(i) \in Seq(Word) /\ Len(ValueAtoms(i)) = IF IsValue(i) THEN 1 ELSE 0
  <2> DEFINE v == params[i].value
  <2>1. v \in Word
    BY <1>3
  <2> HIDE DEF v
  <2>2. <<v>> \in Seq(Word) /\ Len(<<v>>) = 1 /\ <<>> \in Seq(Word) /\ Len(<<>>) = 0
    BY <2>1
  <2> QED BY <2>2 DEF ValueAtoms, v
<1>7. Groups(i) \in Seq(Word) /\ Len(Groups(i)) = Len(getParents(i)) /\ Len(getParents(i)) \in Nat
  <2> DEFINE up == getParents(i)
  <2>1. up \in Seq(Word)
    <3>1. getParents(i) \in Seq(Label) /\ Label \subseteq Word
      BY <1>1, LineExists DEF Word
    <3> HIDE DEF up
    <3> QED BY <3>1 DEF up
  <2> HIDE DEF up
  <2>2. Reverse(up) \in Seq(Word) /\ Len(Reverse(up)) = Len(up) /\ Len(up) \in Nat
    <3>1. \A k \in 1 .. Len(up) : up[(Len(up) - k) + 1] \in Word
      BY <2>1
    <3> QED BY <2>1, <3>1 DEF Reverse
  <2> QED BY <2>2 DEF up, Groups
<1> QED BY <1>3, <1>5, <1>6, <1>7

LEMMA FitsIs == \A name, size, atoms : Len(atoms) <= size => Fits(ToOutList(name, size, atoms))
BY DEF Fits, ToOutList

\* A name and other words before and after it.
LEMMA Between ==
    ASSUME NEW w \in Word, NEW x \in Seq(Word), NEW y \in Seq(Word)
    PROVE  <<w>> \o x \o y \in Seq(Word) /\ Len(<<w>> \o x \o y) = 1 + Len(x) + Len(y)
           /\ Len(x) \in Nat /\ Len(y) \in Nat
<1>1. <<w>> \in Seq(Word) /\ Len(<<w>>) = 1
  OBVIOUS
<1>2. <<w>> \o x \in Seq(Word) /\ Len(<<w>> \o x) = 1 + Len(x)
  BY <1>1, Joined
<1> QED BY <1>2, Joined

LEMMA NamedLength ==
    ASSUME Inv, NEW i \in DOMAIN params, NEW name \in Word, NEW tail \in Seq(Word)
    PROVE  Len(Named(name, i, tail)) = 2 + Len(getParents(i)) + Len(tail)
<1> DEFINE label == params[i].label
           groups == Groups(i)
<1>1. groups \in Seq(Word) /\ Len(groups) = Len(getParents(i)) /\ Len(getParents(i)) \in Nat /\ label \in Word
  BY PartsOfLists
<1> HIDE DEF groups, label
<1>2. <<label>> \in Seq(Word) /\ Len(<<label>>) = 1
  BY <1>1
<1>3. <<name>> \o groups \o <<label>> \in Seq(Word) /\ Len(<<name>> \o groups \o <<label>>) = 2 + Len(groups)
  BY <1>1, <1>2, Between
<1>4. Len((<<name>> \o groups \o <<label>>) \o tail) = 2 + Len(groups) + Len(tail)
  BY <1>3, Joined
<1> QED BY <1>1, <1>4 DEF Named, groups, label

LEMMA EventsFit ==
    ASSUME Inv, NEW i \in DOMAIN params, NEW list \in Events(i)
    PROVE  Fits(list)
<1>1. {"update", "add", "remove", "[bang]", "[group]"} \subseteq Word
  BY DEF Word
<1>2. /\ ValueAtoms(i) \in Seq(Word) /\ Len(ValueAtoms(i)) \in Nat /\ Len(ValueAtoms(i)) <= 1
      /\ Len(getParents(i)) \in Nat
  <2>1. /\ ValueAtoms(i) \in Seq(Word) /\ Len(getParents(i)) \in Nat
        /\ Len(ValueAtoms(i)) = IF IsValue(i) THEN 1 ELSE 0
    BY PartsOfLists, Zenon
  <2> QED BY <2>1
<1>3. Fits(parameterUpdateList(i))
  <2>1. Len(Named("update", i, ValueAtoms(i))) <= Reserved(3, i)
    <3>1. Len(Named("update", i, ValueAtoms(i))) = 2 + Len(getParents(i)) + Len(ValueAtoms(i))
      BY <1>1, <1>2, NamedLength
    <3> QED BY <1>2, <3>1 DEF Reserved
  <2> QED BY <2>1, FitsIs DEF parameterUpdateList
<1>4. Fits(parameterRemoved(i))
  <2>1. <<>> \in Seq(Word) /\ Len(<<>>) = 0
    OBVIOUS
  <2>2. Len(Named("remove", i, <<>>)) = 2 + Len(getParents(i)) + 0
    <3>1. "remove" \in Word
      BY <1>1
    <3> QED BY <2>1, <3>1, NamedLength, Zenon
  <2>3. Len(Named("remove", i, <<>>)) <= Reserved(2, i)
    BY <1>2, <2>2 DEF Reserved
  <2> QED BY <2>3, FitsIs DEF parameterRemoved
<1>5. Fits(parameterAdded(i))
  <2> DEFINE tail == CASE IsValue(i) -> ValueAtoms(i)
                       [] params[i].type = "b" -> <<"[bang]">>
                       [] IsGroup(i) -> <<"[group]">>
  <2>1. params[i].type \in ValueType \cup {"b", "group"}
    BY ParametersAssumption DEF Inv, TypeOK, Parameter
  <2>2. /\ <<"[bang]">> \in Seq(Word) /\ Len(<<"[bang]">>) = 1
        /\ <<"[group]">> \in Seq(Word) /\ Len(<<"[group]">>) = 1
    BY <1>1
  <2>3. tail \in Seq(Word) /\ Len(tail) <= 1
    <3>1. IsValue(i) <=> params[i].type \in {"f", "i", "t", "s"}
      BY DEF IsValue, ValueType
    <3>2. IsGroup(i) <=> params[i].type = "group"
      BY DEF IsGroup
    <3>3. CASE params[i].type \in {"f", "i", "t", "s"}
      BY <1>2, <3>1, <3>2, <3>3
    <3>4. CASE params[i].type = "b"
      BY <2>2, <3>1, <3>2, <3>4
    <3>5. CASE params[i].type = "group"
      BY <2>2, <3>1, <3>2, <3>5
    <3> QED BY <2>1, <3>3, <3>4, <3>5 DEF ValueType
  <2> HIDE DEF tail
  <2>4. Len(Named("add", i, tail)) <= Reserved(3, i)
    BY <1>1, <1>2, <2>3, NamedLength DEF Reserved
  <2> QED BY <2>4, FitsIs DEF parameterAdded, tail
<1> QED BY <1>3, <1>4, <1>5 DEF Events

\* The limits that are there are those counted.
LEMMA LimitsCounted ==
    ASSUME NEW i, NEW has \in SUBSET Limit
    PROVE  /\ Limits(i, has) \in Seq(Word) /\ Cardinality(has) \in Nat
           /\ Len(Limits(i, has)) = IF IsNumber(i) THEN Cardinality(has) ELSE 0
<1>1. "min" \in Word /\ "max" \in Word
  BY DEF Word
<1>2. /\ Cardinality({}) = 0 /\ Cardinality({"min"}) = 1 /\ Cardinality({"max"}) = 1
      /\ Cardinality({"min", "max"}) = 2
  <2>1. IsFiniteSet({}) /\ Cardinality({}) = 0
    BY FS_EmptySet
  <2>2. Cardinality({"min"}) = 1 /\ Cardinality({"max"}) = 1 /\ IsFiniteSet({"min"})
    BY FS_Singleton
  <2>3. Cardinality({"min"} \cup {"max"}) = 2
    BY <2>2, FS_AddElement
  <2>4. {"min"} \cup {"max"} = {"min", "max"}
    OBVIOUS
  <2> QED BY <2>1, <2>2, <2>3, <2>4
<1>3. /\ <<"min">> \in Seq(Word) /\ Len(<<"min">>) = 1 /\ <<"max">> \in Seq(Word) /\ Len(<<"max">>) = 1
      /\ <<>> \in Seq(Word) /\ Len(<<>>) = 0
  BY <1>1
<1>4. /\ OneOf("min", has) \in Seq(Word) /\ Len(OneOf("min", has)) = IF "min" \in has THEN 1 ELSE 0
      /\ OneOf("max", has) \in Seq(Word) /\ Len(OneOf("max", has)) = IF "max" \in has THEN 1 ELSE 0
  BY <1>3 DEF OneOf
<1>5. /\ OneOf("min", has) \o OneOf("max", has) \in Seq(Word)
      /\ Len(OneOf("min", has) \o OneOf("max", has)) = Len(OneOf("min", has)) + Len(OneOf("max", has))
  BY <1>4, Joined
<1>6. has = {} \/ has = {"min"} \/ has = {"max"} \/ has = {"min", "max"}
  BY DEF Limit
<1>7. Cardinality(has) = Len(OneOf("min", has)) + Len(OneOf("max", has))
  <2> DEFINE size == Cardinality(has)
             lower == Len(OneOf("min", has))
             upper == Len(OneOf("max", has))
  <2>1. ASSUME has = {} PROVE size = 0 /\ lower = 0 /\ upper = 0
    <3>1. size = 0
      BY <1>2, <2>1, Zenon
    <3> QED BY <1>4, <2>1, <3>1
  <2>2. ASSUME has = {"min"} PROVE size = 1 /\ lower = 1 /\ upper = 0
    <3>1. size = 1
      BY <1>2, <2>2, Zenon
    <3> QED BY <1>4, <2>2, <3>1
  <2>3. ASSUME has = {"max"} PROVE size = 1 /\ lower = 0 /\ upper = 1
    <3>1. size = 1
      BY <1>2, <2>3, Zenon
    <3> QED BY <1>4, <2>3, <3>1
  <2>4. ASSUME has = {"min", "max"} PROVE size = 2 /\ lower = 1 /\ upper = 1
    <3>1. size = 2
      BY <1>2, <2>4, Zenon
    <3> QED BY <1>4, <2>4, <3>1
  <2> HIDE DEF size, lower, upper
  <2>5. size = lower + upper
    BY <1>6, <2>1, <2>2, <2>3, <2>4
  <2> QED BY <2>5 DEF size, lower, upper
<1>8. Cardinality(has) \in Nat
  BY <1>4, <1>7
<1> QED BY <1>3, <1>5, <1>7, <1>8 DEF Limits

LEMMA InfoFits ==
    ASSUME Inv, NEW i \in DOMAIN params, NEW args \in Seq(Word), NEW has \in SUBSET Limit
    PROVE  Fits(_outputInfo(i, args, has))
<1> DEFINE value == ValueAtoms(i)
           limits == Limits(i, has)
           type == typeToString[params[i].type]
           begin == <<"info">> \o args \o value
<1>1. "info" \in Word /\ i \in Word
  BY DEF Word, Inv, TypeOK
<1>2. value \in Seq(Word) /\ Len(value) = (IF IsValue(i) THEN 1 ELSE 0) /\ type \in Word
  BY PartsOfLists
<1>3. /\ limits \in Seq(Word) /\ Cardinality(has) \in Nat
      /\ Len(limits) = IF IsNumber(i) THEN Cardinality(has) ELSE 0
  BY LimitsCounted
<1>4. IsNumber(i) => IsValue(i)
  BY DEF IsNumber, IsValue, ValueType
<1> HIDE DEF value, limits, type
<1>5. begin \in Seq(Word) /\ Len(begin) = 1 + Len(args) + Len(value) /\ Len(args) \in Nat
  <2> HIDE DEF begin
  <2>1. "info" \in Word /\ value \in Seq(Word)
    BY <1>1, <1>2
  <2>2. <<"info">> \o args \o value \in Seq(Word) /\ Len(<<"info">> \o args \o value) = 1 + Len(args) + Len(value)
        /\ Len(args) \in Nat
    BY <2>1, Between
  <2> QED BY <2>2 DEF begin
<1> HIDE DEF begin
<1>6. begin \o limits \in Seq(Word) /\ Len(begin \o limits) = Len(begin) + Len(limits)
  BY <1>3, <1>5, Joined
<1>7. <<i, type>> \in Seq(Word) /\ Len(<<i, type>>) = 2
  BY <1>1, <1>2
<1>8. Len((begin \o limits) \o <<i, type>>) = Len(begin) + Len(limits) + 2
  BY <1>6, <1>7, Joined
<1>9. Len((begin \o limits) \o <<i, type>>) <= InfoSize(i, args, has)
  BY <1>2, <1>3, <1>4, <1>5, <1>8 DEF InfoSize
<1> QED BY <1>9, FitsIs DEF _outputInfo, begin, value, limits, type

LEMMA AnswersFit ==
    ASSUME Inv, NEW i \in DOMAIN params, NEW args \in Seq(Word), NEW has \in SUBSET Limit,
           NEW list \in Answers(i, args, has)
    PROVE  Fits(list)
<1>1. {"id", "type", "readonly", "order", "value", "min", "max", 0, 1} \subseteq Word /\ i \in Word
  BY DEF Word, Inv, TypeOK
<1>2. /\ ValueAtoms(i) \in Seq(Word) /\ Len(ValueAtoms(i)) = (IF IsValue(i) THEN 1 ELSE 0)
      /\ typeToString[params[i].type] \in Word
  BY PartsOfLists
<1>3. ASSUME NEW w \in Word
      PROVE  <<w>> \in Seq(Word) /\ Len(<<w>>) = 1
  OBVIOUS
<1>4. Fits(parameterId(i, args))
  <2>1. Len(<<"id">> \o args \o <<i>>) <= 2 + Len(args)
    BY <1>1, <1>3, Between
  <2> QED BY <2>1, FitsIs DEF parameterId
<1>5. Fits(parameterType(i, args))
  <2> DEFINE type == typeToString[params[i].type]
  <2>1. <<type>> \in Seq(Word) /\ Len(<<type>>) = 1
    BY <1>2, <1>3
  <2> HIDE DEF type
  <2>2. Len(<<"type">> \o args \o <<type>>) <= 2 + Len(args)
    BY <1>1, <2>1, Between
  <2> QED BY <2>2, FitsIs DEF parameterType, type
<1>6. Fits(parameterReadonly(i, args))
  <2>1. Len(<<"readonly">> \o args \o <<1>>) <= 2 + Len(args)
    BY <1>1, <1>3, Between
  <2> QED BY <2>1, FitsIs DEF parameterReadonly
<1>7. Fits(parameterOrder(i, args))
  <2>1. Len(<<"order">> \o args \o <<0>>) <= 2 + Len(args)
    BY <1>1, <1>3, Between
  <2> QED BY <2>1, FitsIs DEF parameterOrder
<1>8. Fits(parameterValue(i, args))
  <2>1. Len(<<"value">> \o args \o ValueAtoms(i)) <= 1 + Len(args) + IF IsValue(i) THEN 1 ELSE 0
    <3>1. "value" \in Word /\ ValueAtoms(i) \in Seq(Word)
      BY <1>1, <1>2
    <3>2. /\ Len(<<"value">> \o args \o ValueAtoms(i)) = 1 + Len(args) + Len(ValueAtoms(i))
          /\ Len(args) \in Nat
      BY <3>1, Between, Zenon
    <3> QED BY <1>2, <3>2
  <2> QED BY <2>1, FitsIs DEF parameterValue
<1>9. \A l \in Limit : Limits(i, {l}) \in Seq(Word) /\ Len(Limits(i, {l})) <= 1
  <2> SUFFICES ASSUME NEW l \in Limit PROVE Limits(i, {l}) \in Seq(Word) /\ Len(Limits(i, {l})) <= 1
    OBVIOUS
  <2>1. Cardinality({l}) = 1
    BY FS_Singleton
  <2>2. {l} \in SUBSET Limit
    OBVIOUS
  <2> QED BY <2>1, <2>2, LimitsCounted
<1>10. \A answer \in parameterMin(i, args, has) : Fits(answer)
  <2>1. Len(<<"min">> \o args \o Limits(i, {"min"})) <= 1 + Len(args) + 1
    BY <1>1, <1>9, Between DEF Limit
  <2>2. Fits(ToOutList("min", 1 + Len(args) + 1, <<"min">> \o args \o Limits(i, {"min"})))
    BY <2>1, FitsIs, Zenon
  <2>3. \A answer \in parameterMin(i, args, has) :
           answer = ToOutList("min", 1 + Len(args) + 1, <<"min">> \o args \o Limits(i, {"min"}))
    BY Zenon DEF parameterMin
  <2> QED BY <2>2, <2>3, Zenon
<1>11. \A answer \in parameterMax(i, args, has) : Fits(answer)
  <2>1. Len(<<"max">> \o args \o Limits(i, {"max"})) <= 1 + Len(args) + 1
    BY <1>1, <1>9, Between DEF Limit
  <2>2. Fits(ToOutList("max", 1 + Len(args) + 1, <<"max">> \o args \o Limits(i, {"max"})))
    BY <2>1, FitsIs, Zenon
  <2>3. \A answer \in parameterMax(i, args, has) :
           answer = ToOutList("max", 1 + Len(args) + 1, <<"max">> \o args \o Limits(i, {"max"}))
    BY Zenon DEF parameterMax
  <2> QED BY <2>2, <2>3, Zenon
<1>12. Fits(_outputInfo(i, args, has))
  BY InfoFits
<1> QED
  BY <1>4, <1>5, <1>6, <1>7, <1>8, <1>10, <1>11, <1>12 DEF Answers

\* No list about a parameter is written beyond its size, however deep the parameter is
\* (ParameterServerClientBase.cpp:285-374, 671-707; ParameterClient.cpp:197-258).
THEOREM NoListOverflows == Spec => []ListsFit
<1>1. Inv => ListsFit
  <2> SUFFICES ASSUME Inv PROVE ListsFit
    OBVIOUS
  <2>1. \A i \in DOMAIN params : \A list \in Events(i) : Fits(list)
    BY EventsFit
  <2>2. ASSUME NEW has \in SUBSET Limit, NEW list \in parameterInfo(has) PROVE Fits(list)
    BY PartsOfLists, InfoFits DEF parameterInfo
  <2>3. ASSUME NEW has \in SUBSET Limit, NEW i \in DOMAIN params,
               NEW list \in Answers(i, Append(Groups(i), params[i].label), has)
        PROVE  Fits(list)
    <3>1. Append(Groups(i), params[i].label) \in Seq(Word)
      BY PartsOfLists
    <3> QED BY <3>1, AnswersFit
  <2> QED BY <2>1, <2>2, <2>3 DEF ListsFit
<1> QED
  BY <1>1, Invariant, PTL

-----------------------------------------------------------------------------
\* A parameter is below every group of its line.
LEMMA LineIsLineage ==
    ASSUME TypeOK, Rooted, NEW i \in DOMAIN params, NEW chain, IsLine(chain, i), NEW k \in 1 .. Depth(i)
    PROVE  chain[k] \in Lineage(i)
<1> DEFINE n == Depth(i)
<1>1. n \in Nat
  BY LineExists DEF Depth
<1>2. /\ chain \in [1 .. n -> DOMAIN params] /\ chain[n] = i
      /\ \A j \in 2 .. n : params[chain[j]].parent = chain[j - 1]
  BY DEF IsLine
<1>3. k \in 1 .. n
  OBVIOUS
<1> HIDE DEF n
<1>4. ASSUME NEW S \in SUBSET DOMAIN params, chain[k] \in S,
             \A j \in DOMAIN params : params[j].parent \in S => j \in S
      PROVE  i \in S
  <2> DEFINE T == {d \in 0 .. n - k : chain[k + d] \in S}
  <2>1. 0 \in T
    BY <1>1, <1>3, <1>4
  <2>2. ASSUME NEW d \in 0 .. n - k - 1, d \in T
        PROVE  d + 1 \in T
    <3>1. k + (d + 1) \in 2 .. n /\ k + (d + 1) \in 1 .. n /\ (k + (d + 1)) - 1 = k + d /\ d + 1 \in 0 .. n - k
      BY <1>1, <1>3
    <3>2. params[chain[k + (d + 1)]].parent = chain[k + d] /\ chain[k + (d + 1)] \in DOMAIN params
      BY <1>2, <3>1
    <3>3. chain[k + d] \in S
      BY <2>2
    <3>4. chain[k + (d + 1)] \in S
      BY <1>4, <3>2, <3>3
    <3> QED BY <3>1, <3>4
  <2>3. n - k \in Nat /\ (n - k) - 1 = n - k - 1
    BY <1>1, <1>3
  <2> HIDE DEF T
  <2>4. 0 .. n - k \subseteq T
    BY <2>1, <2>2, <2>3, UpTo
  <2>5. n - k \in T
    BY <2>3, <2>4
  <2>6. chain[k + (n - k)] \in S
    BY <2>5 DEF T
  <2>7. k + (n - k) = n
    BY <1>1, <1>3
  <2> QED BY <1>2, <2>6, <2>7
<1>5. chain[k] \in DOMAIN params
  BY <1>2, <1>3
<1> QED BY <1>4, <1>5 DEF Lineage, Below

\* Without a twin, a label leads to one parameter of a group.
LEMMA FindsOne ==
    ASSUME NEW j \in DOMAIN params, ~Twin(j)
    PROVE  rcp_manager_find_parameter(params[j].label, params[j].parent) = {j}
BY DEF rcp_manager_find_parameter, Twin

\* The labels of a line, from the top, lead to its end.
LEMMA LineLeads ==
    ASSUME TypeOK, Rooted, NEW i \in DOMAIN params, NEW chain, IsLine(chain, i), Depth(i) > 1,
           \A j \in Lineage(i) : ~Twin(j),
           NEW T, NEW path \in Seq(T), Len(path) = Depth(i) - 1,
           \A k \in 1 .. Len(path) : path[k] = params[chain[k + 1]].label
    PROVE  getParameter(path, chain[1]) = {i}
<1> DEFINE n == Depth(i)
           m == Len(path)
<1>1. n \in Nat /\ m \in Nat \ {0} /\ m = n - 1
  BY LineExists DEF Depth
<1>2. /\ chain \in [1 .. n -> DOMAIN params] /\ chain[n] = i
      /\ \A j \in 2 .. n : params[chain[j]].parent = chain[j - 1]
  BY DEF IsLine
<1>3. \A k \in 1 .. n : ~Twin(chain[k])
  BY LineIsLineage
<1>4. \A k \in 1 .. n : chain[k] \in Id /\ chain[k] # NULL /\ chain[k] \in DOMAIN params
  BY <1>2, ParametersAssumption DEF TypeOK
<1>5. \A k \in 1 .. n - 1 : IsGroup(chain[k])
  <2> SUFFICES ASSUME NEW k \in 1 .. n - 1 PROVE IsGroup(chain[k])
    OBVIOUS
  <2>1. k + 1 \in 2 .. n /\ k + 1 \in 1 .. n /\ k \in 1 .. n /\ (k + 1) - 1 = k
    BY <1>1
  <2>2. params[chain[k + 1]].parent = chain[k] /\ chain[k + 1] \in DOMAIN params /\ chain[k] # NULL
    BY <1>2, <1>4, <2>1
  <2> QED BY <2>2 DEF Rooted
<1> HIDE DEF n
<1>6. PICK f : FindsBy(f, path, chain[1]) /\ getParameter(path, chain[1]) = {g.param : g \in f[m]} \ {NULL}
  <2>1. chain[1] \in Id \cup {NULL}
    BY <1>1, <1>4
  <2> QED BY <2>1, FoundFollows
<1> DEFINE S == {k \in 0 .. m : \E g : /\ f[k] = {g} /\ (k > 0 => g.param = chain[k + 1])
                                       /\ k < m => g.last_group = chain[k + 1]}
<1>7. 0 \in S
  <2>1. f[0] = {Found(NULL, chain[1])}
    BY <1>6 DEF FindsBy
  <2>2. Found(NULL, chain[1]).last_group = chain[0 + 1]
    BY DEF Found
  <2> QED BY <1>1, <2>1, <2>2
<1>8. ASSUME NEW k \in 0 .. m - 1, k \in S
      PROVE  k + 1 \in S
  <2> DEFINE j == chain[k + 2]
             of(e) == {Found(x, e.last_group) : x \in rcp_manager_find_parameter(path[k + 1], e.last_group)}
  <2>1. /\ k + 1 \in 1 .. m /\ (k + 1) - 1 = k /\ (k + 1) + 1 = k + 2 /\ k < m /\ k + 1 \in 0 .. m
        /\ k + 2 \in 2 .. n /\ k + 2 \in 1 .. n /\ (k + 2) - 1 = k + 1 /\ (k + 1 < m => k + 2 \in 1 .. n - 1)
    BY <1>1
  <2>2. PICK g : f[k] = {g} /\ g.last_group = chain[k + 1]
    BY <1>8, <2>1
  <2>3. params[j].parent = g.last_group /\ params[j].label = path[k + 1] /\ j \in DOMAIN params /\ ~Twin(j) /\ j # NULL
    <3>1. path[k + 1] = params[chain[(k + 1) + 1]].label
      BY <2>1
    <3> QED BY <1>2, <1>3, <1>4, <2>1, <2>2, <3>1
  <2>4. k + 1 < m => IsGroup(j)
    BY <1>5, <2>1
  <2>5. f[k + 1] = UNION {of(e) : e \in f[k]}
    BY <1>6, <2>1 DEF FindsBy
  <2> HIDE DEF j
  <2>6. of(g) = {Found(j, g.last_group)}
    <3>1. rcp_manager_find_parameter(path[k + 1], g.last_group) = {j}
      BY <2>3, FindsOne
    <3> QED BY <3>1
  <2> HIDE DEF of
  <2>7. f[k + 1] = {Found(j, g.last_group)}
    <3>1. UNION {of(e) : e \in {g}} = of(g)
      OBVIOUS
    <3> QED BY <2>2, <2>5, <2>6, <3>1
  <2>8. Found(j, g.last_group).param = j /\ (k + 1 < m => Found(j, g.last_group).last_group = j)
    BY <2>3, <2>4 DEF Found
  <2>9. chain[(k + 1) + 1] = j
    BY <2>1 DEF j
  <2> QED BY <2>1, <2>7, <2>8, <2>9
<1> HIDE DEF S
<1>9. 0 .. m \subseteq S
  <2>1. m \in Nat
    BY <1>1
  <2> HIDE DEF m
  <2> QED BY <1>7, <1>8, <2>1, UpTo
<1>10. m \in S /\ m > 0 /\ m + 1 = n
  <2> HIDE DEF m
  <2>1. m \in 0 .. m
    BY <1>1
  <2> QED BY <1>1, <1>9, <2>1
<1>11. PICK g : f[m] = {g} /\ g.param = chain[m + 1]
  BY <1>10 DEF S
<1>12. {x.param : x \in f[m]} = {i} /\ i # NULL
  <2>1. g.param = i /\ i # NULL
    BY <1>1, <1>2, <1>4, <1>10, <1>11
  <2>2. {x.param : x \in {g}} = {g.param}
    OBVIOUS
  <2> QED BY <1>11, <2>1, <2>2
<1> QED BY <1>6, <1>12

\* An update sent back is the labels of the line, and the value.
LEMMA MessageIsLine ==
    ASSUME Inv, NEW i \in DOMAIN params, NEW chain, IsLine(chain, i)
    PROVE  /\ SentBack(i) \in Seq(Word) /\ Len(SentBack(i)) = Depth(i) + Len(ValueAtoms(i))
           /\ \A k \in 1 .. Depth(i) : SentBack(i)[k] = params[chain[k]].label
<1> DEFINE label == params[i].label
           groups == Groups(i)
           value == ValueAtoms(i)
           n == Depth(i)
<1>1. /\ groups \in Seq(Word) /\ label \in Word /\ value \in Seq(Word)
      /\ n \in Nat \ {0} /\ Len(groups) = n - 1 /\ Len(value) \in Nat
  <2>1. /\ Groups(i) \in Seq(Word) /\ Len(Groups(i)) = Len(getParents(i)) /\ Len(getParents(i)) \in Nat
        /\ params[i].label \in Word /\ ValueAtoms(i) \in Seq(Word)
    BY PartsOfLists, Zenon
  <2> QED BY <2>1 DEF Depth
<1>2. \A k \in 1 .. n - 1 : groups[k] = params[chain[k]].label
  <2> DEFINE up == getParents(i)
  <2>1. Len(up) = n - 1 /\ groups = Reverse(up)
    BY <1>1, PartsOfLists DEF Groups
  <2>2. \A k \in 1 .. n - 1 : up[n - k] = params[chain[k]].label
    BY DEF IsLine
  <2> HIDE DEF up, n, groups
  <2>3. \A k \in 1 .. n - 1 : groups[k] = up[(Len(up) - k) + 1]
    BY <2>1 DEF Reverse
  <2>4. \A k \in 1 .. n - 1 : (Len(up) - k) + 1 = n - k
    BY <1>1, <2>1
  <2> QED BY <2>2, <2>3, <2>4, Zenon
<1>3. label = params[chain[n]].label
  BY DEF IsLine
<1>4. SentBack(i) = Tail(<<"update">> \o groups \o <<label>> \o value)
  BY DEF SentBack, parameterUpdateList, ToOutList, Named
<1> HIDE DEF label, groups, value, n
<1> DEFINE names == groups \o <<label>>
           message == names \o value
<1>5. /\ names \in Seq(Word) /\ Len(names) = n
      /\ \A k \in 1 .. n - 1 : names[k] = groups[k]
      /\ names[n] = label
  <2>1. <<label>> \in Seq(Word) /\ Len(<<label>>) = 1 /\ <<label>>[1] = label
    BY <1>1
  <2>2. /\ names \in Seq(Word) /\ Len(names) = Len(groups) + Len(<<label>>)
        /\ \A k \in 1 .. Len(groups) : names[k] = groups[k]
        /\ \A k \in 1 .. Len(<<label>>) : names[Len(groups) + k] = <<label>>[k]
    <3> DEFINE last == <<label>>
    <3> HIDE DEF last
    <3>1. groups \in Seq(Word) /\ last \in Seq(Word)
      BY <1>1, <2>1 DEF last
    <3>2. /\ groups \o last \in Seq(Word) /\ Len(groups \o last) = Len(groups) + Len(last)
          /\ \A k \in 1 .. Len(groups) : (groups \o last)[k] = groups[k]
          /\ \A k \in 1 .. Len(last) : (groups \o last)[Len(groups) + k] = last[k]
      BY <3>1, Joined
    <3> QED BY <3>2 DEF last
  <2>3. names[Len(groups) + 1] = label
    BY <2>1, <2>2
  <2>4. Len(groups) + 1 = n
    BY <1>1
  <2> HIDE DEF names
  <2> QED BY <1>1, <2>1, <2>2, <2>3, <2>4
<1> HIDE DEF names
<1>6. /\ message \in Seq(Word) /\ Len(message) = n + Len(value)
      /\ \A k \in 1 .. n : message[k] = names[k]
  <2>1. /\ names \o value \in Seq(Word) /\ Len(names \o value) = Len(names) + Len(value)
        /\ \A k \in 1 .. Len(names) : (names \o value)[k] = names[k]
        /\ \A k \in 1 .. Len(value) : (names \o value)[Len(names) + k] = value[k]
    <3>1. names \in Seq(Word) /\ value \in Seq(Word)
      BY <1>1, <1>5
    <3> QED BY <3>1, Joined
  <2> QED BY <1>5, <2>1
<1>7. <<"update">> \o groups \o <<label>> \o value = <<"update">> \o message
  <2>1. ASSUME NEW T, NEW a \in Seq(T), NEW b \in Seq(T), NEW c \in Seq(T), NEW d \in Seq(T)
        PROVE  a \o b \o c \o d = a \o ((b \o c) \o d)
    OBVIOUS
  <2>2. <<"update">> \in Seq(Word) /\ <<label>> \in Seq(Word)
    BY <1>1 DEF Word
  <2> QED BY <1>1, <2>1, <2>2 DEF names
<1> HIDE DEF message
<1>8. Tail(<<"update">> \o message) = message
  <2>1. ASSUME NEW T, NEW w \in T, NEW s \in Seq(T)
        PROVE  Tail(<<w>> \o s) = s
    OBVIOUS
  <2>2. "update" \in Word
    BY DEF Word
  <2> QED BY <1>6, <2>1, <2>2
<1>9. SentBack(i) = message
  BY <1>4, <1>7, <1>8
<1>10. \A k \in 1 .. n : message[k] = params[chain[k]].label
  <2> SUFFICES ASSUME NEW k \in 1 .. n PROVE message[k] = params[chain[k]].label
    OBVIOUS
  <2>1. CASE k = n
    BY <1>3, <1>5, <1>6, <2>1
  <2>2. CASE k # n
    <3>1. k \in 1 .. n - 1
      BY <1>1, <2>2
    <3> QED BY <1>2, <1>5, <1>6, <3>1
  <2> QED BY <2>1, <2>2
<1> QED BY <1>6, <1>9, <1>10 DEF n, value

\* An update sent back sets the parameter it came from and no other, however deep it is and
\* whatever is beside its groups (ParameterServerClientBase.cpp:643-712, 175-255).
THEOREM UpdatesLeadBack == Spec => []UpdateLeadsBack
<1>1. Inv => UpdateLeadsBack
  <2> SUFFICES ASSUME Inv, NEW i \in DOMAIN params,
                      IsValue(i) \/ (params[i].type = "b" /\ params[i].parent = NULL),
                      \A j \in Lineage(i) : ~Twin(j)
               PROVE  UNION {Addressed(p, Tail(SentBack(i))) :
                                p \in rcp_manager_find_parameter(Head(SentBack(i)), NULL)} = {i}
    BY DEF UpdateLeadsBack
  <2> DEFINE m == SentBack(i)
             n == Depth(i)
  <2>1. TypeOK /\ Rooted
    BY DEF Inv, TreeInv
  <2>2. PICK chain : IsLine(chain, i)
    BY <2>1, LineExists
  <2>3. n \in Nat \ {0}
    BY <2>1, LineExists DEF Depth
  <2>4. /\ m \in Seq(Word) /\ Len(m) = n + Len(ValueAtoms(i))
        /\ \A k \in 1 .. n : m[k] = params[chain[k]].label
    BY <2>2, MessageIsLine
  <2>5. Len(ValueAtoms(i)) = IF IsValue(i) THEN 1 ELSE 0
    BY PartsOfLists, Zenon
  <2>6. /\ chain \in [1 .. n -> DOMAIN params] /\ chain[n] = i /\ params[chain[1]].parent = NULL
        /\ \A k \in 2 .. n : params[chain[k]].parent = chain[k - 1]
    BY <2>2 DEF IsLine
  <2>7. ~IsGroup(i)
    BY DEF IsGroup, IsValue, ValueType
  <2> DEFINE top == chain[1]
  <2>8. top \in DOMAIN params /\ ~Twin(top) /\ top # NULL
    <3>1. 1 \in 1 .. n
      BY <2>3
    <3>2. top \in Lineage(i)
      BY <2>1, <2>2, <3>1, LineIsLineage
    <3> QED BY <2>1, <3>2, ParametersAssumption DEF Lineage, TypeOK
  <2>9. Head(m) = params[top].label
    <3>1. Head(m) = m[1] /\ 1 \in 1 .. n
      <4>1. Len(m) > 0
        BY <2>3, <2>4, <2>5
      <4> HIDE DEF m, n
      <4> QED BY <2>3, <2>4, <4>1
    <3> HIDE DEF m
    <3> QED BY <2>4, <3>1
  <2>10. rcp_manager_find_parameter(Head(m), NULL) = {top}
    <3> HIDE DEF m, top
    <3>1. params[top].parent = NULL
      BY <2>6 DEF top
    <3> QED BY <2>8, <2>9, <3>1, FindsOne
  <2>11. Addressed(top, Tail(m)) = {i}
    <3>1. CASE n = 1
      <4>1. top = i
        BY <2>6, <3>1
      <4> QED BY <2>7, <4>1 DEF Addressed
    <3>2. CASE n > 1
      <4>1. IsValue(i)
        <5>1. n \in 2 .. n /\ n - 1 \in 1 .. n
          BY <2>3, <3>2
        <5>2. params[i].parent = chain[n - 1] /\ chain[n - 1] \in DOMAIN params
          BY <2>6, <5>1
        <5> QED BY <2>1, <5>2, ParametersAssumption DEF TypeOK
      <4>2. Len(m) = n + 1
        BY <2>4, <2>5, <4>1
      <4>3. IsGroup(top)
        <5>1. 2 \in 2 .. n /\ 2 \in 1 .. n /\ 2 - 1 = 1
          BY <2>3, <3>2
        <5>2. params[chain[2]].parent = top /\ chain[2] \in DOMAIN params
          BY <2>6, <5>1
        <5> QED BY <2>1, <2>8, <5>2 DEF Rooted
      <4> DEFINE path == Front(Tail(m))
      <4>4. /\ path \in Seq(Word) /\ Len(path) = n - 1 /\ Len(Tail(m)) = n
            /\ \A k \in 1 .. n - 1 : path[k] = m[k + 1]
        <5>1. ASSUME NEW s \in Seq(Word), Len(s) > 1
              PROVE  /\ Tail(s) \in Seq(Word) /\ Len(Tail(s)) = Len(s) - 1
                     /\ \A k \in 1 .. Len(s) - 1 : Tail(s)[k] = s[k + 1]
          BY <5>1
        <5>2. ASSUME NEW s \in Seq(Word), Len(s) > 0
              PROVE  /\ Front(s) \in Seq(Word) /\ Len(Front(s)) = Len(s) - 1
                     /\ \A k \in 1 .. Len(s) - 1 : Front(s)[k] = s[k]
          <6>1. Front(s) = SubSeq(s, 1, Len(s) - 1)
            BY DEF Front
          <6>2. Len(s) \in Nat /\ Len(s) - 1 \in 0 .. Len(s)
            BY <5>2
          <6>3. ASSUME NEW l \in 0 .. Len(s)
                PROVE  /\ SubSeq(s, 1, l) \in Seq(Word) /\ Len(SubSeq(s, 1, l)) = l
                       /\ \A k \in 1 .. l : SubSeq(s, 1, l)[k] = s[k]
            OBVIOUS
          <6> QED BY <6>1, <6>2, <6>3
        <5> DEFINE t == Tail(m)
        <5>3. /\ t \in Seq(Word) /\ Len(t) = n
              /\ \A k \in 1 .. n : t[k] = m[k + 1]
          <6>1. Len(m) > 1 /\ Len(m) - 1 = n
            BY <2>3, <4>2
          <6> HIDE DEF m, n
          <6> QED BY <2>4, <5>1, <6>1
        <5> HIDE DEF t, m, n
        <5>4. Len(t) > 0
          BY <2>3, <5>3
        <5>5. /\ Front(t) \in Seq(Word) /\ Len(Front(t)) = n - 1
              /\ \A k \in 1 .. n - 1 : Front(t)[k] = t[k]
          BY <5>2, <5>3, <5>4
        <5>6. \A k \in 1 .. n - 1 : Front(t)[k] = m[k + 1]
          BY <2>3, <5>3, <5>5
        <5> QED BY <5>3, <5>5, <5>6 DEF t
      <4> HIDE DEF path
      <4>5. \A k \in 1 .. Len(path) : path[k] = params[chain[k + 1]].label
        <5> HIDE DEF m, n
        <5>1. \A k \in 1 .. Len(path) : k \in 1 .. n - 1 /\ k + 1 \in 1 .. n
          BY <2>3, <4>4
        <5> QED BY <2>4, <4>4, <5>1
      <4>6. getParameter(path, top) = {i}
        BY <2>1, <2>2, <3>2, <4>4, <4>5, LineLeads
      <4> QED BY <3>2, <4>3, <4>4, <4>6 DEF Addressed, path
    <3> QED BY <2>3, <3>1, <3>2
  <2> HIDE DEF m, top
  <2>12. UNION {Addressed(p, Tail(m)) : p \in {top}} = Addressed(top, Tail(m))
    OBVIOUS
  <2> QED BY <2>10, <2>11, <2>12 DEF m
<1> QED
  BY <1>1, Invariant, PTL
=============================================================================
