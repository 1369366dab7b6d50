---------------------------- MODULE ParameterLists ----------------------------
(***************************************************************************)
(* What rcp.server and rcp.client say about parameters: the lists at their  *)
(* outlets (sources/ParameterServerClientBase.cpp, ParameterClient.cpp).    *)
(* Each is a vector of a size reckoned beforehand, filled atom by atom.     *)
(*                                                                         *)
(* The options of a parameter are any: rcp-c keeps them.  A patch may send  *)
(* a list back to set the parameter it is about.                            *)
(***************************************************************************)
EXTENDS Parameters

Limit == {"min", "max"}     \* options of numbers

ToOutList(name, size, atoms) == [name |-> name, size |-> size, atoms |-> atoms]

-----------------------------------------------------------------------------
(* What the lists are made of.                                             *)

typeToString ==
    [f |-> "float", i |-> "int", t |-> "toggle", b |-> "bang", s |-> "string", group |-> "group"]

IsValue(i) == params[i].type \in ValueType
IsNumber(i) == params[i].type \in {"f", "i"}

\* The labels from a parameter's group to the top.
getParents(i) ==
    LET up[j \in DOMAIN params] ==
            LET g == params[j].parent IN IF g = NULL THEN <<>> ELSE <<params[g].label>> \o up[g]
    IN  up[i]

\* The same in the order of getParents, and as they are written, from the top.
GroupsNearestFirst(i) == getParents(i)
Groups(i) == Reverse(getParents(i))

ValueAtoms(i) == IF IsValue(i) THEN <<params[i].value>> ELSE <<>>

\* The limits a number has, given as <<>> or <<atom>> each.
OneOf(l, has) == IF l \in has THEN <<l>> ELSE <<>>
Limits(i, has) == IF IsNumber(i) THEN OneOf("min", has) \o OneOf("max", has) ELSE <<>>

-----------------------------------------------------------------------------
(* Answers at outlet 3 to "info", "id", "type", ... and a path, args.       *)

\* The size without the maximum.
InfoSizeOfMin(i, args, has) ==
    3 + Len(args) + Len(ValueAtoms(i)) + IF IsNumber(i) THEN Cardinality(has \ {"max"}) ELSE 0

InfoSize(i, args, has) ==
    3 + Len(args) + IF IsValue(i) THEN 1 + (IF IsNumber(i) THEN Cardinality(has) ELSE 0) ELSE 0

_outputInfo(i, args, has) ==
    ToOutList("info", InfoSize(i, args, has),
        <<"info">> \o args \o ValueAtoms(i) \o Limits(i, has) \o <<i, typeToString[params[i].type]>>)

\* Without a path: all parameters, with the groups but not the label.
parameterInfo(has) == {_outputInfo(i, Groups(i), has) : i \in DOMAIN params}

parameterId(i, args) == ToOutList("id", 2 + Len(args), <<"id">> \o args \o <<i>>)
parameterType(i, args) ==
    ToOutList("type", 2 + Len(args), <<"type">> \o args \o <<typeToString[params[i].type]>>)
parameterReadonly(i, args) == ToOutList("readonly", 2 + Len(args), <<"readonly">> \o args \o <<1>>)
parameterOrder(i, args) == ToOutList("order", 2 + Len(args), <<"order">> \o args \o <<0>>)

parameterValue(i, args) ==
    ToOutList("value", 1 + Len(args) + IF IsValue(i) THEN 1 ELSE 0, <<"value">> \o args \o ValueAtoms(i))

\* Only for a limit the parameter has.
parameterMin(i, args, has) ==
    IF "min" \notin has THEN {}
    ELSE {ToOutList("min", 1 + Len(args) + 1, <<"min">> \o args \o Limits(i, {"min"}))}
parameterMax(i, args, has) ==
    IF "max" \notin has THEN {}
    ELSE {ToOutList("max", 1 + Len(args) + 1, <<"max">> \o args \o Limits(i, {"max"}))}

Answers(i, args, has) ==
    {_outputInfo(i, args, has), parameterId(i, args), parameterType(i, args),
     parameterReadonly(i, args), parameterOrder(i, args), parameterValue(i, args)}
    \cup parameterMin(i, args, has) \cup parameterMax(i, args, has)

-----------------------------------------------------------------------------
(* What happens to parameters: the id at outlet 1, then a list at outlet 0. *)

Named(name, i, tail) == <<name>> \o Groups(i) \o <<params[i].label>> \o tail
Reserved(size, i) == size + Len(getParents(i))

parameterUpdateList(i) == ToOutList("update", Reserved(3, i), Named("update", i, ValueAtoms(i)))

\* rcp.client, when the server has announced a parameter or taken it back.
parameterAdded(i) ==
    ToOutList("add", Reserved(3, i),
        Named("add", i, CASE IsValue(i) -> ValueAtoms(i)
                          [] params[i].type = "b" -> <<"[bang]">>
                          [] IsGroup(i) -> <<"[group]">>))
parameterRemoved(i) == ToOutList("remove", Reserved(2, i), Named("remove", i, <<>>))

Events(i) == {parameterUpdateList(i), parameterAdded(i), parameterRemoved(i)}

-----------------------------------------------------------------------------
(* Properties.                                                             *)

Fits(list) == Len(list.atoms) <= list.size

\* No list is written beyond its size, whichever of its parts are there: the sizes
\* and the parts are decided by conditions of their own
\* (ParameterServerClientBase.cpp:285-311 and 329-374, 530-557, 671-707;
\* ParameterClient.cpp:197-258).
ListsFit ==
    /\ \A i \in DOMAIN params : \A list \in Events(i) : Fits(list)
    /\ \A has \in SUBSET Limit :
          /\ \A list \in parameterInfo(has) : Fits(list)
          /\ \A i \in DOMAIN params :
                \A list \in Answers(i, Append(Groups(i), params[i].label), has) : Fits(list)

\* Another parameter beside i has its label.
Twin(i) == \E j \in DOMAIN params \ {i} : /\ params[j].label = params[i].label
                                         /\ params[j].parent = params[i].parent

\* i and the groups it is in.
Lineage(i) == {j \in DOMAIN params : i \in Below(j)}

\* A message that a patch makes of an update, without its first word.
SentBack(i) == Tail(parameterUpdateList(i).atoms)

\* An update sent back sets the parameter it came from and no other, however deep it
\* is (ParameterServerClientBase.cpp:643-712, 175-255): unless a value has the label
\* of a group beside it, where the message sets either.  A bang has no value in its
\* update: in a group, its path is taken for that of the group and a value.  Where
\* the first name is a selector the object knows ("value", :155-162) it has to be sent
\* back as a list, to m_list: the message of that selector is a question, not a setting.
UpdateLeadsBack ==
    \A i \in DOMAIN params :
        /\ IsValue(i) \/ (params[i].type = "b" /\ params[i].parent = NULL)
        /\ \A j \in Lineage(i) : ~Twin(j)
        => LET message == SentBack(i) IN
           UNION {Addressed(p, Tail(message)) : p \in rcp_manager_find_parameter(Head(message), NULL)} = {i}
=============================================================================
