----------------------------- MODULE Parameters ------------------------------
(***************************************************************************)
(* The parameters of rcp.server (sources/ParameterServer.cpp) and how its   *)
(* messages address them (sources/ParameterServerClientBase.cpp): a tree of *)
(* groups, in which expose creates what is missing, path by path.           *)
(*                                                                         *)
(* The tree is kept by rcp-c, of which this is the part the code relies on. *)
(* It collects changes in dirty until it is told to send them to the        *)
(* clients.  A client's message arrives on the service thread, so it may    *)
(* come between two steps of expose.                                        *)
(*                                                                         *)
(* Minimum, maximum, order and read-only are left out: whoever sets one     *)
(* sends the update, and nothing here depends on them.                      *)
(*                                                                         *)
(* An atom of a message is a symbol or a number; a label is a symbol, or    *)
(* Numeral, the text of a number, which is not equal to any atom.           *)
(***************************************************************************)
EXTENDS Integers, SequencesExt

CONSTANTS
    Id,             \* ids of parameters: 1 .. 32767, as many as fit in int16_t
    IdRange,        \* 2^16
    Symbol, Number, \* the atoms of messages
    Numeral,        \* GetAsString of a number
    Empty,          \* the string ""
    NULL,
    Type,           \* the types the patch uses
    MaxDepth        \* bound: atoms in the path of expose

ValueType == {"f", "i", "t", "s"}

ASSUME ParametersAssumption ==
    /\ IdRange \in Nat \ {0} /\ Id \subseteq 1 .. IdRange \div 2 - 1
    /\ Number \subseteq Int /\ Number # {} /\ MaxDepth \in Nat
    /\ NULL \notin Id /\ NULL \notin Number \cup Symbol
    /\ Type \subseteq ValueType \cup {"b"}

VARIABLES
    params,         \* the parameters rcp-c keeps, by id
    dirty,          \* the ids of those the clients have not been told of
    exposing        \* where exposeParameter is, or NotExposing

vars == <<params, dirty, exposing>>

Label == Symbol \cup {Numeral}
Atom == Symbol \cup Number
\* Every number does the same in a path.
Path == LET number == CHOOSE n \in Number : TRUE
        IN  UNION {[1 .. n -> Symbol \cup {number}] : n \in 1 .. MaxDepth}

Value == Number \cup Symbol \cup {0, 1, Empty, NULL}
Parameter == [label : Label, parent : Id \cup {NULL}, type : Type \cup {"group"}, value : Value]

\* What a parameter of each type may hold.
Values(type) ==
    CASE type \in {"f", "i"} -> Number \cup {0}
      [] type = "t" -> {0, 1}
      [] type = "s" -> Symbol \cup {Empty}
      [] OTHER -> {NULL}

NotExposing == <<>>
Exposing == [path : Seq(Atom), group : Id \cup {NULL}]

Init ==
    /\ params = <<>>
    /\ dirty = {}
    /\ exposing = NotExposing

-----------------------------------------------------------------------------
(* rcp-c.                                                                  *)

Free == Id \ DOMAIN params
IsGroup(i) == params[i].type = "group"

\* The parameters of that label in a group; of several, any may be found.
rcp_manager_find_parameter(label, group) ==
    {i \in DOMAIN params : params[i].label = label /\ params[i].parent = group}

rcp_server_find_group(label, group) == {i \in rcp_manager_find_parameter(label, group) : IsGroup(i)}

Put(i, p) == params' = [j \in DOMAIN params \cup {i} |-> IF j = i THEN p ELSE params[j]]

\* A parameter and everything below it: the least set that has it and what is in it.
Below(i) ==
    {j \in DOMAIN params :
        \A S \in SUBSET DOMAIN params :
            i \in S /\ (\A k \in DOMAIN params : params[k].parent \in S => k \in S) => j \in S}

\* rcp_server_update and rcp_manager_update.
Update == dirty' = {}

-----------------------------------------------------------------------------
(* How messages name parameters.                                           *)

\* A path that is looked for from the top all the time.
getParameterFromTop(path, group) ==
    IF path = <<>> THEN {} ELSE rcp_manager_find_parameter(Last(path), group)

\* A parameter that is no group leaves last_group as it was.
Found(i, last_group) == [param |-> i, last_group |-> IF i # NULL /\ IsGroup(i) THEN i ELSE last_group]

\* Label by label.
getParameter(path, group) ==
    LET found[k \in 0 .. Len(path)] ==
            IF k = 0 THEN {Found(NULL, group)}
            ELSE UNION {{Found(i, f.last_group) : i \in rcp_manager_find_parameter(path[k], f.last_group)} :
                            f \in found[k - 1]}
    IN  {f.param : f \in found[Len(path)]} \ {NULL}

GetAsString(atom) == IF atom \in Symbol THEN atom ELSE Numeral

\* int16_t id = GetAInt(...).
Int16(n) == ((n + IdRange \div 2) % IdRange) - IdRange \div 2

-----------------------------------------------------------------------------
(* expose, on Pd's thread.                                                 *)

Idle == exposing = NotExposing

\* "expose <type> <group> ... <label>", with at least a label.  The type is
\* checked here and used at the end.
exposeParameter(path) ==
    /\ Idle
    /\ exposing' = [path |-> path, group |-> NULL]
    /\ UNCHANGED <<params, dirty>>

NewGroup == [label |-> Head(exposing.path), parent |-> exposing.group, type |-> "group",
             value |-> NULL]

Descend(g) == exposing' = [path |-> Tail(exposing.path), group |-> g]

\* createGroups, for one name: the group is looked for and else created, unless
\* all ids are taken; then the next one is looked for at the top.
createGroups ==
    /\ ~Idle /\ Len(exposing.path) > 1
    /\ Head(exposing.path) \in Symbol
    /\ LET found == rcp_server_find_group(Head(exposing.path), exposing.group) IN
       \/ \E g \in found : Descend(g) /\ UNCHANGED <<params, dirty>>
       \/ \E g \in Free :
             found = {} /\ Put(g, NewGroup) /\ dirty' = dirty \cup {g} /\ Descend(g)
       \/ found = {} /\ Free = {} /\ Descend(NULL) /\ UNCHANGED <<params, dirty>>

\* A group name that is a number, or a label that is taken: the groups created
\* so far stay, and the clients are not told.
exposeFails ==
    /\ ~Idle
    /\ IF Len(exposing.path) > 1
       THEN Head(exposing.path) \notin Symbol
       ELSE rcp_manager_find_parameter(GetAsString(Head(exposing.path)), exposing.group) # {}
    /\ exposing' = NotExposing
    /\ UNCHANGED <<params, dirty>>

Default(type) == CASE type \in {"f", "i", "t"} -> 0 [] type = "s" -> Empty [] OTHER -> NULL

NewParameter(type) ==
    [label |-> GetAsString(Head(exposing.path)), parent |-> exposing.group,
     type |-> type, value |-> Default(type)]

\* The parameter itself, whatever else has that label.
exposeAnyway ==
    /\ ~Idle /\ Len(exposing.path) = 1
    /\ \/ \E i \in Free, type \in Type : Put(i, NewParameter(type))
       \/ Free = {} /\ UNCHANGED params
    /\ Update
    /\ exposing' = NotExposing

\* The parameter itself; without an id it "could not" be created.
expose ==
    /\ ~Idle /\ Len(exposing.path) = 1
    /\ rcp_manager_find_parameter(GetAsString(Head(exposing.path)), exposing.group) = {}
    /\ \/ \E i \in Free, type \in Type : Put(i, NewParameter(type))
       \/ Free = {} /\ UNCHANGED params
    /\ Update
    /\ exposing' = NotExposing

-----------------------------------------------------------------------------
(* The other messages.                                                     *)

removeParameter(n) ==
    LET i == Int16(n) IN
    /\ Idle /\ i \in DOMAIN params
    /\ params' = [j \in DOMAIN params \ Below(i) |-> params[j]]
    /\ Update
    /\ UNCHANGED exposing

removeParameterList(path) == \E i \in getParameter(path, NULL) : removeParameter(i)

\* An atom of whatever kind.
setAnyAtom(i, atom) == params' = [params EXCEPT ![i].value = atom]

\* setAtomValue: an atom of the wrong kind is left alone.
setAtomValue(i, atom) ==
    /\ \/ params[i].type \in {"f", "i", "t"} /\ atom \in Number
       \/ params[i].type = "s" /\ atom \in Symbol
    /\ params' = [params EXCEPT ![i].value = IF params[i].type # "t" THEN atom
                                             ELSE IF atom > 0 THEN 1 ELSE 0]

\* The value without the update that sends it.
SetValueOnly(i, atom) == setAtomValue(i, atom) /\ dirty' = dirty \cup {i} /\ UNCHANGED exposing
SetValue(i, atom) == setAtomValue(i, atom) /\ Update /\ UNCHANGED exposing

\* "<id> <value>"
m_list(n, atom) == Idle /\ Int16(n) \in DOMAIN params /\ SetValue(Int16(n), atom)

\* The parameters a message is for, when its first name leads to p.
Addressed(p, args) ==
    IF ~IsGroup(p) THEN {p}
    ELSE IF Len(args) > 1 THEN getParameter(Front(args), p)
    ELSE {}

\* Without arguments the value is read from before the list: it may be any atom.
\* (What is read may also end the process.)
_input(p, args) ==
    \/ IsGroup(p) /\ \E i \in Addressed(p, args) : SetValue(i, Last(args))
    \/ params[p].type = "b" /\ Update /\ UNCHANGED <<params, exposing>>
    \/ params[p].type \in ValueType /\ args # <<>> /\ SetValue(p, Last(args))
    \/ params[p].type \in ValueType /\ args = <<>> /\ \E atom \in Atom : SetValue(p, atom)

\* "<group> ... <label> <value>".  The first name is the selector, which m_any gets
\* unless a method is registered for it ("info", "listen" and others: :155-162,
\* ParameterServer.h:82-97), or the first atom of a list, where m_list takes any name.
m_any(label, args) ==
    Idle /\ \E p \in rcp_manager_find_parameter(label, NULL) : _input(p, args)

SetOption(path, types) ==
    /\ Idle
    /\ \E i \in getParameter(path, NULL) : params[i].type \in types
    /\ Update
    /\ UNCHANGED <<params, exposing>>

parameterSetReadonly(path, atom) == atom \in Number /\ SetOption(path, Type \cup {"group"})
parameterSetOrder(path, atom) == atom \in Number /\ SetOption(path, Type \cup {"group"})
parameterSetMinMax(path, atom) == atom \in Number /\ SetOption(path, {"f", "i"})

-----------------------------------------------------------------------------
\* A client's value, reported at outlets 1 and 0.  rcp-c passes it on to the
\* other clients; it refuses what is read-only.
parameterUpdate(i, value) ==
    /\ i \in DOMAIN params \ dirty
    /\ value \in Values(params[i].type)
    /\ params' = [params EXCEPT ![i].value = value]
    /\ UNCHANGED <<dirty, exposing>>

Messages ==
    \/ \E path \in Path :
          \/ exposeParameter(path)
          \/ removeParameterList(path)
          \/ \E atom \in Atom : \/ parameterSetReadonly(path, atom) \/ parameterSetOrder(path, atom)
                               \/ parameterSetMinMax(path, atom)
          \/ Head(path) \in Symbol /\ m_any(Head(path), Tail(path))
    \/ \E n \in Number : removeParameter(n) \/ \E atom \in Atom : m_list(n, atom)

Next ==
    \/ Messages
    \/ createGroups \/ exposeFails \/ expose
    \/ \E i \in Id, value \in Value : parameterUpdate(i, value)

Spec == Init /\ [][Next]_vars

-----------------------------------------------------------------------------
(* Properties.                                                             *)

\* What a parameter holds fits its type, whatever the atoms of the message that set
\* it (ParameterServerClientBase.cpp:75-122).
TypeOK ==
    /\ DOMAIN params \subseteq Id
    /\ params \in [DOMAIN params -> Parameter]
    /\ \A i \in DOMAIN params : params[i].value \in Values(params[i].type)
    /\ dirty \subseteq DOMAIN params
    /\ ~Idle => exposing \in Exposing /\ exposing.path # <<>>

\* Every parameter is in a group that exists, and so on up to the top.
Rooted ==
    /\ \A i \in DOMAIN params :
          params[i].parent # NULL => params[i].parent \in DOMAIN params /\ IsGroup(params[i].parent)
    /\ \A S \in SUBSET DOMAIN params : S # {} => \E i \in S : params[i].parent \notin S

\* The check of ParameterServer.cpp:403-409 and the search of :528: of one label
\* there is at most one group and one other parameter in a group.
Distinct ==
    \A i, j \in DOMAIN params :
        params[i].label = params[j].label /\ params[i].parent = params[j].parent
        /\ (IsGroup(i) <=> IsGroup(j)) => i = j

\* Where expose has got to is a group that exists.
Descends ==
    ~Idle /\ exposing.group # NULL => exposing.group \in DOMAIN params /\ IsGroup(exposing.group)

\* The tree stays a tree while parameters are exposed and removed
\* (ParameterServer.cpp:514-558).
TreeInv == Rooted /\ Distinct /\ Descends

\* Whatever message was handled, all that the clients have not been told of are
\* groups with nothing in them that they know: those a failed expose leaves
\* (ParameterServer.cpp:394-409, 519-525).
ClientsInformed ==
    \A i \in dirty : IsGroup(i) /\ \A j \in DOMAIN params : params[j].parent = i => j \in dirty

\* i has this path: the labels from the top down to its own.
Has(path, i) ==
    \E chain \in [DOMAIN path -> DOMAIN params] :
        /\ chain[Len(path)] = i
        /\ \A k \in DOMAIN path :
              /\ params[chain[k]].label = path[k]
              /\ params[chain[k]].parent = IF k = 1 THEN NULL ELSE chain[k - 1]

\* A path names a parameter that has it, whatever else is exposed; unless it
\* goes through a parameter that is no group, where the search goes on beside it
\* (ParameterServerClientBase.cpp:741-762).
PathsResolve ==
    \A path \in {p \in Path : \A k \in DOMAIN p : p[k] \in Symbol} :
        LET found == getParameter(path, NULL) IN
        /\ \A i \in DOMAIN params : Has(path, i) => i \in found
        /\ \A i \in found :
              Has(path, i) \/ \E k \in 1 .. Len(path) - 1, v \in DOMAIN params :
                                  ~IsGroup(v) /\ Has(SubSeq(path, 1, k), v)
=============================================================================
