----------------------------- MODULE VarsRegistry -----------------------------
(***************************************************************************)
(* The registry of variables (InfEngine2/InfEngine/Vars/Registry.hpp,      *)
(* .cpp).  A name is the sequence of its components ("user.name.first");   *)
(* every beginning of a registered name is registered too, and a name is a *)
(* field of the one that is a component shorter.  An inf has a registry of *)
(* its own on top of the registry of the main base: its new names get the  *)
(* next numbers, and a main variable that gets new fields is copied into   *)
(* vMap.  The compiler builds RegistryRW, where fields are a linked chain; *)
(* Save writes the chains out, and the server reads that as RegistryRO.    *)
(*                                                                         *)
(* Numbers begin with 1 here, and 0 is the invalid one.  A checksum is     *)
(* what it is the checksum of.                                             *)
(***************************************************************************)
EXTENDS NameIndex

Empty == [vars |-> EmptyIndex, nodes |-> <<>>, map |-> <<>>]

\* GetNamesNumber of the index.
Count(r) == Len(r.vars.names)

\* GetVariablesNumber of a registry r with base b.
Number(r, b) == Count(b) + Count(r)

\* SearchNormalized and RegistryRO::Search: first the registry itself, then its base.
Search(r, b, name) ==
  LET own == Lookup(r.vars, name)
  IN  IF own # NoId THEN Count(b) + own ELSE Lookup(b.vars, name)

\* GetVarNameById.
Name(r, b, id) == IF id <= Count(b) THEN b.vars.names[id] ELSE r.vars.names[id - Count(b)]

-------------------------------------------------------------------------------
(* RegistryRO: a node is a type and the list of its fields.                *)

ChildsOfBase(b, id) == IF id <= Count(b) THEN b.nodes[id].number ELSE 0

\* GetStructFieldsCount.
FieldsCountRO(r, b, id) ==
  IF id <= Count(b)
  THEN IF id \in DOMAIN r.map THEN r.map[id].number ELSE ChildsOfBase(b, id)
  ELSE r.nodes[id - Count(b)].number

\* GetVarType.
TypeRO(r, b, id) ==
  IF id <= Count(b)
  THEN IF id \in DOMAIN r.map THEN r.map[id].type ELSE b.nodes[id].type
  ELSE r.nodes[id - Count(b)].type

\* GetStructFieldId: the fields an inf has added to a main variable come before those of the base.
FieldIdRO(r, b, id, k) ==
  LET newchilds == r.map[id].number - ChildsOfBase(b, id)
  IN  IF id > Count(b)
      THEN r.nodes[id - Count(b)].childs[k]
      ELSE IF id \notin DOMAIN r.map
           THEN b.nodes[id].childs[k]
           ELSE IF k <= newchilds THEN r.map[id].childs[k] ELSE b.nodes[id].childs[k - newchilds]

-------------------------------------------------------------------------------
(* RegistryRW: a node has the number of its fields, the head of the chain  *)
(* of its fields and the next field of its parent.                         *)

\* GetNode, of a number that has a node of its own here.
Node(r, b, id) == IF id <= Count(b) THEN r.map[id] ELSE r.nodes[id - Count(b)]

HasNode(r, b, id) == id > Count(b) \/ id \in DOMAIN r.map

SetNode(r, b, id, node) ==
  IF id <= Count(b)
  THEN [r EXCEPT !.map[id] = node]
  ELSE [r EXCEPT !.nodes[id - Count(b)] = node]

FieldsCountRW(r, b, id) == IF HasNode(r, b, id) THEN Node(r, b, id).number ELSE ChildsOfBase(b, id)

\* The numbers on the chain of a node.
Chain(r, b, id) ==
  LET from[c \in {NoId} \union {i \in 1..Number(r, b) : HasNode(r, b, i)}] ==
        IF c = NoId THEN <<>> ELSE <<c>> \o from[Node(r, b, c).sibling]
  IN  from[Node(r, b, id).child]

\* GetStructFieldId.
FieldIdRW(r, b, id, k) ==
  LET childs == FieldsCountRW(r, b, id) - ChildsOfBase(b, id)
  IN  IF ~HasNode(r, b, id)
      THEN b.nodes[id].childs[k]
      ELSE IF k <= childs THEN Chain(r, b, id)[k] ELSE b.nodes[id].childs[k - childs]

\* InsertNode; the number of the new node is Number of the result.
InsertNode(r, name) ==
  [r EXCEPT !.vars = AddName(@, name),
            !.nodes = Append(@, [type |-> "text", number |-> 0, child |-> NoId, sibling |-> NoId])]

\* Mutant: the copy begins with no fields.
MapNodeEmpty(r, b, id) ==
  IF HasNode(r, b, id)
  THEN r
  ELSE [r EXCEPT !.map = [i \in DOMAIN @ \union {id} |->
          IF i = id THEN [type |-> b.nodes[id].type, number |-> 0, child |-> NoId, sibling |-> NoId] ELSE @[i]]]

\* MapNode: a main variable is copied before it is changed, its own fields stay with the base.
MapNode(r, b, id) ==
  IF HasNode(r, b, id)
  THEN r
  ELSE [r EXCEPT !.map = [i \in DOMAIN @ \union {id} |->
          IF i = id
          THEN [type |-> b.nodes[id].type, number |-> b.nodes[id].number, child |-> NoId, sibling |-> NoId]
          ELSE @[i]]]

\* Node id becomes the first field of parent.
Link(r, b, parent, id) ==
  IF parent = NoId
  THEN r
  ELSE LET m == MapNode(r, b, parent)
           p == Node(m, b, parent)
           s == SetNode(m, b, id, [Node(m, b, id) EXCEPT !.sibling = p.child])
       IN  SetNode(s, b, parent, [p EXCEPT !.child = id, !.type = "struct", !.number = @ + 1])

\* The turn of the loop of Registrate for the beginning of the name that has k components.
RegistratePrefix(acc, b, name, k) ==
  LET prefix == SubSeq(name, 1, k)
      id == Search(acc.r, b, prefix)
      i == InsertNode(acc.r, prefix)
  IN  IF id # NoId
      THEN [acc EXCEPT !.parent = id]
      ELSE [r |-> Link(i, b, acc.parent, Number(i, b)), parent |-> Number(i, b)]

\* Registrate: the full name gets its number first, then the beginnings it lacks, then it is linked.
Registrate(r, b, name) ==
  LET i == InsertNode(r, name)
      acc[k \in 0..(Len(name) - 1)] ==
        IF k = 0 THEN [r |-> i, parent |-> NoId] ELSE RegistratePrefix(acc[k - 1], b, name, k)
      all == acc[Len(name) - 1]
  IN  IF Search(r, b, name) # NoId THEN r ELSE Link(all.r, b, all.parent, Number(i, b))

\* Create: the automatic variables are registered before all others, and must get the numbers the program
\* has for them.
Create(auto, b) ==
  LET after[k \in 0..Len(auto)] == IF k = 0 THEN Empty ELSE Registrate(after[k - 1], b, auto[k])
  IN  after[Len(auto)]

\* Save: what RegistryRO reads, with the checksum of the base.
Saved(r, b) ==
  LET written(id) == [type |-> Node(r, b, id).type, number |-> Node(r, b, id).number,
                      childs |-> Chain(r, b, id)]
  IN  [vars |-> OpenedIndex(r.vars),
       nodes |-> [i \in DOMAIN r.nodes |-> written(Count(b) + i)],
       map |-> [i \in DOMAIN r.map |-> written(i)],
       baseSum |-> b]
===============================================================================
