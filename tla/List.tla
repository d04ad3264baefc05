-------------------------------- MODULE List --------------------------------
(***************************************************************************)
(* The doubly linked lists of src/lib/list.c: nodes between a head and a   *)
(* tail that are part of the list, a counted size, and one embedded        *)
(* iterator per list.  A caller uses the iterator only while it stands on  *)
(* a node of its list; list_start, list_end and list_position set it.      *)
(***************************************************************************)
EXTENDS Integers, SequencesExt, FiniteSets

CONSTANTS
  ListId,    \* the lists
  Node,      \* the addresses nodes can have
  Null       \* NULL

VARIABLES
  lists,     \* the lists that exist
  nodeNext,  \* node -> next
  nodePrev,  \* node -> prev
  nodeList,  \* node -> list, Null for memory that is not in use
  listSize,  \* list -> size
  listIter   \* list -> iter.current

links == <<nodeNext, nodePrev>>
listVars == <<lists, links, nodeList, listSize, listIter>>

HeadOf(l) == <<"head", l>>
TailOf(l) == <<"tail", l>>
Cell == Node \cup {HeadOf(l) : l \in ListId} \cup {TailOf(l) : l \in ListId}

ASSUME ListAssumption ==
  /\ IsFiniteSet(Node) /\ Null \notin Cell \cup ListId
  /\ \A l \in ListId : HeadOf(l) \notin Node /\ TailOf(l) \notin Node

(* The nodes from cell c on, following next until the tail.                *)
Chain(c, step) ==
  LET walk[k \in 0 .. Cardinality(Node)] ==
        IF k = 0 THEN <<>>
        ELSE LET n == IF k = 1 THEN step[c] ELSE step[Last(walk[k - 1])]
             IN IF Len(walk[k - 1]) = k - 1 /\ n \in Node
                THEN Append(walk[k - 1], n) ELSE walk[k - 1]
  IN walk[Cardinality(Node)]

Elements(l) == Chain(HeadOf(l), nodeNext)

_ln_datanode(c) == c \in Node /\ nodeNext[c] # Null /\ nodePrev[c] # Null
OnList(l) == listIter[l] \in ToSet(Elements(l)) \cup {HeadOf(l), TailOf(l)}
-----------------------------------------------------------------------------
ListInit ==
  /\ lists = {}
  /\ nodeNext = [c \in Cell |-> Null]
  /\ nodePrev = [c \in Cell |-> Null]
  /\ nodeList = [n \in Node |-> Null]
  /\ listSize = [l \in ListId |-> 0]
  /\ listIter = [l \in ListId |-> Null]

list_create(l) ==
  /\ l \notin lists
  /\ lists' = lists \cup {l}
  /\ nodeNext' = [nodeNext EXCEPT ![HeadOf(l)] = TailOf(l)]
  /\ nodePrev' = [nodePrev EXCEPT ![TailOf(l)] = HeadOf(l)]
  /\ listSize' = [listSize EXCEPT ![l] = 0]
  /\ listIter' = [listIter EXCEPT ![l] = HeadOf(l)]
  /\ UNCHANGED <<nodeList>>

(* A new node after the cell p of list l.                      *)
LinkIn(l, n, p) ==
  /\ nodeList[n] = Null
  /\ nodeList' = [nodeList EXCEPT ![n] = l]
  /\ nodePrev' = [nodePrev EXCEPT ![n] = p, ![nodeNext[p]] = n]
  /\ nodeNext' = [nodeNext EXCEPT ![n] = nodeNext[p], ![p] = n]
  /\ listSize' = [listSize EXCEPT ![l] = @ + 1]
  /\ UNCHANGED lists

list_append(l, n) ==
  LinkIn(l, n, nodePrev[TailOf(l)]) /\ UNCHANGED listIter

list_unshift(l, n) == LinkIn(l, n, HeadOf(l)) /\ UNCHANGED listIter

(* Node n of list l goes, and its memory with it.                          *)
Unlink(l, n) ==
  /\ nodeNext' = [nodeNext EXCEPT ![nodePrev[n]] = nodeNext[n], ![n] = Null]
  /\ nodePrev' = [nodePrev EXCEPT ![nodeNext[n]] = nodePrev[n], ![n] = Null]
  /\ nodeList' = [nodeList EXCEPT ![n] = Null]
  /\ listSize' = [listSize EXCEPT ![l] = @ - 1]
  /\ UNCHANGED lists

list_shift(l) ==
  LET n == nodeNext[HeadOf(l)]
  IN _ln_datanode(n) /\ Unlink(l, n) /\ UNCHANGED listIter

list_pop(l) ==
  LET n == nodePrev[TailOf(l)]
  IN _ln_datanode(n) /\ Unlink(l, n) /\ UNCHANGED listIter

list_clear(l) ==
  /\ nodeList' = [n \in Node |-> IF n \in ToSet(Elements(l)) THEN Null ELSE nodeList[n]]
  /\ nodeNext' = [c \in Cell |-> IF c = HeadOf(l) THEN TailOf(l)
                                 ELSE IF c \in ToSet(Elements(l)) THEN Null ELSE nodeNext[c]]
  /\ nodePrev' = [c \in Cell |-> IF c = TailOf(l) THEN HeadOf(l)
                                 ELSE IF c \in ToSet(Elements(l)) THEN Null ELSE nodePrev[c]]
  /\ listSize' = [listSize EXCEPT ![l] = 0]
  /\ UNCHANGED <<lists, listIter>>

(* list_clear, and the list itself.                                        *)
list_free(l) ==
  /\ nodeList' = [n \in Node |-> IF n \in ToSet(Elements(l)) THEN Null ELSE nodeList[n]]
  /\ lists' = lists \ {l}
  /\ nodeNext' = [c \in Cell |-> IF c \in ToSet(Elements(l)) \cup {HeadOf(l)} THEN Null ELSE nodeNext[c]]
  /\ nodePrev' = [c \in Cell |-> IF c \in ToSet(Elements(l)) \cup {TailOf(l)} THEN Null ELSE nodePrev[c]]
  /\ listSize' = [listSize EXCEPT ![l] = 0]
  /\ listIter' = [listIter EXCEPT ![l] = Null]

\* Wrong: the nodes would still say they are of their old list.
AppendFragmentUnowned(m, l, first, last) ==
  [next |-> [m.next EXCEPT ![last] = TailOf(l), ![m.prev[TailOf(l)]] = first],
   prev |-> [m.prev EXCEPT ![first] = m.prev[TailOf(l)], ![TailOf(l)] = last],
   list |-> m.list,
   count |-> Len(Chain(m.prev[first], m.next))]

\* Wrong: the nodes would go to the front.
AppendFragmentFirst(m, l, first, last) ==
  LET moved == <<first>> \o Chain(first, m.next)
  IN [next |-> [m.next EXCEPT ![last] = m.next[HeadOf(l)], ![HeadOf(l)] = first],
      prev |-> [m.prev EXCEPT ![first] = HeadOf(l), ![m.next[HeadOf(l)]] = last],
      list |-> [n \in Node |-> IF n \in ToSet(moved) THEN l ELSE m.list[n]],
      count |-> Len(moved)]

(* The memory m after the nodes from first to last, which end a list, have *)
(* become the end of list l, and how many they are.                        *)
_list_append_fragment(m, l, first, last) ==
  LET moved == <<first>> \o Chain(first, m.next)
  IN [next |-> [m.next EXCEPT ![last] = TailOf(l), ![m.prev[TailOf(l)]] = first],
      prev |-> [m.prev EXCEPT ![first] = m.prev[TailOf(l)], ![TailOf(l)] = last],
      list |-> [n \in Node |-> IF n \in ToSet(moved) THEN l ELSE m.list[n]],
      count |-> Len(moved)]

Assign(m) == nodeNext' = m.next /\ nodePrev' = m.prev /\ nodeList' = m.list

(* The nodes of src move to the end of target; src is freed.               *)
list_join(target, src) ==
  LET memory == [next |-> [nodeNext EXCEPT ![HeadOf(src)] = Null],
                 prev |-> [nodePrev EXCEPT ![TailOf(src)] = Null],
                 list |-> nodeList]
      joined == _list_append_fragment(memory, target, nodeNext[HeadOf(src)], nodePrev[TailOf(src)])
  IN /\ target # src
     /\ IF listSize[src] = 0
        THEN Assign(memory) /\ listSize' = listSize
        ELSE /\ Assign(joined)
             /\ listSize' = [listSize EXCEPT ![target] = @ + joined.count, ![src] = 0]
     /\ lists' = lists \ {src}
     /\ listIter' = [listIter EXCEPT ![src] = Null]

(* What is left of list l when the nodes from start on are cut out.        *)
Cut(m, l, start) ==
  [m EXCEPT !.next = [@ EXCEPT ![m.prev[start]] = TailOf(l)],
            !.prev = [@ EXCEPT ![TailOf(l)] = m.prev[start]]]

(* The nodes from the iterator on move to a new list; the iterator stays   *)
(* on its node.  At the head or the tail the new list is empty.            *)
list_split(l, new) ==
  LET start == listIter[l]
      memory == [next |-> [nodeNext EXCEPT ![HeadOf(new)] = TailOf(new)],
                 prev |-> [nodePrev EXCEPT ![TailOf(new)] = HeadOf(new)],
                 list |-> nodeList]
      split == _list_append_fragment(Cut(memory, l, start), new, start, nodePrev[TailOf(l)])
  IN /\ new \notin lists
     /\ lists' = lists \cup {new}
     /\ listIter' = [listIter EXCEPT ![new] = HeadOf(new)]
     /\ IF start \in Node
        THEN /\ Assign(split)
             /\ listSize' = [listSize EXCEPT ![l] = @ - split.count, ![new] = split.count]
        ELSE Assign(memory) /\ UNCHANGED listSize
-----------------------------------------------------------------------------
(* The iterator.                                                           *)
Iterate(l, c) ==
  /\ listIter' = [listIter EXCEPT ![l] = c]
  /\ UNCHANGED <<lists, links, nodeList, listSize>>

li_head(l) == Iterate(l, HeadOf(l))
li_tail(l) == Iterate(l, TailOf(l))
li_position(n) == nodeList[n] # Null /\ Iterate(nodeList[n], n)
li_next(l) == _ln_datanode(nodeNext[listIter[l]]) /\ Iterate(l, nodeNext[listIter[l]])
li_prev(l) == _ln_datanode(nodePrev[listIter[l]]) /\ Iterate(l, nodePrev[listIter[l]])

(* After the iterator, which then stands on the new node; not at the tail. *)
li_insert(l, n) ==
  /\ nodeNext[listIter[l]] # Null
  /\ LinkIn(l, n, listIter[l])
  /\ listIter' = [listIter EXCEPT ![l] = n]

\* Wrong: the iterator would stay on the memory it has freed.
RemoveAndStay(l) ==
  /\ _ln_datanode(listIter[l])
  /\ Unlink(l, listIter[l])
  /\ UNCHANGED listIter

(* The iterator moves on to the node after the one it removes.             *)
li_remove(l) ==
  /\ _ln_datanode(listIter[l])
  /\ Unlink(l, listIter[l])
  /\ listIter' = [listIter EXCEPT ![l] = nodeNext[@]]

ListGrows(l) ==
  \E n \in Node :
    list_append(l, n) \/ list_unshift(l, n) \/ (OnList(l) /\ li_insert(l, n))

ListIterates(l) ==
  \/ li_head(l) \/ li_tail(l)
  \/ OnList(l) /\ (li_next(l) \/ li_prev(l) \/ li_remove(l))

ListNext ==
  \/ \E l \in ListId : list_create(l)
  \/ \E l \in lists :
       \/ ListGrows(l) \/ ListIterates(l)
       \/ list_shift(l) \/ list_pop(l) \/ list_clear(l) \/ list_free(l)
       \/ \E other \in lists : list_join(l, other)
       \/ \E new \in ListId : OnList(l) /\ list_split(l, new)
  \/ \E n \in Node : li_position(n)

ListSpec == ListInit /\ [][ListNext]_listVars
-----------------------------------------------------------------------------
(* list.c:65, :355, :375, :587, :608 -- whatever is inserted, removed, cut *)
(* and joined: the chain forwards is the chain backwards, the size counts  *)
(* it, and the nodes on it are the nodes that say they are of the list.    *)
ListsLinked ==
  \A l \in lists :
    /\ Elements(l) = Reverse(Chain(TailOf(l), nodePrev))
    /\ nodeNext[Last(<<HeadOf(l)>> \o Elements(l))] = TailOf(l)
    /\ listSize[l] = Len(Elements(l))
    /\ ToSet(Elements(l)) = {n \in Node : nodeList[n] = l}

Before(a, b, l) ==
  \E i, j \in 1 .. Len(Elements(l)) : i < j /\ Elements(l)[i] = a /\ Elements(l)[j] = b

(* list.c:166, :433 -- a block of instructions is cut out of a list and    *)
(* joined to another: two nodes that stay together never change places,    *)
(* and what joins a list comes after what was there.                       *)
ListOrderKept ==
  [][\A l \in lists, a, b \in Node :
       \A k \in lists' :
         /\ {nodeList[a]', nodeList[b]'} = {k}
         /\ Before(a, b, l) \/ (nodeList[a] = k /\ nodeList[b] \in lists \ {k})
         => Before(a, b, k)']_listVars

(* list.c:612 -- whatever is done through an iterator leaves it on its     *)
(* list, so that a loop which removes elements can go on.                  *)
IterationStays == [][\A l \in lists : ListIterates(l) => OnList(l)']_listVars
=============================================================================
