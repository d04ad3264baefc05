-------------------------------- MODULE Array --------------------------------
(***************************************************************************)
(* The growing arrays of src/lib/array.c, on which lists of values, the    *)
(* data stack and the arguments of calls are built.  An array owns its     *)
(* elements: it frees what it overwrites and what it still holds when it   *)
(* is cleared.  Below, the lists of values of datalist.c, which are arrays.*)
(***************************************************************************)
EXTENDS Integers, SequencesExt

CONSTANTS
  Elem,                \* the elements, each an allocated value
  NoElem,              \* NULL
  ARRAY_DEF_CAPACITY,
  MaxIndex,            \* bound: the highest index an element is set at
  Item                 \* the values in a list of values, numbers

ASSUME ArrayAssumption == ARRAY_DEF_CAPACITY \in Nat \ {0} /\ MaxIndex \in Nat /\ Item \subseteq Nat

VARIABLES
  slots,      \* slots[ix + 1]: array -> contents[ix], up to the capacity
  arraySize,  \* array -> size
  curix,      \* array -> curix
  elemFreed,  \* the elements the array has freed
  tail        \* history: array_remove has left the last slot as it was

arrayVars == <<slots, arraySize, curix, elemFreed, tail>>

capacity == Len(slots)
Within == SubSeq(slots, 1, arraySize)
ArrayElements == ToSet(Within) \ {NoElem}

Blank(n) == [i \in 1 .. n |-> NoElem]

(* Doubled from what it is, or from mincap, until there is room for mincap *)
(* slots; what is new holds nothing.                                       *)
_array_resize(contents, mincap) ==
  LET least == IF mincap > 0 THEN mincap ELSE ARRAY_DEF_CAPACITY
      start == IF contents = <<>> THEN least ELSE Len(contents)
      newcap == Min({start * 2 ^ k : k \in 0 .. least} \cap {n \in 0 .. 2 * (least + start) : n >= least})
  IN IF least <= Len(contents) THEN contents
     ELSE contents \o Blank(newcap - Len(contents))

ArrayInit ==
  /\ slots \in {_array_resize(<<>>, n) : n \in {0, 1, 2}}
  /\ arraySize = 0
  /\ curix = 0
  /\ elemFreed = {}
  /\ tail = FALSE

(* An element that was allocated by the caller.                            *)
Fresh(e) == e \notin ToSet(slots)

(* At a negative index: after the last.  What was in the slot is freed,    *)
(* also in a slot past the end.                                            *)
array_set(ix, e) ==
  LET at == IF ix < 0 THEN arraySize ELSE ix
      room == _array_resize(slots, at + 1)
  IN /\ Fresh(e)
     /\ slots' = [room EXCEPT ![at + 1] = e]
     /\ elemFreed' = (elemFreed \ {e}) \cup ({room[at + 1]} \ {NoElem})
     /\ arraySize' = IF at >= arraySize THEN at + 1 ELSE arraySize
     /\ UNCHANGED <<curix, tail>>

\* Wrong: the popped element would stay in its slot.
PopLeavesElement ==
  /\ arraySize > 0
  /\ arraySize' = arraySize - 1
  /\ UNCHANGED <<slots, curix, elemFreed, tail>>

array_pop ==
  /\ arraySize > 0
  /\ slots' = [slots EXCEPT ![arraySize] = NoElem]
  /\ arraySize' = arraySize - 1
  /\ UNCHANGED <<curix, elemFreed, tail>>

(* All slots behind ix move down, used or not: the last one of a full array*)
(* keeps its element, which is now in two places.                          *)
array_remove(ix) ==
  IF ix = arraySize - 1 THEN array_pop
  ELSE /\ ix \in 0 .. arraySize - 1
       /\ slots' = [i \in DOMAIN slots |->
                      IF i > ix /\ i < capacity THEN slots[i + 1] ELSE slots[i]]
       /\ arraySize' = arraySize - 1
       /\ tail' = (tail \/ slots[capacity] # NoElem)
       /\ UNCHANGED <<curix, elemFreed>>

array_clear ==
  /\ elemFreed' = elemFreed \cup ArrayElements
  /\ slots' = Blank(capacity)
  /\ arraySize' = 0
  /\ tail' = FALSE
  /\ UNCHANGED curix

(* Negative indexes count from the end.                                    *)
array_get(ix) ==
  LET at == IF ix < 0 THEN arraySize + ix ELSE ix
  IN IF at \in 0 .. arraySize - 1 THEN slots[at + 1] ELSE NoElem

\* Wrong: without a number of elements the last one would be left out.
SliceToTheLast(from, num) ==
  [i \in 1 .. (IF num > 0 /\ from + num <= arraySize THEN num
               ELSE arraySize - from - (IF num > 0 THEN 0 ELSE 1)) |-> array_get(from + i - 1)]

(* num elements from from on; or, with num <= 0, all but the last -num - 1.*)
array_slice(from, num) ==
  LET wanted == IF num <= 0 THEN arraySize - from + num + 1 ELSE num
      copied == IF from + wanted > arraySize THEN arraySize - from ELSE wanted
  IN [i \in 1 .. copied |-> array_get(from + i - 1)]

MovesTo(ix) == curix' = ix /\ UNCHANGED <<slots, arraySize, elemFreed, tail>>

array_start == MovesTo(IF arraySize > 0 THEN 0 ELSE -1)
array_end == MovesTo(arraySize - 1)
array_next == curix >= 0 /\ curix < arraySize /\ MovesTo(curix + 1)
array_prev == curix > 0 /\ curix <= arraySize - 1 /\ MovesTo(curix - 1)

ArrayNext ==
  \/ \E ix \in -1 .. MaxIndex, e \in Elem : array_set(ix, e)
  \/ \E ix \in 0 .. MaxIndex : array_remove(ix)
  \/ array_pop \/ array_clear
  \/ array_start \/ array_end \/ array_next \/ array_prev

ArraySpec == ArrayInit /\ [][ArrayNext]_arrayVars
-----------------------------------------------------------------------------
(* array.c:308, :334 -- as long as nothing was removed from the middle of  *)
(* a full array, the slots past its end are empty, so that setting one     *)
(* frees nothing, and no element of the array has been freed by it or is   *)
(* in it twice.                                                            *)
ArrayOwnsElements ==
  ~tail =>
    /\ \A i \in arraySize + 1 .. capacity : slots[i] = NoElem
    /\ ArrayElements \cap elemFreed = {}
    /\ \A i, j \in 1 .. arraySize : slots[i] = slots[j] /\ i # j => slots[i] = NoElem

(* array.c:180 -- a slice of the first elements and a slice of the rest    *)
(* make the whole, wherever the cut is.                                    *)
SlicesJoin ==
  \A from \in 0 .. arraySize : \A num \in 1 .. arraySize - from :
    array_slice(from, num) \o array_slice(from + num, 0) = array_slice(from, 0)
-----------------------------------------------------------------------------
(* datalist.c: an iterator is an index into the array of the list itself.  *)
VARIABLES
  dataLists,   \* the values of two lists
  valueIter,   \* an iterator over the first: [ix, gave], gave what it has delivered
  valueTaken   \* history: a value the iterator had passed, or was at, has been removed
dataListVars == <<dataLists, valueIter, valueTaken>>

NoValueIter == [ix |-> -2, gave |-> <<>>]
Missing == -1

datalist_get(list, ix) ==
  LET at == IF ix < 0 THEN Len(list) + ix ELSE ix IN IF at \in 0 .. Len(list) - 1 THEN list[at + 1] ELSE Missing

_datalist_push(list, v) == Append(list, v)
_datalist_set(list, ix, v) == IF ix < 0 \/ ix = Len(list) THEN Append(list, v) ELSE [list EXCEPT ![ix + 1] = v]
datalist_remove(list, ix) == RemoveAt(list, ix + 1)

datalist_create(array) == FoldLeft(_datalist_push, <<>>, array)
_list_copy(dest, src) == FoldLeft(_datalist_push, dest, src)

\* Wrong: lists of one length would be compared by their first values.
FirstDecides(d1, d2) == IF Len(d1) # Len(d2) \/ d1 = <<>> THEN Len(d2) - Len(d1) ELSE d2[1] - d1[1]

(* The second one is compared with the first one: the longer list is the   *)
(* lesser one, and of two of one length the one with the greater value.    *)
_list_cmp(d1, d2) ==
  LET differ == {i \in DOMAIN d1 : d1[i] # d2[i]}
  IN IF Len(d1) # Len(d2) THEN Len(d2) - Len(d1)
     ELSE IF differ = {} THEN 0 ELSE d2[Min(differ)] - d1[Min(differ)]

\* array_slice of the values; a second argument that is missing counts as 0.
_list_slice(list, from, num) ==
  LET wanted == IF num <= 0 THEN Len(list) - from + num + 1 ELSE num
      copied == IF from + wanted > Len(list) THEN Len(list) - from ELSE wanted
  IN datalist_create([i \in 1 .. copied |-> datalist_get(list, from + i - 1)])

\* An iterator over an empty list is at -1, and stays without a next value.
_datalist_iter_new(list) == [ix |-> IF list = <<>> THEN -1 ELSE 0, gave |-> <<>>]
_datalist_iter_has_next(iter, list) == iter.ix >= 0 /\ iter.ix < Len(list)
_datalist_iter_next(iter, list) == [ix |-> iter.ix + 1, gave |-> Append(iter.gave, datalist_get(list, iter.ix))]

DataListSet ==
  /\ \E k \in 1 .. 2, v \in Item, ix \in -1 .. 2 :
       /\ Len(dataLists[k]) < 3 /\ ix <= Len(dataLists[k])
       /\ dataLists' = [dataLists EXCEPT ![k] = IF ix = -1 THEN _datalist_push(@, v) ELSE _datalist_set(@, ix, v)]
       /\ valueTaken' = (valueTaken \/ (k = 1 /\ ix \in 0 .. valueIter.ix - 1))
  /\ UNCHANGED valueIter

\* By its index, or the first or the last one.
DataListRemove ==
  /\ \E k \in 1 .. 2, ix \in 0 .. 2 :
       /\ ix < Len(dataLists[k])
       /\ dataLists' = [dataLists EXCEPT ![k] = datalist_remove(@, ix)]
       /\ valueTaken' = (valueTaken \/ (k = 1 /\ ix < valueIter.ix))
  /\ UNCHANGED valueIter

DataListCopy ==
  /\ \E k \in 1 .. 2 : Len(dataLists[1]) + Len(dataLists[2]) <= 3 /\
       dataLists' = [dataLists EXCEPT ![k] = _list_copy(@, dataLists[3 - k])]
  /\ UNCHANGED <<valueIter, valueTaken>>

DataListIter == valueIter' = _datalist_iter_new(dataLists[1]) /\ valueTaken' = FALSE /\ UNCHANGED dataLists

DataListIterNext ==
  /\ _datalist_iter_has_next(valueIter, dataLists[1])
  /\ valueIter' = _datalist_iter_next(valueIter, dataLists[1])
  /\ UNCHANGED <<dataLists, valueTaken>>

DataListInit == dataLists = <<<<>>, <<>>>> /\ valueIter = NoValueIter /\ valueTaken = FALSE
DataListNext == DataListSet \/ DataListRemove \/ DataListCopy \/ DataListIter \/ DataListIterNext
-----------------------------------------------------------------------------
(* datalist.c:342 -- what an iterator has delivered is the beginning of the*)
(* list, whatever was added since and whatever was removed further on; it  *)
(* ends when it has delivered all, unless the list was empty at first.     *)
ListIterDelivers ==
  valueIter # NoValueIter /\ ~valueTaken =>
    /\ valueIter.gave = SubSeq(dataLists[1], 1, Len(valueIter.gave))
    /\ ~_datalist_iter_has_next(valueIter, dataLists[1]) => valueIter.ix = -1 \/ valueIter.gave = dataLists[1]

(* datalist.c:140, datalist.c:317 -- two lists are equal when their values *)
(* are, and the lesser one is the same from both sides; a slice of a list  *)
(* is a part of it, and slices that meet make the whole.                   *)
ListsCompare ==
  LET a == dataLists[1]
      b == dataLists[2]
  IN /\ _list_cmp(a, b) = 0 <=> a = b
     /\ _list_cmp(a, b) < 0 <=> _list_cmp(b, a) > 0
     /\ \A from \in 0 .. Len(a) - 1, num \in 1 .. 3 :
          _list_slice(a, from, num) = SubSeq(a, from + 1, Min({from + num, Len(a)}))
     /\ \A from \in 0 .. Len(a) : _list_copy(SubSeq(a, 1, from), _list_slice(a, from, 0)) = a
=============================================================================
