-------------------------------- MODULE Library --------------------------------
(***************************************************************************)
(* The containers, the modules and the calls of a program together, and    *)
(* what is asked of more than one of them.                                 *)
(***************************************************************************)
EXTENDS List, Dict, Modules, Scopes, Exceptions

(* list.c:283, dict.c:904 -- elements keep their order whatever is put in, *)
(* taken out or moved to another list; an iterator stays where it is when  *)
(* others are removed, and one of a dictionary finds an entry that is      *)
(* there.                                                                  *)
OrderIsKept == ListOrderKept /\ IterationStays /\ IteratorFindsEntries

(* closure.c:313, object.c:345, boundmethod.c:90 -- a function runs in     *)
(* the scope it was defined in and for the object it was bound to, an      *)
(* object is under construction while its constructor runs, parameters are *)
(* those of one call, and a context that was entered is left.              *)
CallsAreInPlace == ScopesHold /\ ContextIsLeft
===============================================================================
