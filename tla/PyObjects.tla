----------------------------- MODULE PyObjects ------------------------------
(***************************************************************************)
(* References to the Python objects a method of the bindings makes: its    *)
(* result and, if that is a list or a dict, the items it holds.            *)
(*                                                                         *)
(* counts[o] is the number of references to object o, for those that       *)
(* exist; slots[k] is the number of the item in slot, or under name, k.    *)
(***************************************************************************)
EXTENDS Integers, FiniteSetsExt, Functions

Object == <<"object", 0>>
Item(i) == <<"item", i>>
None == [o \in {} |-> 0]

\* Function f with k mapped to v.
With(f, k, v) == [x \in DOMAIN f \cup {k} |-> IF x = k THEN v ELSE f[x]]

New(counts, o) == With(counts, o, 1)
Incref(counts, o) == [counts EXCEPT ![o] = @ + 1]
Decref(counts, o) ==
  IF counts[o] > 1 THEN [counts EXCEPT ![o] = @ - 1]
                   ELSE Restrict(counts, DOMAIN counts \ {o})

\* The last reference to a container takes those it holds along.
DropObject(counts, slots) ==
  Decref(FoldSet(LAMBDA k, left : Decref(left, Item(slots[k])), counts,
                 DOMAIN slots),
         Object)

\* What a method may leave behind: nothing, or its result and one reference
\* to each item in it.
OnlyTheResult(counts, slots, returned) ==
  /\ DOMAIN counts =
       IF returned THEN {Object} \cup {Item(slots[k]) : k \in DOMAIN slots}
                   ELSE {}
  /\ \A o \in DOMAIN counts : counts[o] = 1
=============================================================================
