-------------------------------- MODULE List --------------------------------
(***************************************************************************)
(* The intrusive doubly linked list of libc/kernel/list.c: the list_t      *)
(* records (head, tail, size) and the links inside the elements.  One      *)
(* action per function, each the whole function.                           *)
(*                                                                         *)
(* `owner' is the callers' knowledge of where an element is; the library   *)
(* itself never checks membership, so the callers' side of the contract    *)
(* (insert only a free element, remove or name only a member of the list)  *)
(* is a guard on owner.  Calls with a NULL argument return at once and     *)
(* change nothing; they are stuttering steps.                              *)
(***************************************************************************)
EXTENDS Integers, SequencesExt

CONSTANTS Lists, Elems, NULL, Key

ASSUME NullAssumption == NULL \notin Elems \cup Lists
ASSUME KeyAssumption  == Key \in [Elems -> Int]

VARIABLES head, tail, size,   \* list_t, per list
          next, prev,         \* list_element_t, per element
          owner,              \* the list an element is on, NULL if none
          ret                 \* result of the last call

vars == <<head, tail, size, next, prev, owner, ret>>

Ptr == Elems \cup {NULL}

TypeOK ==
    /\ head \in [Lists -> Ptr]
    /\ tail \in [Lists -> Ptr]
    /\ size \in [Lists -> Nat]
    /\ next \in [Elems -> Ptr]
    /\ prev \in [Elems -> Ptr]
    /\ owner \in [Elems -> Lists \cup {NULL}]
    /\ ret \in Ptr

\* The list_t objects are zeroed statics or list_init'ed; the elements are
\* embedded in malloc'ed structs, so their links hold anything.
Init ==
    /\ head = [l \in Lists |-> NULL]
    /\ tail = [l \in Lists |-> NULL]
    /\ size = [l \in Lists |-> 0]
    /\ next \in [Elems -> Ptr]
    /\ prev \in [Elems -> Ptr]
    /\ owner = [e \in Elems |-> NULL]
    /\ ret = NULL

\* if (p) p->field = v;
Store(field, p, v) == IF p = NULL THEN field ELSE [field EXCEPT ![p] = v]

\* Mutant of OrElse: the else branch is forgotten.
OrElse_forgotten(p, field, l, v) == field

\* if (p) <store through p> else <list field of l = v>;
OrElse(p, field, l, v) == IF p = NULL THEN [field EXCEPT ![l] = v] ELSE field

-----------------------------------------------------------------------------
list_init(l) ==
    /\ head' = [head EXCEPT ![l] = NULL]
    /\ tail' = [tail EXCEPT ![l] = NULL]
    /\ size' = [size EXCEPT ![l] = 0]
    /\ owner' = [e \in Elems |-> IF owner[e] = l THEN NULL ELSE owner[e]]
    /\ ret' = NULL
    /\ UNCHANGED <<next, prev>>

\* The bookkeeping every insertion ends with.
Added(l, e) ==
    /\ size' = [size EXCEPT ![l] = @ + 1]
    /\ owner' = [owner EXCEPT ![e] = l]
    /\ ret' = NULL

\* Mutant of list_append: the element goes in at the head.
list_append_front(l, e) ==
    /\ owner[e] = NULL
    /\ prev' = Store([prev EXCEPT ![e] = NULL], head[l], e)
    /\ next' = [next EXCEPT ![e] = head[l]]
    /\ tail' = OrElse(head[l], tail, l, e)
    /\ head' = [head EXCEPT ![l] = e]
    /\ Added(l, e)

list_append(l, e) ==
    /\ owner[e] = NULL
    /\ next' = Store([next EXCEPT ![e] = NULL], tail[l], e)
    /\ prev' = [prev EXCEPT ![e] = tail[l]]
    /\ head' = OrElse(tail[l], head, l, e)
    /\ tail' = [tail EXCEPT ![l] = e]
    /\ Added(l, e)

list_prepend(l, e) ==
    /\ owner[e] = NULL
    /\ prev' = Store([prev EXCEPT ![e] = NULL], head[l], e)
    /\ next' = [next EXCEPT ![e] = head[l]]
    /\ tail' = OrElse(head[l], tail, l, e)
    /\ head' = [head EXCEPT ![l] = e]
    /\ Added(l, e)

list_insert_after(l, after, e) ==
    /\ owner[e] = NULL /\ owner[after] = l
    /\ prev' = Store([prev EXCEPT ![e] = after], next[after], e)
    /\ next' = [next EXCEPT ![e] = next[after], ![after] = e]
    /\ tail' = OrElse(next[after], tail, l, e)
    /\ head' = head
    /\ Added(l, e)

list_insert_before(l, before, e) ==
    /\ owner[e] = NULL /\ owner[before] = l
    /\ next' = Store([next EXCEPT ![e] = before], prev[before], e)
    /\ prev' = [prev EXCEPT ![e] = prev[before], ![before] = e]
    /\ head' = OrElse(prev[before], head, l, e)
    /\ tail' = tail
    /\ Added(l, e)

-----------------------------------------------------------------------------
(***************************************************************************)
(* Represents(l, s): the links of list l spell the sequence s, forwards    *)
(* from head and backwards from tail.  Contents(l) is the sequence that a  *)
(* traversal with list_head and list_next visits.                          *)
(***************************************************************************)
Represents(l, s) ==
    /\ size[l] = Len(s)
    /\ head[l] = IF s = << >> THEN NULL ELSE s[1]
    /\ tail[l] = IF s = << >> THEN NULL ELSE s[Len(s)]
    /\ \A i \in 1 .. Len(s) :
        /\ next[s[i]] = IF i = Len(s) THEN NULL ELSE s[i + 1]
        /\ prev[s[i]] = IF i = 1 THEN NULL ELSE s[i - 1]

Contents(l) == CHOOSE s \in [1 .. size[l] -> Elems] : Represents(l, s)

\* Mutant of list_insert_sorted: the comparison the wrong way round.
list_insert_sorted_reversed(l, e) ==
    LET s == Contents(l)
        Smaller == {i \in DOMAIN s : Key[s[i]] <= Key[e]}
    IN  \/ Smaller = {} /\ list_append(l, e)
        \/ \E i \in Smaller :
            /\ \A j \in Smaller : i <= j
            /\ list_insert_before(l, s[i], e)

\* The while loop stops at the first element that is not smaller than e.
list_insert_sorted(l, e) ==
    LET s == Contents(l)
        NotSmaller == {i \in DOMAIN s : Key[e] <= Key[s[i]]}
    IN  \/ /\ size[l] = 0 \/ NotSmaller = {}
           /\ list_append(l, e)
        \/ \E i \in NotSmaller :
            /\ size[l] # 0
            /\ \A j \in NotSmaller : i <= j
            /\ list_insert_before(l, s[i], e)

\* The bookkeeping every removal ends with.
Removed(l, e, r) ==
    /\ size' = [size EXCEPT ![l] = @ - 1]
    /\ owner' = [owner EXCEPT ![e] = NULL]
    /\ ret' = r

\* Mutant of EmptyRemoval: size is decremented without the size == 0 check.
EmptyRemoval_decrements(l) ==
    /\ size[l] = 0
    /\ ret' = NULL
    /\ size' = [size EXCEPT ![l] = @ - 1]
    /\ UNCHANGED <<head, tail, next, prev, owner>>

\* Removals from an empty list return NULL (or nothing) and change nothing.
EmptyRemoval(l) ==
    /\ size[l] = 0
    /\ ret' = NULL
    /\ UNCHANGED <<head, tail, size, next, prev, owner>>

\* Mutant of list_remove_head: list->head is read again for the result.
list_remove_head_rereads(l) ==
    LET e == head[l] IN
    /\ size[l] # 0
    /\ head' = [head EXCEPT ![l] = next[e]]
    /\ prev' = [Store(prev, next[e], NULL) EXCEPT ![e] = NULL]
    /\ tail' = OrElse(next[e], tail, l, NULL)
    /\ next' = [next EXCEPT ![e] = NULL]
    /\ Removed(l, e, next[e])

list_remove_head(l) ==
    LET e == head[l] IN
    /\ size[l] # 0
    /\ head' = [head EXCEPT ![l] = next[e]]
    /\ prev' = [Store(prev, next[e], NULL) EXCEPT ![e] = NULL]
    /\ tail' = OrElse(next[e], tail, l, NULL)
    /\ next' = [next EXCEPT ![e] = NULL]
    /\ Removed(l, e, e)

list_remove_tail(l) ==
    LET e == tail[l] IN
    /\ size[l] # 0
    /\ tail' = [tail EXCEPT ![l] = prev[e]]
    /\ next' = [Store(next, prev[e], NULL) EXCEPT ![e] = NULL]
    /\ head' = OrElse(prev[e], head, l, NULL)
    /\ prev' = [prev EXCEPT ![e] = NULL]
    /\ Removed(l, e, e)

list_remove(l, e) ==
    /\ owner[e] = l
    /\ size[l] # 0
    /\ next' = [Store(next, prev[e], next[e]) EXCEPT ![e] = NULL]
    /\ head' = OrElse(prev[e], head, l, next[e])
    /\ prev' = [Store(prev, next[e], prev[e]) EXCEPT ![e] = NULL]
    /\ tail' = OrElse(next[e], tail, l, prev[e])
    /\ Removed(l, e, NULL)

ListStep(l) ==
    \/ list_init(l)
    \/ list_remove_head(l)
    \/ list_remove_tail(l)
    \/ EmptyRemoval(l)

ElemStep(l, e) ==
    \/ list_append(l, e)
    \/ list_prepend(l, e)
    \/ list_insert_sorted(l, e)
    \/ list_remove(l, e)

PairStep(l, p, e) ==
    \/ list_insert_after(l, p, e)
    \/ list_insert_before(l, p, e)

Next ==
    \/ \E l \in Lists : ListStep(l)
    \/ \E l \in Lists, e \in Elems : ElemStep(l, e)
    \/ \E l \in Lists, p, e \in Elems : PairStep(l, p, e)

Spec == Init /\ [][Next]_vars

-----------------------------------------------------------------------------
(***************************************************************************)
(* Every list stays a well-formed doubly linked list: some duplicate-free  *)
(* sequence of exactly the elements the callers put on it is spelled by    *)
(* next from head and by prev from tail, and size is its length.           *)
(***************************************************************************)
WellFormedList(l) ==
    \E s \in [1 .. size[l] -> Elems] :
        /\ Represents(l, s)
        /\ IsInjective(s)
        /\ Range(s) = {e \in Elems : owner[e] = l}

WellFormed == \A l \in Lists : WellFormedList(l)

(***************************************************************************)
(* list_insert_sorted keeps a sorted list sorted, whatever mixture of the  *)
(* other operations made it (early return for the empty list, stop at the  *)
(* first not-smaller element, append at the end).                          *)
(***************************************************************************)
Sorted(s) == \A i, j \in DOMAIN s : i < j => Key[s[i]] <= Key[s[j]]

SortedInsertKeepsOrder ==
    [][\A l \in Lists, e \in Elems :
        list_insert_sorted(l, e) /\ Sorted(Contents(l)) => Sorted(Contents(l)')]_vars

(***************************************************************************)
(* The pointer operations implement the sequence operations of ListSpec.   *)
(* StepMatches says which operation is which, result included, so that an  *)
(* append that really prepended would not pass for an implementation.      *)
(***************************************************************************)
LS == INSTANCE ListSpec WITH contents <- [l \in Lists |-> Contents(l)]

StepMatches ==
    /\ \A l \in Lists :
        /\ list_init(l) => LS!Clear(l)
        /\ list_remove_head(l) => LS!PopFront(l)
        /\ list_remove_tail(l) => LS!PopBack(l)
        /\ EmptyRemoval(l) => LS!Nothing
    /\ \A l \in Lists, e \in Elems :
        /\ list_append(l, e) => LS!PushBack(l, e)
        /\ list_prepend(l, e) => LS!PushFront(l, e)
        /\ list_insert_sorted(l, e) => LS!PlaceSorted(l, e)
        /\ list_remove(l, e) => LS!Delete(l, e)
    /\ \A l \in Lists, p, e \in Elems :
        /\ list_insert_after(l, p, e) => LS!PlaceAfter(l, p, e)
        /\ list_insert_before(l, p, e) => LS!PlaceBefore(l, p, e)

\* Every call of a list function does to the represented sequence what its
\* name and comment say.
EachCallImplemented == [][StepMatches]_vars

\* The pointer code refines the sequence specification.
ImplementsListSpec == LS!Spec
=============================================================================
