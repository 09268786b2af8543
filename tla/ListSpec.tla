------------------------------ MODULE ListSpec ------------------------------
(***************************************************************************)
(* What the kernel's list library promises its callers: every list is a    *)
(* finite sequence of elements, an element is on at most one list, and     *)
(* each operation of <kernel/list.h> is one change of one sequence.  There *)
(* is no pointer here; List.tla has them and is shown to implement this.   *)
(***************************************************************************)
EXTENDS Integers, SequencesExt

CONSTANTS Lists,   \* the list_t objects of the kernel
          Elems,   \* the list_element_t objects embedded in its structs
          NULL,
          Key      \* Key[e] orders the elements: compare_func(a, b) = Key[a] - Key[b]

VARIABLES contents,  \* contents[l]: the elements on l, first to last
          ret        \* what the last operation returned, NULL for void

specVars == <<contents, ret>>

Members(l) == Range(contents[l])

Free(e) == \A l \in Lists : e \notin Members(l)

Become(l, s, r) ==
    /\ contents' = [contents EXCEPT ![l] = s]
    /\ ret' = r

Init ==
    /\ contents = [l \in Lists |-> << >>]
    /\ ret = NULL

Clear(l) == Become(l, << >>, NULL)

PushBack(l, e) == Free(e) /\ Become(l, Append(contents[l], e), NULL)

PushFront(l, e) == Free(e) /\ Become(l, <<e>> \o contents[l], NULL)

PopFront(l) ==
    /\ contents[l] # << >>
    /\ Become(l, Tail(contents[l]), Head(contents[l]))

PopBack(l) ==
    /\ contents[l] # << >>
    /\ Become(l, Front(contents[l]), Last(contents[l]))

Delete(l, e) ==
    \E i \in DOMAIN contents[l] :
        contents[l][i] = e /\ Become(l, RemoveAt(contents[l], i), NULL)

\* e goes to position i; everything from i on moves back by one.
Place(l, i, e) ==
    /\ Free(e)
    /\ i \in 1 .. Len(contents[l]) + 1
    /\ Become(l, InsertAt(contents[l], i, e), NULL)

PlaceAfter(l, a, e) ==
    \E i \in DOMAIN contents[l] : contents[l][i] = a /\ Place(l, i + 1, e)

PlaceBefore(l, b, e) ==
    \E i \in DOMAIN contents[l] : contents[l][i] = b /\ Place(l, i, e)

\* The sorted position of e: after every smaller element, up to the first
\* one that is not smaller.
PlaceSorted(l, e) ==
    \E i \in 1 .. Len(contents[l]) + 1 :
        /\ \A j \in 1 .. i - 1 : Key[contents[l][j]] < Key[e]
        /\ i \in DOMAIN contents[l] => Key[e] <= Key[contents[l][i]]
        /\ Place(l, i, e)

\* An operation that does nothing: a removal from an empty list.
Nothing == contents' = contents /\ ret' = NULL

Next ==
    \/ Nothing
    \/ \E l \in Lists : Clear(l) \/ PopFront(l) \/ PopBack(l)
    \/ \E l \in Lists, e \in Elems :
        PushBack(l, e) \/ PushFront(l, e) \/ Delete(l, e) \/ PlaceSorted(l, e)
    \/ \E l \in Lists, p, e \in Elems : PlaceAfter(l, p, e) \/ PlaceBefore(l, p, e)

Spec == Init /\ [][Next]_specVars
=============================================================================
