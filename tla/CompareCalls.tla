---------------------------- MODULE CompareCalls ----------------------------
(***************************************************************************)
(* Calls of dscmp by a caller holding two dataset references: each step   *)
(* replaces one of them and calls dscmp(a, b), and the state records the   *)
(* arguments and the result.  The properties relate the result of the     *)
(* current call to every other call the caller could make, which is what  *)
(* a best-of-several scan over foreign masters relies on.                 *)
(***************************************************************************)
EXTENDS BmcCompare

CONSTANT Refs   \* the non-NULL dataset references a caller may hold

VARIABLES a, b, result

vars == <<a, b, result>>

Args == Refs \cup {NULL}

(* Two references held at the same time: one address holds one dataset. *)
Coherent(x, y) == (x # NULL /\ y # NULL /\ x.addr = y.addr) => x = y

TypeOK ==
    /\ a \in Args
    /\ b \in Args
    /\ result \in Outcomes

Init ==
    /\ a = NULL
    /\ b = NULL
    /\ result = dscmp(NULL, NULL)

(* The caller replaces its first reference by x and calls dscmp(x, b), as *)
(* a best-of scan does when it takes a new candidate.                      *)
CompareNewA(x) ==
    /\ Coherent(x, b)
    /\ a' = x
    /\ result' = dscmp(x, b)
    /\ UNCHANGED b

(* The caller replaces its second reference by y and calls dscmp(a, y). *)
CompareNewB(y) ==
    /\ Coherent(a, y)
    /\ b' = y
    /\ result' = dscmp(a, y)
    /\ UNCHANGED a

Next == \E x \in Args : CompareNewA(x) \/ CompareNewB(x)

Spec == Init /\ [][Next]_vars

-----------------------------------------------------------------------------
(* "a is at least as good as b": dscmp does not prefer b. *)
AtLeastAsGood(x, y) == dscmp(x, y) >= 0

(* Antisymmetry (spec section 8): swapping the arguments of dscmp mirrors *)
(* the outcome, A_BETTER <-> B_BETTER and the _TOPO variants likewise,    *)
(* through every branch of dscmp and dscmp2.                              *)
Antisymmetric == dscmp(b, a) = Mirror(result)

(* dscmp is a total preorder (spec section 2): "at least as good" is      *)
(* transitive across every third dataset the caller could hold, so a      *)
(* linear best-of scan selects a best dataset whatever the scan order.    *)
TotalPreorder ==
    \A c \in Args :
        (Coherent(a, c) /\ Coherent(b, c) /\ result >= 0 /\ AtLeastAsGood(b, c))
            => AtLeastAsGood(a, c)

=============================================================================
