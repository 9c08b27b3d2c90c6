------------------------------ MODULE Catalogue ------------------------------
(***************************************************************************)
(* What the push subcommands promise whoever boots from the registry: a    *)
(* tag always names something whole.  An image appears under its tag in    *)
(* one step, complete and as some request asked for it; an index appears   *)
(* in one step and lists only images that are already available; nothing   *)
(* that was available ever stops being so.                                 *)
(***************************************************************************)
EXTENDS Naturals, Sequences

CONSTANTS
    Offered,    \* image tag -> the images some request gives it
    Asked       \* index tag -> the platform lists some request gives it

VARIABLES
    released,   \* images that can be pulled by digest
    shelf       \* tag -> the image or index it can be pulled as

catalogueVars == <<released, shelf>>

Init == released = {} /\ shelf = [t \in {} |-> {}]

Place(t, m) ==
    shelf' = [u \in DOMAIN shelf \cup {t} |-> IF u = t THEN m ELSE shelf[u]]

ReleaseImage(t) == \E m \in Offered[t] :
    /\ released' = released \cup {m}
    /\ Place(t, m)

ReleaseIndex(t) == \E platforms \in Asked[t] :
    \E chosen \in [DOMAIN platforms -> released] :
        /\ Place(t, [type |-> "index",
                     entries |-> [i \in DOMAIN platforms |->
                                    [platform |-> platforms[i],
                                     manifest |-> chosen[i]]]])
        /\ UNCHANGED released

Next ==
    \/ \E t \in DOMAIN Offered : ReleaseImage(t)
    \/ \E t \in DOMAIN Asked : ReleaseIndex(t)

Spec == Init /\ [][Next]_catalogueVars
=============================================================================
