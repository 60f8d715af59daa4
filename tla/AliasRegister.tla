---------------------------- MODULE AliasRegister ----------------------------
(***************************************************************************)
(* What promotion promises to whoever reads an index: one collection is    *)
(* served at any time, a switch is one step, and the collection served     *)
(* before the switch is the one a rollback returns to until it is retired. *)
(***************************************************************************)
CONSTANTS Collections, Base, NoColl

VARIABLES served, fallback

RegisterInit ==
    /\ served = Base
    /\ fallback = NoColl

\* The alias moves: the collection served so far becomes the fallback.
SwitchTo(c) ==
    /\ served' = c
    /\ fallback' = served

\* The fallback is given up when its collection is retired.
Forget ==
    /\ fallback' = NoColl
    /\ UNCHANGED served

RegisterNext ==
    \/ \E c \in Collections : SwitchTo(c)
    \/ Forget

RegisterSpec == RegisterInit /\ [][RegisterNext]_<<served, fallback>>
=============================================================================
