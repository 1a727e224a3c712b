-------------------------------- MODULE Logbook --------------------------------
(* What the logbook promises: an operation that succeeded is there for good, *)
(* and nothing else ever changes the log. A stop of the program may cut off  *)
(* one operation, which is then done or not.                                 *)
EXTENDS Naturals

CONSTANT Contents  \* what a record may say

VARIABLES
    book,  \* [Contents -> how many records say so]
    open   \* the log is in use

vars == <<book, open>>

Init == book \in [Contents -> Nat] /\ open = FALSE

(* A record may go and a record may come; both, when it is edited.           *)
Single == {{}} \cup {{c} : c \in Contents}
Count(c, S) == IF c \in S THEN 1 ELSE 0
Operation ==
    \E old, new \in Single :
        /\ \A c \in old : book[c] > 0
        /\ book' = [c \in Contents |-> (book[c] + Count(c, new)) - Count(c, old)]

Commit == open /\ Operation /\ UNCHANGED open
Stop == open /\ open' = FALSE /\ (Operation \/ UNCHANGED book)
Start == ~open /\ open' = TRUE /\ UNCHANGED book

Next == Commit \/ Stop \/ Start

Spec == Init /\ [][Next]_vars
=============================================================================
