---------------------------- MODULE HandleTable ----------------------------
(***************************************************************************)
(* What a program may expect of whoever names things for it by numbers -   *)
(* descriptors, references, thread ids, keys: a thing keeps its number for *)
(* as long as it is there, and a number that is handed out is the number   *)
(* of nothing else that is there, until the numbers are exhausted.         *)
(***************************************************************************)
CONSTANT Taken          \* the numbers that mean something else all along

VARIABLES handles,      \* for each thing that is there, its number
          exhausted     \* the numbers have run out

Init == handles = <<>> /\ exhausted = FALSE

New == DOMAIN handles' \ DOMAIN handles

\* Some things, or none, are new or gone; the others keep their numbers.
Change == /\ exhausted => exhausted'
          /\ \A t \in DOMAIN handles \cap DOMAIN handles' :
               handles'[t] = handles[t]
          /\ ~exhausted' =>
               \A t \in New : /\ handles'[t] \notin Taken
                              /\ \A u \in DOMAIN handles' \ {t} :
                                   handles'[t] # handles'[u]

\* Another program starts.
Reset == handles' = <<>>

Next == Change \/ Reset

Spec == Init /\ [][Next]_<<handles, exhausted>>
=============================================================================
