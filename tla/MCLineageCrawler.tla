------------------------- MODULE MCLineageCrawler -------------------------
(* Three tables, one seed.                                                 *)
EXTENDS LineageCrawler, TLC
CONSTANTS a, b, c

Ring == (a :> {b}) @@ (b :> {c}) @@ (c :> {a})
Fork == (a :> {b, c}) @@ (b :> {c}) @@ (c :> {b})

(* Tables without a hint that are open, that are terminal, and both; in    *)
(* the ring b may be answered for with JSON that is no list.               *)
FewWorlds ==
    {[children |-> Ring, open |-> o, hinted |-> {a}, odd |-> d] :
        o \in {{a, b}, {a, b, c}}, d \in {{}, {b}}}
      \cup {[children |-> Fork, open |-> o, hinted |-> {a, c}, odd |-> {}] :
               o \in {{a, b}, {a, b, c}}}
=============================================================================
