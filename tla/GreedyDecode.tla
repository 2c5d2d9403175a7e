---------------------------- MODULE GreedyDecode ----------------------------
(***************************************************************************)
(* What the speculative loop promises: the tokens of a request are those   *)
(* that the target model alone, always taking its best token, would have   *)
(* produced, one after the other.  Generation never passes the budget or   *)
(* an end-of-generation token; it may end early (abort, wall budget, a     *)
(* failed decode).                                                         *)
(***************************************************************************)
EXTENDS Naturals, Sequences

CONSTANTS Eog,         \* the end-of-generation token
          Target(_)    \* the target's best token after a context

VARIABLES live,        \* a request is being generated
          asked,       \* its prompt
          budget,      \* the number of tokens it may produce
          said         \* the tokens it has produced

gvars == <<live, asked, budget, said>>

Init == live = FALSE /\ asked = <<>> /\ budget = 0 /\ said = <<>>

Start ==
    /\ ~live
    /\ live' = TRUE
    /\ said' = <<>>

\* One more token of the target's own path.
Say ==
    /\ live
    /\ Len(said) < budget
    /\ Target(asked \o said) # Eog
    /\ said' = Append(said, Target(asked \o said))
    /\ UNCHANGED <<live, asked, budget>>

End ==
    /\ live
    /\ live' = FALSE
    /\ UNCHANGED <<asked, budget, said>>

Next == Start \/ Say \/ End

Spec == Init /\ [][Next]_gvars
=============================================================================
