---------------------------- MODULE MCMtpServing ----------------------------
(* Instances of MtpServing for TLC.                                        *)
EXTENDS MtpServing

CONSTANTS a, b, think, unthink, eog, x, y, nl, r1

\* Two characters, white space, and the two tags with their real lengths.
MCText(t) ==
    CASE t = a -> <<x>>
      [] t = b -> <<nl>>
      [] t = think -> <<Open>> \o [i \in 1 .. 6 |-> y]
      [] t = unthink -> <<Close>> \o [i \in 1 .. 7 |-> y]
      [] OTHER -> <<y>>

\* A target whose choice depends on all of the context.
Rank(t) == CASE t = a -> 1 [] t = b -> 2 [] t = think -> 3 [] OTHER -> 0
MCTarget(c) ==
    LET h == FoldLeft(LAMBDA n, t : 2 * n + Rank(t) + 1, 0, c) % 7
    IN CASE h \in {0, 4} -> a [] h \in {1, 5} -> b [] h \in {2, 3} -> think [] OTHER -> eog

\* A target that thinks in between.
ThinkTarget(c) ==
    CASE Len(c) = 1 -> think [] Len(c) = 3 -> unthink [] Len(c) = 5 -> eog [] OTHER -> a

MCPrompts == {<<>>, <<a>>, <<b, a>>, <<a, b, a, b>>}
ThinkPrompts == {<<a>>}
\* Attention only, recurrent layers in the target, in both.
MCKinds == {[tgt |-> FALSE, dft |-> FALSE], [tgt |-> TRUE, dft |-> FALSE],
            [tgt |-> TRUE, dft |-> TRUE]}
MCNotice == <<y, y>>
=============================================================================
