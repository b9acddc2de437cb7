---------------------------- MODULE MCBackground ----------------------------
(* A small instance of Background: one pattern of each type, two palettes, *)
(* one seed, which picks two logos.                                        *)
EXTENDS Background

MCPatterns == <<[type |-> "favicon", pattern |-> "mosaic"],
                [type |-> "retro", pattern |-> "wave"]>>

MCPicks == <<<<"a", "b">>>>

\* From a version of the page with more palettes and another pattern.
MCOldConfigs ==
    {[type |-> "favicon", pattern |-> "gone", palette |-> 2, seed |-> 1]}

\* The two schemes are interchangeable, and so are the colours.
MCInit == Init /\ scheme = "dark" /\ favicon.color = "blue"

MCSpec == MCInit /\ [][Next]_vars /\ Fairness
=============================================================================
