---------------------------- MODULE MCNitroIndex ----------------------------
EXTENDS NitroIndex

CONSTANTS t1, t2, bug, security, q1, q2, mean

\* Four places on a line; documents 0 and 3 lie far apart and are alike in their
\* attributes, so that the semantic lane prefers the far ones.  The penalties of
\* 3, 0 and 2 from node 1, and those for q2, differ by Epsilon from one to the
\* next, and their distances order them the other way round.
MCNode == 0 .. 3
MCBitmap == (0 :> {bug}) @@ (1 :> {security}) @@ (2 :> {bug, security}) @@ (3 :> {bug})
MCAttr == (0 :> 10) @@ (1 :> 50) @@ (2 :> 111) @@ (3 :> 11)
Place == (0 :> 0) @@ (1 :> 4) @@ (2 :> 6) @@ (3 :> 11)
             @@ (q1 :> 9) @@ (q2 :> 4) @@ (mean :> 4)
MCApart(a, b) == Gap(Place[a], Place[b]) * Gap(Place[a], Place[b])

MCServing ==
    {[of |-> q1, mask |-> {security}, min |-> 0, max |-> 90],
     [of |-> q2, mask |-> {}, min |-> 60, max |-> 60]}
MCQuery == {About(i, Bitmap[i]) : i \in Node} \cup MCServing
MCOrder == <<2, 0, 3, 1>>
MCAlphaSquared == <<100, 144>>

\* JagPrune as a table, which TLC computes once: @@ makes it explicit.
MCPruned == (<<>> :> {}) @@
    [a \in {<<p, C, k>> : p \in MCNode, C \in SUBSET MCNode, k \in 1 .. 2} |->
        JagPrune(a[1], a[2] \ {a[1]}, a[3])]
MCPrune(p, C, k) == MCPruned[<<p, C, k>>]
=============================================================================
