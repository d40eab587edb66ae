--------------------------- MODULE MCFilteredIndex ---------------------------
EXTENDS FilteredIndex

CONSTANTS t1, t2, q1, q2, c0, c1

\* Node 2 has both labels, so that its insertion makes two searches; nodes 0 and
\* 1 share no label with node 3. No node has label 2.
MCNode == 0 .. 3
MCBitmap == (0 :> {0}) @@ (1 :> {0}) @@ (2 :> {0, 1}) @@ (3 :> {1})
MCAttr == [i \in Node |-> 0]
Place == (0 :> 0) @@ (1 :> 4) @@ (2 :> 6) @@ (3 :> 11)
             @@ (q1 :> 9) @@ (q2 :> 5) @@ (c0 :> 3) @@ (c1 :> 9)
MCApart(a, b) == Gap(Place[a], Place[b]) * Gap(Place[a], Place[b])
MCCentroid(l) == IF l = 0 THEN c0 ELSE c1

MCServing == {[of |-> q1, mask |-> {0, 1}, min |-> 0, max |-> 0],
              [of |-> q2, mask |-> {2}, min |-> 0, max |-> 0]}
MCQuery == {About(i, {l}) : i \in Node, l \in Label} \cup MCServing
MCOrder == <<2, 0, 3, 1>>
MCAlphaSquared == <<100, 144>>

\* FilteredPrune as a table, which TLC computes once: @@ makes it explicit.
MCPruned == (<<>> :> {}) @@
    [a \in {<<p, C, k>> : p \in MCNode, C \in SUBSET MCNode, k \in 1 .. 2} |->
        FilteredPrune(a[1], a[2] \ {a[1]}, a[3])]
MCPrune(p, C, k) == MCPruned[<<p, C, k>>]
=============================================================================
