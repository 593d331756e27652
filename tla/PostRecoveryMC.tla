--------------------------- MODULE PostRecoveryMC ---------------------------
(* Instances of PostRecovery: small timelines of one account.              *)
EXTENDS PostRecovery, TLC

CONSTANTS v, g, h

ThreePosts == {v, g, h}

\* h is written by another author.
ForeignTypes == (v :> "originals") @@ (g :> "replies") @@ (h :> "foreign")

\* Two pages; the second shows a post again and names it and another one again.
TwoPages == <<[visible |-> {v}, collapsed |-> {g}], [visible |-> {v, h}, collapsed |-> {v, g}]>>

\* One gap, for what concerns a single row.
OneGap == <<[visible |-> {v}, collapsed |-> {g}]>>
OneGapPosts == {v, g}
OneGapTypes == (v :> "originals") @@ (g :> "replies")
=============================================================================
