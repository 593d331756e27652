--------------------------- MODULE ArchiveStoreMC ---------------------------
(* A quote q of a post p, a repost r of either, and the captures of them   *)
(* the source may return in any order.                                     *)
EXTENDS ArchiveStore, TLC

CONSTANTS p, q, r, alice, bob, m1, m2, d1, d2

MCTweets == {p, q, r}
MCUsers == {alice, bob}
MCMedia == {m1, m2}
MCOwner == (m1 :> p) @@ (m2 :> p)
MCDownloads == {d1, d2}

Of(id, author, quality, M) == [id |-> id, author |-> author, quality |-> quality, media |-> M]
Plain(chain) == [posts |-> chain, event |-> None]
Reposted(chain) == [posts |-> chain, event |-> [id |-> r, author |-> alice, quality |-> Available]]

P == Of(p, bob, Available, {m1, m2})
NoQ == Of(q, Unknown, Missing, {})
NoP == Of(p, Unknown, Missing, {})
NoR == Of(r, Unknown, Missing, {})
Q == Of(q, alice, Available, {})
PartQ == Of(q, alice, Partial, {})

MCItems ==
  {Plain(<<P, Q>>),                                 \* the quote with its post
   Plain(<<NoP, Q>>),                               \* the quoted post is not embedded
   Plain(<<Q>>),                                    \* nor named
   Plain(<<NoR, Q>>),                               \* or the quote reads like a reply
   Plain(<<NoQ, Of(p, alice, Available, {})>>),     \* a reply to what quotes it, by another author
   Reposted(<<PartQ>>),                             \* the quoted post is not named
   Reposted(<<P, Q>>)}                              \* the repost of the quote

MCSymmetry == Permutations(MCDownloads) \cup Permutations(MCMedia)
=============================================================================
