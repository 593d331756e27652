----------------------------- MODULE CrawlLock ------------------------------
(***************************************************************************)
(* What the crawl workers promise about the lock a request takes on an     *)
(* account of the crawler pool, in one variable: a lock is taken by one    *)
(* request at a time, a rate limit ends by its time alone, and a recovery  *)
(* removes only locks whose request is gone.                               *)
(*                                                                         *)
(* CrawlWorker implements it.                                              *)
(***************************************************************************)
CONSTANTS Stamps, None

VARIABLE account    \* None, or the lock: its stamp and what it stands for

Kinds == {"held", "limited", "lost"}
Is(kind) == account # None /\ account.kind = kind

Init == account = None

Acquire(s) == account = None /\ account' = [stamp |-> s, kind |-> "held"]
Release    == Is("held") /\ account' = None
Limit(s)   == Is("held") /\ account' = [stamp |-> s, kind |-> "limited"]
\* The request ends and its lock stays: the process died or could not unlock.
Lose       == Is("held") /\ account' = [account EXCEPT !.kind = "lost"]
Recover    == Is("lost") /\ account' = None
Expire     == (Is("limited") \/ Is("lost")) /\ account' = None

Next == (\E s \in Stamps : Acquire(s) \/ Limit(s)) \/ Release \/ Lose \/ Recover \/ Expire

Spec == Init /\ [][Next]_account
=============================================================================
