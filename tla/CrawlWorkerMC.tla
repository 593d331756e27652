---------------------------- MODULE CrawlWorkerMC ---------------------------
(* Two workers, one of which replaces the other.                           *)
EXTENDS CrawlWorker

MCStamps == 0 .. 5
=============================================================================
