------------------------------ MODULE MCCrawl ------------------------------
(* Crawl on small instances. *)
EXTENDS Crawl, TLC

TwoCategories == <<"apartment", "house">>
OneCategory == <<"apartment">>
=============================================================================
