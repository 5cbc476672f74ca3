------------------------------- MODULE MCMain -------------------------------
(* Main with three source files, two of which chose the same name. *)
EXTENDS Main

MCRegistered == <<"DriverMain", "crawlerCrawler", "crawlerCrawler">>
=============================================================================
