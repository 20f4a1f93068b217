------------------------------ MODULE MCFeeds -------------------------------
(* TLC instances of Feeds: feeds, URLs and prefixes are interchangeable    *)
(* where only safety is checked.                                           *)
EXTENDS Feeds, TLC

FeedSymmetry == Permutations(Feeds) \cup Permutations(Urls) \cup Permutations(Prefixes)
=============================================================================
