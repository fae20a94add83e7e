--------------------------- MODULE MCTimelineFeed ---------------------------
(* Model values for checking TimelineFeed.  One thread: the threads share  *)
(* nothing but Twitter's items, which are posted before it starts, too.    *)
EXTENDS TimelineFeed
=============================================================================
