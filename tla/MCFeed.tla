------------------------------- MODULE MCFeed -------------------------------
(* The thresholds keep the order of the code's 120, 20 and 60 s.            *)
EXTENDS Feed

\* Sleeps that leave a gap longer than FeedSilence between two frames.
MCLongSleeps == {FeedSilence + 1, Cap}
=============================================================================
