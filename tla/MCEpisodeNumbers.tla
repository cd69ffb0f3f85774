-------------------------- MODULE MCEpisodeNumbers --------------------------
(***************************************************************************)
(* Three media on two days, one of them downloaded, or imported, under a    *)
(* name without a number.                                                  *)
(***************************************************************************)
EXTENDS EpisodeNumbers

MCMedia == {"a", "b", "c"}
MCRank == [a |-> 1, b |-> 2, c |-> 3]
MCDates == {10, 11, 20}
MCDayOf(date) == date \div 10
=============================================================================
