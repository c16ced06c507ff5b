---------------------------- MODULE MCEnrichment ----------------------------
(* Two pilots and a budget of one; summaries that fail, that have a date and  *)
(* nothing else, that are undated but dangerous; feeds that mix kills and     *)
(* losses, times in both orders, all classes of timestamps, and ships that    *)
(* tie.                                                                       *)
EXTENDS Enrichment
Mail(l, times, s) == [loss |-> l, times |-> times, ship |-> s]
Summary(k, l, d, last) == [kills |-> k, losses |-> l, danger |-> d, last |-> last]
MCSummaries == {Failed, Summary(0, 0, 0, 2), Summary(0, 0, 5000, 0), Summary(30, 1, 9500, 2), Summary(0, 1, 0, 4)}
MCMails == {Mail(FALSE, <<1, 4, Absent>>, "rifter"), Mail(FALSE, <<Garbled, 4, Absent>>, "none"),
            Mail(TRUE, <<Absent, Absent, 3>>, "drake"), Mail(TRUE, <<Absent, Absent, Absent>>, "rifter"),
            Mail(FALSE, <<Garbled, Absent, Absent>>, "none")}
MCFeeds == {Failed, <<>>} \cup {<<a, b>> : a \in MCMails, b \in MCMails}
=============================================================================
