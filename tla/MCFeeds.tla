------------------------------ MODULE MCFeeds ------------------------------
EXTENDS Feeds

CONSTANTS cisa, cdc, n1, n2

Of(id, link, date) == [id |-> id, link |-> link, date |-> date]

\* No feed, a quiet one, one with two newest entries, one whose dates go wrong, and
\* one whose entries have no guid.
Sent ==
  {[version |-> FALSE, entries |-> <<>>],
   [version |-> TRUE, entries |-> <<>>],
   [version |-> TRUE, entries |-> <<Of(n1, n1, 1), Of(n2, NoName, 2), Of(n1, n2, 2)>>],
   [version |-> TRUE, entries |-> <<Of(n1, n1, Unparsed), Of(NoName, n2, 1), Of(n1, NoName, Undated)>>],
   [version |-> FALSE, entries |-> <<Of(NoName, NoName, 1)>>]}
=============================================================================
