-------------------------- MODULE MCBankDownloads --------------------------
(* Instance of BankDownloads for TLC.                                      *)
EXTENDS BankDownloads

CONSTANTS a, b  \* the two credentials

\* The login b shows an account with the last four digits of one of a's, not the
\* other way round: both cases occur.
OneWay == {<<a, b>>}
Nowhere == {}

Step(c, w) == [credential |-> c, what |-> w, whole |-> FALSE, all |-> FALSE]
Whole(c, w) == [Step(c, w) EXCEPT !.whole = TRUE]
WholeAll(c, w) == [Whole(c, w) EXCEPT !.all = TRUE]

\* Both clients, both ways of naming masks, the three shapes of a download.
Mixed == {Step(a, "checks"), Whole(b, "transactions"), WholeAll(a, "statements")}
\* One client: the kind that isolates failures and a kind that gives up.
OneClient == {Step(a, "checks"), Whole(a, "checks"), WholeAll(a, "statements")}

\* Jobs and HTTP calls are interchangeable; credentials are not (Mistaken).
Symmetry == Permutations(Jobs) \cup Permutations(Lists)
=============================================================================
