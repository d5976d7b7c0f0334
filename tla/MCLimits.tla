------------------------------ MODULE MCLimits -------------------------------
EXTENDS Limits

\* Every limit of a seven-bit int, unset and a negative one.
Settings == 0 .. MaxInt \cup {-1, Unset}
Ttls == {-1, 0, 6, Unset}
Contents == [bytes : {0, 1, 2, 3, 4, 10, 11, 12, 13, 44, 45}, breaks : {0},
             valid : {TRUE}]
            \cup [bytes : {3, 12}, breaks : {1, 2}, valid : {TRUE}]
            \cup [bytes : {0, 5}, breaks : {0}, valid : {FALSE}]
=============================================================================
