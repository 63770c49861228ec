----------------------------- MODULE MCServices -----------------------------
EXTENDS Services

\* Two product requests for one key, with one payload or with two, and agent
\* jobs beside a product job and beside each other.
MCJobKey == [r \in Product |-> "k1"]
MCJobPayload == [r \in Product |-> IF r = "p3" THEN "y" ELSE "x"]
MCWorkloads == {{}, {"p1", "p2"}, {"p1", "p3"}, {"p1", "a1"}, {"a1", "a2"}}

\* Two requests for one session with different first messages, one with another
\* payload and without a message, and one without a key.
MCOpeningKey == [r \in Openings |-> IF r = "r4" THEN NULL ELSE "k"]
MCOpeningPayload == [r \in Openings |-> IF r = "r3" THEN "y" ELSE "x"]
MCBody ==
    [r \in Openings |-> CASE r = "r2" -> "m2" [] r = "r3" -> NULL [] OTHER -> "m1"]
=============================================================================
