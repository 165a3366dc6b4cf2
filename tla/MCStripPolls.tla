----------------------------- MODULE MCStripPolls -----------------------------
(* An instance of StripPolls for TLC: two outlets, integers of four bits, and what a
   device may report at and around every limit. *)
EXTENDS StripPolls

\* An IOT strip; SMART strips with and without a total, whose outlets all report where
\* they are, and one with an outlet that does not.
MCStrips ==
    {[iot |-> TRUE, total |-> TRUE, positions |-> {}],
     [iot |-> FALSE, total |-> TRUE, positions |-> {1, 2}],
     [iot |-> FALSE, total |-> FALSE, positions |-> {1, 2}],
     [iot |-> FALSE, total |-> FALSE, positions |-> {1}]}

MCValues ==
    {Whole(n) : n \in {-9, -8, -1, 0, 1, 7, 8}} \cup {Float(q) : q \in -37 .. 37}
        \cup {Bool(TRUE), Bool(FALSE), NaN, Null, Text}

\* A milli-unit reading, a legacy one, both, an error reply, and an empty one.
MCReports ==
    UNION {{[power_mw |-> v], [power |-> v], [power_mw |-> v, err_code |-> Whole(0)],
            [power_mw |-> NaN, power |-> v, slot_id |-> v]} : v \in MCValues}
        \cup {[err_code |-> Whole(-1)], [err_code |-> Whole(0)], [power |-> Null]}
===============================================================================
