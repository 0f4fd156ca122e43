--------------------------- MODULE MCBusinessHours ---------------------------
(* A store in Seoul around one date that gets a closure. *)
EXTENDS BusinessHours, TLC

CONSTANTS q1, q2

MCRequests == {q1, q2}
Symmetry == Permutations(MCRequests)

MCDates == {100}

Local(date, minute) == date * 1440 + minute - 540

MCInstants == {Local(99, 1320), Local(100, 120), Local(100, 780), Local(100, 960),
               Local(100, 1320), Local(101, 120)}

Row(open, close, break) ==
    [isClosed |-> FALSE, open |-> open, close |-> close, break |-> break]

\* Past midnight with a break; a short day; the whole day; a break at the end,
\* and one at the beginning.
Late == Row(480, 1680, {[start |-> 960, end |-> 1200]})
Short == Row(240, 960, {})
Whole == Row(0, 1440, {})
Morning == Row(480, 960, {[start |-> 720, end |-> 960]})
Evening == Row(960, 1320, {[start |-> 960, end |-> 1080]})
Resting == [Short EXCEPT !.isClosed = TRUE]

Weekly(S, row) == [d \in S |-> row]

MCHours ==
    {NoRows, Weekly(0 .. 6, Late), Weekly({1, 2}, Whole),
     [d \in 1 .. 3 |-> CASE d = 1 -> Late [] d = 2 -> Short [] d = 3 -> Resting],
     [d \in {2, 3, 5} |-> IF d = 3 THEN Evening ELSE Morning]}

Special(o, c) == [open |-> o, close |-> c]

MCClosures == {Special({}, {}), Special({960}, {1680}), Special({0}, {600})}
=============================================================================
