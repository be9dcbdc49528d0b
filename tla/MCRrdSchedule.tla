--------------------------- MODULE MCRrdSchedule ---------------------------
(* The schedule of the RRD worker at paces that reach every branch.          *)

EXTENDS RrdSchedule

Pace(late, read, store, restarts, back) ==
  [late |-> late, read |-> read, store |-> store, restarts |-> restarts,
   back |-> back]

\* Recording takes nearly a period; waking up, reading and recording together
\* do, and waking up and reading alone; recording takes several periods; and
\* everything is slow.
SlowPaces == {Pace(0, 0, 5, FALSE, {}), Pace(1, 3, 1, FALSE, {}),
              Pace(1, 3, 9, TRUE, {}), Pace(2, 6, 3, TRUE, {})}

\* The clock is set back: anywhere but between waking up and reading, and there
\* too; with a worker that is punctual, slow, and restarted.
SetBackPaces == {Pace(1, 2, 2, FALSE, Places \ {"read"}),
                 Pace(0, 4, 8, FALSE, {"store", "step"}),
                 Pace(1, 1, 1, FALSE, Places),
                 Pace(0, 1, 1, TRUE, {"sleep"})}

SeveralPaces == SlowPaces \cup SetBackPaces
SlowRecords  == {Pace(0, 0, 9, FALSE, {})}
SlowReadings == {Pace(2, 7, 0, FALSE, {})}

=============================================================================
