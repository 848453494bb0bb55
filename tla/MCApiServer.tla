------------------------------ MODULE MCApiServer ------------------------------
EXTENDS ApiServer

CONSTANTS x, y, g, h1, h2

\* What the loads have in common: nothing unusual happens.
Plain == [handlers |-> {x}, readers |-> {g}, hashes |-> {h1}, evaluators |-> {Deployer},
          managed |-> TRUE, lags |-> FALSE, restarts |-> 0, newcomers |-> FALSE,
          legacy |-> FALSE]

\* A provider that calls the contract itself, lagging nodes and a client that polls;
\* one managed request at a time next to a client that polls, and a restart; two managed
\* requests at a time; the jobs of an older version, whose verdicts share the
\* deployer's wallet with the seeds of new agents and the faucets; the same jobs, read
\* by a client, and a restart.
MCLoads == {
    [Plain EXCEPT !.evaluators = {NoAddress}, !.managed = FALSE, !.lags = TRUE],
    [Plain EXCEPT !.evaluators = Addresses \cup {NoAddress}, !.restarts = 1],
    [Plain EXCEPT !.handlers = {x, y}, !.readers = {}, !.hashes = {h1, h2}],
    [Plain EXCEPT !.handlers = {x, y}, !.readers = {}, !.evaluators = {}, !.newcomers = TRUE,
                  !.legacy = TRUE],
    [Plain EXCEPT !.evaluators = {}, !.legacy = TRUE, !.restarts = 1]}

=============================================================================
