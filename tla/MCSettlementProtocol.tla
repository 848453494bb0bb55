------------------------- MODULE MCSettlementProtocol -------------------------
EXTENDS SettlementProtocol

\* The other job manager rejects the work of a provider in its own job 1.
MCOtherOutcomes ==
    [job: {1}, cycle: {0}, provider: Providers, evaluator: Stakers \ Providers,
     completed: {FALSE}]

=============================================================================
