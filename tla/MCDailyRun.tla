----------------------------- MODULE MCDailyRun -----------------------------
EXTENDS DailyRun

MCGroup == [s \in Sites |-> 1]

\* Site 1 signs in through its upstream, site 2 waits for Harvest or
\* submits something whose outcome stays unknown.
Done == Outcome("done", "none", FALSE)
Outage == Outcome("deferred", "upstream", FALSE)
MCOutcomes == <<{Done, Outage, Outcome("login", "login", FALSE)},
                {Done, Outage, Outcome("deferred", "harvest", FALSE),
                 Outcome("attention", "none", TRUE)}>>
MCLogins == {"failed", "upstream"}
=============================================================================
