------------------------ MODULE MCNotificationOutbox ------------------------
EXTENDS NotificationOutbox, TLC

MCSymmetry == Permutations(Sites) \union Permutations(Plans)

\* The plan of the day is known from its first report on: before it nothing is
\* kept under a plan, and which one the report brings makes no difference.
FirstPlanStands == world'.plan # world.plan => world.final
=============================================================================
