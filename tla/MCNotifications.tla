-------------------------- MODULE MCNotifications --------------------------
EXTENDS Notifications, TLC

Alike == Permutations(Calls) \cup Permutations(Customers)
=============================================================================
