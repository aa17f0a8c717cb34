---------------------------- MODULE MCMaintenance ----------------------------
EXTENDS Maintenance

CONSTANTS r1, r2, r3, r4, gc, removal, backup, c1, c2

MCRequests == {r1, r2, r3, r4}
MCOwners == {gc, removal, backup}
MCTimedOwners == {removal, backup}
MCChannels == {c1, c2}
=============================================================================
