--------------------------- MODULE MCIsolateLimits ---------------------------
EXTENDS IsolateLimits
EveryBehaviour == AllBehaviours
=============================================================================
