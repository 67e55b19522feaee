--------------------------- MODULE MCFleetHealth ---------------------------
EXTENDS FleetHealth
=============================================================================
