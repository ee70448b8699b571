---------------------------- MODULE MCDifferential ----------------------------
EXTENDS Differential

MCAddress == {"home", "away"}
===============================================================================
