---------------------------- MODULE MCActionCenter ----------------------------
EXTENDS ActionCenter, TLC
CONSTANTS o1, o2, r1, r2
===============================================================================
