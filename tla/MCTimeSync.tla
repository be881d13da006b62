----------------------------- MODULE MCTimeSync -----------------------------
EXTENDS TimeSync

\* Four clocks, no two of which differ by as much as another two.
MCSkew == <<0, 5, -3, 11>>
=============================================================================
